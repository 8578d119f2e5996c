-------------------------- MODULE OutboundMessages --------------------------
(***************************************************************************)
(* Outbound with its payloads and sources spelled out: the pipeline of     *)
(* Outbound run on the checks and derivations of OutboundPolicy, and what  *)
(* must be true of every message that reaches the SMTP server.             *)
(***************************************************************************)
EXTENDS Outbound, OutboundPolicy

CONSTANTS
  Arguments,    \* the arguments a payload stands for
  Message       \* the source message a version stands for

BuildMessage(message) ==
  LET content == message.intent.content
      src == message.intent.src
  IN CASE message.kind = "send" -> BuildSendMessage(content)
       [] message.kind = "reply" -> BuildReplyMessage(content, Message[src])
       [] OTHER -> BuildForwardMessage(content, Message[src])

\* The constants of Outbound that OutboundPolicy decides.
Acceptable == [send |-> {p \in Payloads : SendAccepts(Arguments[p])},
               reply |-> {p \in Payloads : ReplyAccepts(Arguments[p])},
               forward |-> {p \in Payloads : ForwardAccepts(Arguments[p])}]
Derived == [send |-> [p \in Payloads |-> SendContent(Arguments[p])],
            reply |-> [p \in Payloads |-> ReplyContent(Arguments[p])],
            forward |-> [p \in Payloads |-> ForwardContent(Arguments[p])]]
AllContents == {Derived[kind][p] : kind \in AllKinds, p \in Payloads}
ReplySources == {v \in Versions : ReplySource(Message[v])}
ForwardSources == {v \in Versions : ForwardSource(Message[v])}
CarryAttachments == {v \in Versions : Message[v].attachments}

ASSUME ContentAssumption ==
  /\ Arguments \in [Payloads -> Parameters] /\ Message \in [Versions -> SourceMessages]
  /\ ValidPayloads = Acceptable /\ Contents = AllContents /\ Derive = Derived
  /\ Repliable = ReplySources /\ Forwardable = ForwardSources
  /\ WithAttachments = CarryAttachments

\* A receipt holds a fingerprint of its source (folder, UIDVALIDITY, UID and date
\* are abstracted): two sources that differ at all differ in it.
Fingerprint(m) == <<m.from, m.subject, m.messageId>>
ASSUME FingerprintAssumption ==
  \A v, w \in Versions : Fingerprint(Message[v]) = Fingerprint(Message[w]) => v = w

\* A size the server does report is right.
ASSUME SizeAssumption ==
  \A v \in Versions : Message[v].size \in {NoSize, Message[v].bytes}
-----------------------------------------------------------------------------
AddressKeys(addresses) == {AddressKey[a] : a \in addresses}
\* The addresses the arguments of a call name.
Named(q) == LET given == Arguments[q.payload]
                asked == IF q.kind = "send" THEN given.to \o given.cc ELSE given.to
            IN {KeyOf(asked[n]) : n \in 1..Len(asked)}

(***************************************************************************)
(* A send or a forward in flight goes to the addresses its live call named *)
(* and to no other, to each of them once whatever their spelling and       *)
(* whether in To or Cc, and to no more than the cap; although the receipt  *)
(* it was sent under was issued for other arguments (validateRecipients,   *)
(* send-intent-receipt.ts:63-67).                                          *)
(***************************************************************************)
AddressedAsAsked ==
  \A c \in Calls, n \in 1..Len(wire) :
    pc[c] = "awaiting" /\ wire[n].id = Key(c) /\ req[c].kind # "reply" =>
      LET m == BuildMessage(wire[n].message) IN
      /\ AddressKeys(m.to \cup m.cc) = Named(req[c])
      /\ m.to # {} /\ m.to \cap m.cc = {}
      /\ \A a, b \in m.to \cup m.cc : AddressKey[a] = AddressKey[b] => a = b
      /\ Cardinality(Named(req[c])) <= MaxRecipients

Replied == {n \in 1..Len(wire) : wire[n].message.kind = "reply"}
Forwarded == {n \in 1..Len(wire) : wire[n].message.kind = "forward"}
SourceOf(n) == Message[wire[n].message.intent.src]

(***************************************************************************)
(* A reply goes to one address: the only one the server found in Reply-To  *)
(* if the source has such a header, and its From if it has none. A         *)
(* Reply-To that is over its bound, holds a control character or names     *)
(* several never lets From be written to instead (deriveRecipient).        *)
(***************************************************************************)
RepliesWhereAsked ==
  \A n \in Replied :
    LET m == BuildMessage(wire[n].message)
        src == SourceOf(n)
        asked == IF HasHeader(src, "reply-to") THEN {Normalize[a] : a \in ToSet(src.replyTo)}
                 ELSE {Normalize[src.from]}
    IN /\ m.to = asked /\ Cardinality(asked) = 1 /\ NoAddress \notin asked /\ m.cc = {}
       /\ HasHeader(src, "reply-to") => ~(\/ FirstHeader(src, "reply-to").bytes > HeaderCap
                                          \/ FirstHeader(src, "reply-to").control)

FirstAt(ids, id) == CHOOSE k \in 1..Len(ids) : ids[k] = id /\ \A j \in 1..(k - 1) : ids[j] # id

(***************************************************************************)
(* A reply continues the thread of its source: it names the source in      *)
(* In-Reply-To; its References hold no id twice, stay within the bound,    *)
(* keep the source's order, let go of the oldest first, and end with the   *)
(* source unless the source's own chain already named it                   *)
(* (buildReferencesChain).                                                 *)
(***************************************************************************)
ThreadContinues ==
  \A n \in Replied :
    LET m == BuildMessage(wire[n].message)
        src == SourceOf(n)
        chain == SourceChain(src)
        refs == m.references
        Old == ToSet(chain)
    IN IF src.messageId \notin WellFormedIds
       THEN m.inReplyTo = NoMessageId /\ refs = << >>
       ELSE /\ m.inReplyTo = src.messageId
            /\ Len(refs) \in 1..MaxReferences
            /\ \A j, k \in 1..Len(refs) : refs[j] = refs[k] => j = k
            /\ ToSet(refs) \subseteq Old \cup {src.messageId}
            /\ src.messageId \notin Old => refs[Len(refs)] = src.messageId
            /\ \A j, k \in 1..Len(refs) :
                 j < k /\ refs[k] \in Old => FirstAt(chain, refs[j]) < FirstAt(chain, refs[k])
            /\ \A old \in Old \ ToSet(refs), kept \in Old \cap ToSet(refs) :
                 FirstAt(chain, old) < FirstAt(chain, kept)

(***************************************************************************)
(* What a forward quotes is the whole text of its source, never the text   *)
(* of the part a bounded fetch happened to return                          *)
(* (fetchForwardSourceContent, deriveForwardIntent).                       *)
(***************************************************************************)
ForwardedWhole ==
  \A n \in Forwarded :
    /\ BuildMessage(wire[n].message).quoted = SourceOf(n).text
    /\ SourceOf(n).text \in 1..MaxQuoted
=============================================================================

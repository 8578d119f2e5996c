--------------------------- MODULE OutboundPolicy ---------------------------
(***************************************************************************)
(* What outbound mail may say: the checks on what a caller supplies, what  *)
(* is read from the source of a reply or a forward, and the message made   *)
(* of the two (smtp/policy, smtp/*intent, smtp/subject-prefix and          *)
(* mail/source-message in src/src).  Pure: previews and live calls use the *)
(* same definitions.                                                       *)
(*                                                                         *)
(* An address is what someone wrote; Normalize and AddressKey are the two  *)
(* conversions, of which only the assumptions below are used.  Subjects    *)
(* and texts are known by their length and by what the checks look for in  *)
(* them.  Recipient lists are sorted by the code before anything compares  *)
(* them, so here they are sets.                                            *)
(***************************************************************************)
EXTENDS Naturals, Sequences, FiniteSets, SequencesExt

CONSTANTS
  Spellings, NoAddress,   \* addresses as written, and none
  Normalize, AddressKey,  \* trimmed, or NoAddress if malformed; lower case
  Account,                \* the configured username
  MessageIds, NoMessageId, WellFormedIds,
  MaxRecipients, MaxSubject, MaxText,    \* bounds on a message
  MaxQuoted, SourceCap, NoSize,          \* bounds on a forwarded source
  MaxReferences, HeaderCap               \* bounds on a thread and on a raw header

Fields == {"references", "reply-to", "other"}
Subjects == [length : Nat, control : BOOLEAN, prefix : {"none", "re", "fwd"}]
Texts == [length : Nat, paired : BOOLEAN]
Parameters == [from : Spellings \cup {NoAddress}, to : Seq(Spellings), cc : Seq(Spellings),
               subject : Subjects, text : Texts]
\* A header line as it arrives: of References the ids, of Reply-To whether a
\* control character hides in it.  The server parses Reply-To itself (replyTo).
Headers == [field : Fields, bytes : Nat, control : BOOLEAN, ids : Seq(MessageIds)]
SourceMessages ==
  [from : Spellings \cup {NoAddress}, replyTo : Seq(Spellings),
   messageId : MessageIds \cup {NoMessageId}, subject : Subjects, headers : Seq(Headers),
   size : Nat \cup {NoSize}, bytes : Nat,     \* as reported, and as it is
   text : Nat, part : Nat,                    \* of the whole, and of its first SourceCap bytes
   attachments : BOOLEAN]

ASSUME PolicyAssumption ==
  /\ NoAddress \notin Spellings /\ NoSize \notin Nat
  /\ Normalize \in [Spellings -> Spellings \cup {NoAddress}]
  /\ WellFormedIds \subseteq MessageIds /\ NoMessageId \notin MessageIds
  /\ Account \in Spellings
  /\ MaxReferences \in Nat \ {0}
  /\ \A n \in {MaxRecipients, MaxSubject, MaxText, MaxQuoted, SourceCap, HeaderCap} : n \in Nat

WellFormed(a) == a # NoAddress /\ Normalize[a] # NoAddress
KeyOf(a) == AddressKey[Normalize[a]]
-----------------------------------------------------------------------------
(***************************************************************************)
(* Checks on what the caller supplies.                                     *)
(***************************************************************************)
SenderValid(from) ==
  /\ WellFormed(Account)
  /\ from # NoAddress => WellFormed(from) /\ KeyOf(from) = KeyOf(Account)

SameAddress(a, b) == WellFormed(a) /\ KeyOf(a) = KeyOf(b)

\* Mutant: each of To and Cc is deduplicated on its own.
KeptEach(to, cc) ==
  LET all == to \o cc IN
  {n \in 1..Len(all) : /\ WellFormed(all[n])
                       /\ \A m \in 1..(n - 1) : SameAddress(all[m], all[n])
                                                  => m <= Len(to) /\ n > Len(to)}

\* The positions of To and Cc, taken together, that name an address first.
Kept(to, cc) ==
  LET all == to \o cc IN
  {n \in 1..Len(all) : /\ WellFormed(all[n])
                       /\ \A m \in 1..(n - 1) : ~SameAddress(all[m], all[n])}

ToOf(to, cc) == {Normalize[to[n]] : n \in Kept(to, cc) \cap (1..Len(to))}
CcOf(to, cc) == {Normalize[(to \o cc)[n]] : n \in Kept(to, cc) \ (1..Len(to))}

\* Duplicates are dropped, a malformed address refuses the whole request.
RecipientsValid(to, cc) ==
  /\ to # << >>
  /\ \A n \in 1..Len(to \o cc) : WellFormed((to \o cc)[n])
  /\ Cardinality(Kept(to, cc)) <= MaxRecipients

SubjectValid(s) == ~s.control /\ s.length \in 1..MaxSubject
BodyValid(t) == t.length \in 1..MaxText /\ t.paired

PrefixLength == [re |-> 4, fwd |-> 5]      \* "Re: " and "Fwd: "
\* A prefix is put before a subject that does not begin with it; before nothing
\* it stands without its space.
ApplyPrefixOnce(s, prefix) ==
  LET length == IF s.length = 0 THEN PrefixLength[prefix] - 1
                ELSE IF s.prefix = prefix THEN s.length
                ELSE s.length + PrefixLength[prefix]
  IN [length |-> length, control |-> FALSE, prefix |-> prefix]
-----------------------------------------------------------------------------
(***************************************************************************)
(* What is read from the source message.  Only the first header of a name  *)
(* counts, and one that is over its bound is never cut and used.           *)
(***************************************************************************)
HeadersNamed(m, field) == {i \in DOMAIN m.headers : m.headers[i].field = field}
HasHeader(m, field) == HeadersNamed(m, field) # {}
FirstHeader(m, field) == m.headers[Min(HeadersNamed(m, field))]

UnusableReplyTo(m) ==
  FirstHeader(m, "reply-to").bytes > HeaderCap \/ FirstHeader(m, "reply-to").control
UsableReferences(m) ==
  HasHeader(m, "references") /\ FirstHeader(m, "references").bytes <= HeaderCap

\* What a bounded fetch of the source returns, and the text found in it.
FetchedBytes(m) == IF m.bytes <= SourceCap THEN m.bytes ELSE SourceCap
FetchedText(m) == IF m.bytes <= SourceCap THEN m.text ELSE m.part

\* Mutant: a message of unreported size passes for complete.
SourceContentPresumed(m) == m.size # NoSize => FetchedBytes(m) >= m.size

\* Completeness is proved by the reported size or not at all.
SourceContentComplete(m) == m.size # NoSize /\ FetchedBytes(m) >= m.size
-----------------------------------------------------------------------------
(***************************************************************************)
(* Replies: one recipient, and the thread.                                 *)
(***************************************************************************)
\* Mutant: a Reply-To that cannot be used falls back to From.
DeriveRecipientFallback(m) ==
  IF HasHeader(m, "reply-to") /\ ~UnusableReplyTo(m) /\ Len(m.replyTo) = 1
  THEN Normalize[m.replyTo[1]]
  ELSE IF m.from = NoAddress THEN NoAddress ELSE Normalize[m.from]

\* Once there is a Reply-To header From is out, whatever the header holds.
DeriveRecipient(m) ==
  IF HasHeader(m, "reply-to")
  THEN IF UnusableReplyTo(m) \/ Len(m.replyTo) # 1 THEN NoAddress ELSE Normalize[m.replyTo[1]]
  ELSE IF m.from = NoAddress THEN NoAddress ELSE Normalize[m.from]

\* Each id once, where it is first; by n, those of the first n ids.
AddOnce(kept, id) == IF id \in ToSet(kept) THEN kept ELSE Append(kept, id)
DistinctOf(ids) ==
  LET kept[n \in 0..Len(ids)] == IF n = 0 THEN << >> ELSE AddOnce(kept[n - 1], ids[n])
  IN kept
Distinct(ids) == DistinctOf(ids)[Len(ids)]

\* Mutant: a chain over the bound keeps its beginning.
BuildReferencesChainHead(ids, id) ==
  LET chain == AddOnce(Distinct(ids), id)
  IN IF Len(chain) <= MaxReferences THEN chain ELSE SubSeq(chain, 1, MaxReferences)

BuildReferencesChain(ids, id) ==
  LET chain == AddOnce(Distinct(ids), id)
      over == Len(chain) - MaxReferences
  IN IF Len(chain) <= MaxReferences THEN chain ELSE SubSeq(chain, over + 1, Len(chain))

\* A chain with one id that is not well formed is dropped whole.
SourceChain(m) ==
  IF UsableReferences(m) /\ ToSet(FirstHeader(m, "references").ids) \subseteq WellFormedIds
  THEN FirstHeader(m, "references").ids ELSE << >>

Threaded(m) == m.messageId \in WellFormedIds
DeriveThreading(m) ==
  IF Threaded(m)
  THEN [inReplyTo |-> m.messageId,
        references |-> BuildReferencesChain(SourceChain(m), m.messageId)]
  ELSE [inReplyTo |-> NoMessageId, references |-> << >>]
-----------------------------------------------------------------------------
(***************************************************************************)
(* Intents.  A kind accepts a payload, and a reply or forward its source;  *)
(* the content is the part of the intent the caller decides, the rest      *)
(* comes from the source.                                                  *)
(***************************************************************************)
SendAccepts(p) ==
  /\ SenderValid(p.from) /\ RecipientsValid(p.to, p.cc)
  /\ SubjectValid(p.subject) /\ BodyValid(p.text)
ReplyAccepts(p) == BodyValid(p.text)
ForwardAccepts(p) == RecipientsValid(p.to, << >>) /\ (p.text.length = 0 \/ BodyValid(p.text))

NoSubject == [length |-> 0, control |-> FALSE, prefix |-> "none"]
SendContent(p) ==
  [to |-> ToOf(p.to, p.cc), cc |-> CcOf(p.to, p.cc), subject |-> p.subject, text |-> p.text]
ReplyContent(p) == [to |-> {}, cc |-> {}, subject |-> NoSubject, text |-> p.text]
ForwardContent(p) ==
  [to |-> ToOf(p.to, << >>), cc |-> {}, subject |-> NoSubject, text |-> p.text]

ReplySource(m) ==
  /\ WellFormed(Account) /\ DeriveRecipient(m) # NoAddress
  /\ SubjectValid(ApplyPrefixOnce(m.subject, "re"))
ForwardSource(m) ==
  /\ WellFormed(Account) /\ SourceContentComplete(m)
  /\ FetchedText(m) \in 1..MaxQuoted
  /\ SubjectValid(ApplyPrefixOnce(m.subject, "fwd"))

\* The message each kind makes of its content and its source.
BuildSendMessage(content) ==
  [to |-> content.to, cc |-> content.cc, subject |-> content.subject,
   text |-> content.text, quoted |-> 0, inReplyTo |-> NoMessageId, references |-> << >>]
BuildReplyMessage(content, m) ==
  [to |-> {DeriveRecipient(m)}, cc |-> {}, subject |-> ApplyPrefixOnce(m.subject, "re"),
   text |-> content.text, quoted |-> 0,
   inReplyTo |-> DeriveThreading(m).inReplyTo, references |-> DeriveThreading(m).references]
BuildForwardMessage(content, m) ==
  [to |-> content.to, cc |-> {}, subject |-> ApplyPrefixOnce(m.subject, "fwd"),
   text |-> content.text, quoted |-> FetchedText(m),
   inReplyTo |-> NoMessageId, references |-> << >>]
=============================================================================

----------------------- MODULE OutboundMessagesProofs -----------------------
(***************************************************************************)
(* Proofs about the messages that reach the SMTP server, for any           *)
(* arguments, any source messages and any bounds; on top of OutboundProofs. *)
(***************************************************************************)
EXTENDS OutboundMessages, OutboundProofs, FiniteSetTheorems, WellFoundedInduction

-----------------------------------------------------------------------------
(* What was issued, and what passed. *)

\* A receipt was signed for a source its kind accepts.
SourceInv == \A i \in Ids : issued[i] # NoReceipt =>
  /\ issued[i].kind = "reply" => issued[i].intent.src \in Repliable
  /\ issued[i].kind = "forward" => issued[i].intent.src \in Forwardable

\* A call that spends its receipt has arguments its kind accepts.
PassedInv == \A c \in Calls : pc[c] \in Spending => req[c].payload \in ValidPayloads[req[c].kind]

MessageInv == SourceInv /\ PassedInv

LEMMA MessageInit == Init => MessageInv
BY DEF Init, MessageInv, SourceInv, PassedInv, Spending, OnThread, Submitting

LEMMA SourceStep == ASSUME TypeOK, SourceInv, [Next]_vars PROVE SourceInv'
<1>1. CASE UNCHANGED issued
  BY <1>1 DEF SourceInv
<1>2. CASE Preview
  <2>1. PICK i \in Ids, p \in Payloads :
          PreviewSend(i, p) \/ PreviewReply(i, p) \/ PreviewForward(i, p)
    BY <1>2 DEF Preview
  <2>2. issued \in [Ids -> Receipts \cup {NoReceipt}]
    BY DEF TypeOK
  <2>3. PICK kind \in AllKinds, src \in Sources :
          /\ Issue(i, kind, IntentOf(kind, p, src))
          /\ kind = "reply" => src \in Repliable
          /\ kind = "forward" => src \in Forwardable
    BY <2>1 DEF PreviewSend, PreviewReply, PreviewForward, AllKinds, Sources, TypeOK,
                ReplyIntentValid, ForwardIntentValid
  <2> DEFINE r == [kind |-> kind, intent |-> IntentOf(kind, p, src), issuedAt |-> clock]
  <2>4. r.kind = kind /\ (kind # "send" => r.intent.src = src)
    BY DEF IntentOf
  <2>5. issued' = [issued EXCEPT ![i] = r]
    BY <2>3 DEF Issue
  <2> HIDE DEF r
  <2> QED
    BY <2>2, <2>3, <2>4, <2>5 DEF SourceInv
<1>3. CASE World
  BY <1>1, <1>3 DEF World, Tick, StepBack, ChangeSource, Crash, PowerLoss
<1>4. ASSUME NEW c \in Calls, CallStep(c) PROVE UNCHANGED issued
  BY <1>4 DEF CallStep, Synchronous, Submission, Start, Fetch, FetchFails, GetPassword, Return,
              Decline, Authorize, ReadClock, ExpiryInvalid, OpenMarker, AlreadyUsed, WriteMarker,
              SyncDir, GuardFails, Unlink, Inspect, Consumed, CreateTransport, Answered,
              SessionFails, HandOver, AnswerLost
<1> QED
  BY <1>1, <1>2, <1>3, <1>4 DEF Next, vars

\* A call that is spending after a step was spending before it, or has just passed.
Keeps(d) == pc'[d] \in Spending => /\ req'[d] = req[d]
                                   /\ pc[d] \in Spending \/ Passes(req[d], seen[d], clock)

LEMMA KeepsStep == ASSUME TypeOK, [Next]_vars, NEW d \in Calls PROVE Keeps(d)
<1> USE DEF Keeps, Spending, OnThread, Submitting
<1>0. /\ pc \in [Calls -> Stages] /\ req \in [Calls -> Requests]
  BY DEF TypeOK
<1>1. CASE UNCHANGED <<pc, req>>
  BY <1>1
<1>2. ASSUME NEW cs, Reset(cs) PROVE Keeps(d)
  BY <1>2 DEF Reset
<1>3. CASE World
  BY <1>1, <1>2, <1>3 DEF World, Tick, StepBack, ChangeSource, Crash, PowerLoss
<1>4. CASE Preview
  BY <1>1, <1>4 DEF Preview, PreviewSend, PreviewReply, PreviewForward, Issue
<1>5. ASSUME NEW c \in Calls, CallStep(c) PROVE Keeps(d)
  <2> USE DEF Goto, Finish
  <2>1. ASSUME NEW q \in Inputs, Start(c, q) PROVE Keeps(d)
    BY <1>0, <2>1 DEF Start
  <2>2. ASSUME NEW secret, Fetch(c, secret) PROVE Keeps(d)
    BY <1>0, <2>2 DEF Fetch
  <2>3. CASE Authorize(c)
    BY <1>0, <2>3 DEF Authorize
  <2>4. CASE Decline(c) \/ FetchFails(c) \/ ExpiryInvalid(c) \/ AlreadyUsed(c) \/ GuardFails(c)
    BY <1>0, <2>4 DEF Decline, FetchFails, ExpiryInvalid, AlreadyUsed, GuardFails
  <2>5. CASE ReadClock(c) \/ OpenMarker(c) \/ WriteMarker(c) \/ SyncDir(c) \/ Unlink(c)
               \/ Consumed(c) \/ \E i \in Ids : Inspect(c, i)
    BY <1>0, <2>5 DEF ReadClock, OpenMarker, WriteMarker, SyncDir, Unlink, Consumed, Inspect
  <2>6. CASE GetPassword(c) \/ CreateTransport(c) \/ Answered(c)
    BY <1>0, <2>6 DEF GetPassword, CreateTransport, Answered
  <2>7. ASSUME NEW code, NEW command,
               SessionFails(c, code, command) \/ AnswerLost(c, command)
        PROVE  Keeps(d)
    BY <1>0, <2>7 DEF SessionFails, AnswerLost
  <2>8. ASSUME NEW verdict, HandOver(c, verdict) PROVE Keeps(d)
    BY <1>0, <2>8 DEF HandOver
  <2>9. CASE Return(c)
    BY <1>2, <2>9 DEF Return
  <2> QED
    BY <1>5, <2>1, <2>2, <2>3, <2>4, <2>5, <2>6, <2>7, <2>8, <2>9
       DEF CallStep, Synchronous, Submission
<1> QED
  BY <1>1, <1>3, <1>4, <1>5 DEF Next, vars

LEMMA PassesAccepts ==
  ASSUME NEW q, NEW s, NEW t, Passes(q, s, t)
  PROVE  q.payload \in ValidPayloads[q.kind]
BY DEF Passes, SendPasses, ReplyPasses, ForwardPasses, SendIntentValid, ReplyIntentValid,
       ForwardIntentValid

LEMMA MessageStep == ASSUME TypeOK, MessageInv, [Next]_vars PROVE MessageInv'
<1>1. PassedInv'
  BY KeepsStep, PassesAccepts DEF MessageInv, PassedInv, Keeps
<1> QED
  BY <1>1, SourceStep DEF MessageInv

LEMMA MessageInvariance == Spec => []MessageInv
<1>1. TypeOK /\ MessageInv /\ [Next]_vars => MessageInv'
  BY MessageStep
<1> QED
  BY <1>1, MessageInit, TypeCorrect, PTL DEF Spec
-----------------------------------------------------------------------------
(* Replies and forwards: what is on the wire came of a source its kind accepts. *)

LEMMA WireSource ==
  ASSUME Inv, MessageInv, NEW n \in 1..Len(wire)
  PROVE  LET src == wire[n].message.intent.src IN
         /\ wire[n].message.kind = "reply" => src \in Versions /\ ReplySource(Message[src])
         /\ wire[n].message.kind = "forward" => src \in Versions /\ ForwardSource(Message[src])
<1> DEFINE i == wire[n].id
<1>1. wire[n] \in [id : Ids, message : Messages]
  BY SeqElement DEF Inv, TypeOK
<1>2. /\ issued[i] # NoReceipt
      /\ wire[n].message = [kind |-> issued[i].kind, intent |-> issued[i].intent]
  BY DEF Inv, WireInv
<1>3. /\ wire[n].message.kind = issued[i].kind
      /\ wire[n].message.intent = issued[i].intent
  BY <1>2
<1>4. i \in Ids
  BY <1>1
<1>5. /\ issued[i].kind = "reply" => issued[i].intent.src \in Repliable
      /\ issued[i].kind = "forward" => issued[i].intent.src \in Forwardable
  BY <1>2, <1>4 DEF MessageInv, SourceInv
<1> QED
  BY <1>3, <1>5, ContentAssumption DEF ReplySources, ForwardSources

LEMMA ReplyTarget ==
  ASSUME NEW m \in SourceMessages, ReplySource(m)
  PROVE  LET asked == IF HasHeader(m, "reply-to") THEN {Normalize[a] : a \in ToSet(m.replyTo)}
                      ELSE {Normalize[m.from]}
         IN /\ {DeriveRecipient(m)} = asked /\ Cardinality(asked) = 1 /\ NoAddress \notin asked
            /\ HasHeader(m, "reply-to") => ~UnusableReplyTo(m)
<1>1. DeriveRecipient(m) # NoAddress
  BY DEF ReplySource
<1>2. \A x : Cardinality({x}) = 1
  BY FS_Singleton
<1>3. CASE HasHeader(m, "reply-to")
  <2>1. /\ ~UnusableReplyTo(m) /\ Len(m.replyTo) = 1
        /\ DeriveRecipient(m) = Normalize[m.replyTo[1]]
    BY <1>1, <1>3 DEF DeriveRecipient
  <2>2. m.replyTo \in Seq(Spellings)
    BY DEF SourceMessages
  <2>3. ToSet(m.replyTo) = {m.replyTo[1]}
    BY <2>1, <2>2 DEF ToSet
  <2>4. {Normalize[a] : a \in ToSet(m.replyTo)} = {DeriveRecipient(m)}
    BY <2>1, <2>3
  <2> QED
    BY <1>1, <1>2, <1>3, <2>1, <2>4
<1>4. CASE ~HasHeader(m, "reply-to")
  <2>1. DeriveRecipient(m) = Normalize[m.from]
    BY <1>1, <1>4 DEF DeriveRecipient
  <2> QED
    BY <1>1, <1>2, <1>4, <2>1
<1> QED
  BY <1>3, <1>4

\* Every reply goes to the one address its source asks for; a Reply-To that
\* cannot be used is never replaced by From (deriveRecipient).
THEOREM RepliesWhereAskedHolds == Spec => []RepliesWhereAsked
<1>1. ASSUME Inv, MessageInv PROVE RepliesWhereAsked
  <2> SUFFICES ASSUME NEW n \in Replied
               PROVE  LET m == BuildMessage(wire[n].message)
                          src == SourceOf(n)
                          asked == IF HasHeader(src, "reply-to")
                                   THEN {Normalize[a] : a \in ToSet(src.replyTo)}
                                   ELSE {Normalize[src.from]}
                      IN /\ m.to = asked /\ Cardinality(asked) = 1
                         /\ NoAddress \notin asked /\ m.cc = {}
                         /\ HasHeader(src, "reply-to") =>
                              ~(\/ FirstHeader(src, "reply-to").bytes > HeaderCap
                                \/ FirstHeader(src, "reply-to").control)
    BY DEF RepliesWhereAsked
  <2> DEFINE src == SourceOf(n)
  <2>1. n \in 1..Len(wire) /\ wire[n].message.kind = "reply"
    BY DEF Replied
  <2>2. src \in SourceMessages /\ ReplySource(src)
    BY <1>1, <2>1, WireSource, ContentAssumption DEF SourceOf
  <2>3. /\ BuildMessage(wire[n].message).to = {DeriveRecipient(src)}
        /\ BuildMessage(wire[n].message).cc = {}
    BY <2>1 DEF BuildMessage, BuildReplyMessage, SourceOf
  <2> QED
    BY <2>2, <2>3, ReplyTarget DEF UnusableReplyTo
<1> QED
  BY <1>1, Invariance, MessageInvariance, PTL

\* Every forward quotes the whole text of its source (fetchForwardSourceContent,
\* deriveForwardIntent).
THEOREM ForwardedWholeHolds == Spec => []ForwardedWhole
<1>1. ASSUME Inv, MessageInv PROVE ForwardedWhole
  <2> SUFFICES ASSUME NEW n \in Forwarded
               PROVE  /\ BuildMessage(wire[n].message).quoted = SourceOf(n).text
                      /\ SourceOf(n).text \in 1..MaxQuoted
    BY DEF ForwardedWhole
  <2> DEFINE v == wire[n].message.intent.src
             m == Message[v]
  <2>1. n \in 1..Len(wire) /\ wire[n].message.kind = "forward"
    BY DEF Forwarded
  <2>2. v \in Versions /\ ForwardSource(m)
    BY <1>1, <2>1, WireSource
  <2>3. m.size = m.bytes /\ FetchedBytes(m) >= m.size
    BY <2>2, SizeAssumption DEF ForwardSource, SourceContentComplete
  <2>4. m.bytes \in Nat /\ SourceCap \in Nat
    BY <2>2, ContentAssumption, PolicyAssumption DEF SourceMessages
  <2>5. m.bytes <= SourceCap
    BY <2>3, <2>4 DEF FetchedBytes
  <2>6. FetchedText(m) = m.text /\ m.text \in 1..MaxQuoted
    BY <2>2, <2>5 DEF FetchedText, ForwardSource
  <2>7. BuildMessage(wire[n].message).quoted = FetchedText(m)
    BY <2>1 DEF BuildMessage, BuildForwardMessage
  <2> QED
    BY <2>6, <2>7 DEF SourceOf
<1> QED
  BY <1>1, Invariance, MessageInvariance, PTL
-----------------------------------------------------------------------------
(* Recipients: no address is lost or doubled by the removal of duplicates. *)

\* A nonempty set of naturals has a least element.
LEMMA Least ==
  ASSUME NEW S \in SUBSET Nat, S # {}
  PROVE  \E k \in S : \A j \in S : k <= j
<1> DEFINE R == OpToRel(<, Nat)
<1>1. IsWellFoundedOn(R, Nat)
  BY NatLessThanWellFounded
<1>2. \A x, y \in Nat : y < x => <<y, x>> \in R
  BY DEF OpToRel
<1> HIDE DEF R
<1>3. PICK x \in S : \A y \in S : ~(<<y, x>> \in R)
  BY <1>1, WFMin
<1>4. ASSUME NEW y \in S PROVE x <= y
  <2>1. x \in Nat /\ y \in Nat
    OBVIOUS
  <2>2. ~(y < x)
    BY <1>2, <1>3, <2>1
  <2> QED
    BY <2>1, <2>2
<1> QED
  BY <1>4

AllNamed(all) == {KeyOf(all[n]) : n \in 1..Len(all)}

\* The kept positions name every address of the two lists, each once.
LEMMA KeptOnce ==
  ASSUME NEW to \in Seq(Spellings), NEW cc \in Seq(Spellings), RecipientsValid(to, cc)
  PROVE  LET all == to \o cc IN
         /\ Kept(to, cc) \subseteq 1..Len(all) /\ 1 \in Kept(to, cc)
         /\ \A m, n \in Kept(to, cc) : KeyOf(all[m]) = KeyOf(all[n]) => m = n
         /\ \A n \in 1..Len(all) : \E k \in Kept(to, cc) : KeyOf(all[k]) = KeyOf(all[n])
<1> DEFINE all == to \o cc
           K == Kept(to, cc)
<1>1. all \in Seq(Spellings) /\ Len(all) = Len(to) + Len(cc) /\ Len(to) \in Nat \ {0}
  BY DEF RecipientsValid
<1>2. \A n \in 1..Len(all) : WellFormed(all[n])
  BY DEF RecipientsValid
<1>3. Len(all) \in Nat /\ 1 \in 1..Len(all)
  BY <1>1
<1> HIDE DEF all
<1>4. K = {n \in 1..Len(all) : \A m \in 1..(n - 1) : KeyOf(all[m]) # KeyOf(all[n])}
  <2>1. \A n \in 1..Len(all) : \A m \in 1..(n - 1) : m \in 1..Len(all)
    BY <1>3
  <2> QED
    BY <1>2, <2>1 DEF Kept, SameAddress, all
<1> HIDE DEF K
<1>5. 1 \in K
  BY <1>3, <1>4
<1>6. ASSUME NEW m \in K, NEW n \in K, KeyOf(all[m]) = KeyOf(all[n]) PROVE m = n
  <2>1. m \in 1..Len(all) /\ n \in 1..Len(all)
    BY <1>4
  <2>2. ~(m < n) /\ ~(n < m)
    BY <1>3, <1>4, <1>6, <2>1
  <2> QED
    BY <1>3, <2>1, <2>2
<1>7. ASSUME NEW n \in 1..Len(all) PROVE \E k \in K : KeyOf(all[k]) = KeyOf(all[n])
  <2> DEFINE S == {k \in 1..Len(all) : KeyOf(all[k]) = KeyOf(all[n])}
  <2>1. S \in SUBSET Nat /\ S # {}
    BY <1>3
  <2>2. PICK k \in S : \A j \in S : k <= j
    BY <2>1, Least
  <2>3. \A m \in 1..(k - 1) : KeyOf(all[m]) # KeyOf(all[k])
    BY <1>3, <2>2
  <2> QED
    BY <1>4, <2>2, <2>3
<1> QED
  BY <1>4, <1>5, <1>6, <1>7 DEF K, all

LEMMA RecipientsExact ==
  ASSUME NEW to \in Seq(Spellings), NEW cc \in Seq(Spellings), RecipientsValid(to, cc)
  PROVE  LET everyone == ToOf(to, cc) \cup CcOf(to, cc) IN
         /\ AddressKeys(everyone) = AllNamed(to \o cc)
         /\ ToOf(to, cc) # {} /\ ToOf(to, cc) \cap CcOf(to, cc) = {}
         /\ \A a, b \in everyone : AddressKey[a] = AddressKey[b] => a = b
         /\ Cardinality(AllNamed(to \o cc)) <= MaxRecipients
<1> DEFINE all == to \o cc
           K == Kept(to, cc)
           everyone == ToOf(to, cc) \cup CcOf(to, cc)
<1>1. /\ Len(to) \in Nat \ {0} /\ Len(all) \in Nat
      /\ \A n \in 1..Len(to) : all[n] = to[n]
  BY DEF RecipientsValid
<1>2. /\ K \subseteq 1..Len(all) /\ 1 \in K
      /\ \A m, n \in K : KeyOf(all[m]) = KeyOf(all[n]) => m = n
      /\ \A n \in 1..Len(all) : \E k \in K : KeyOf(all[k]) = KeyOf(all[n])
  BY KeptOnce
<1>3. /\ ToOf(to, cc) = {Normalize[all[n]] : n \in K \cap (1..Len(to))}
      /\ CcOf(to, cc) = {Normalize[all[n]] : n \in K \ (1..Len(to))}
  BY <1>1 DEF ToOf, CcOf
<1> HIDE DEF all, K
<1>4. everyone = {Normalize[all[n]] : n \in K}
  BY <1>3
<1>5. AddressKeys(everyone) = {KeyOf(all[n]) : n \in K}
  BY <1>4 DEF AddressKeys, KeyOf
<1>6. AddressKeys(everyone) = AllNamed(all)
  <2>1. {KeyOf(all[n]) : n \in K} \subseteq {KeyOf(all[n]) : n \in 1..Len(all)}
    BY <1>2
  <2>2. {KeyOf(all[n]) : n \in 1..Len(all)} \subseteq {KeyOf(all[n]) : n \in K}
    BY <1>2
  <2> QED
    BY <1>5, <2>1, <2>2 DEF AllNamed
<1>7. ToOf(to, cc) # {}
  <2>1. 1 \in K \cap (1..Len(to))
    BY <1>1, <1>2
  <2>2. Normalize[all[1]] \in ToOf(to, cc)
    BY <1>3, <2>1
  <2> QED
    BY <2>2
<1>8. ToOf(to, cc) \cap CcOf(to, cc) = {}
  <2> SUFFICES ASSUME NEW m \in K \cap (1..Len(to)), NEW n \in K \ (1..Len(to)),
                      Normalize[all[m]] = Normalize[all[n]]
               PROVE  FALSE
    BY <1>3
  <2>1. KeyOf(all[m]) = KeyOf(all[n])
    BY DEF KeyOf
  <2> QED
    BY <1>2, <2>1
<1>9. \A a, b \in everyone : AddressKey[a] = AddressKey[b] => a = b
  <2> SUFFICES ASSUME NEW m \in K, NEW n \in K,
                      AddressKey[Normalize[all[m]]] = AddressKey[Normalize[all[n]]]
               PROVE  m = n
    BY <1>4
  <2> QED
    BY <1>2 DEF KeyOf
<1>10. Cardinality(AllNamed(all)) <= MaxRecipients
  <2> DEFINE f == [n \in K |-> KeyOf(all[n])]
  <2>1. IsFiniteSet(K)
    <3>1. IsFiniteSet(1..Len(all))
      BY <1>1, FS_Interval
    <3> QED
      BY <1>2, <3>1, FS_Subset
  <2>2. AllNamed(all) = {KeyOf(all[n]) : n \in K}
    BY <1>5, <1>6
  <2>3. f \in Surjection(K, AllNamed(all))
    BY <2>2 DEF Surjection
  <2>4. /\ IsFiniteSet(AllNamed(all)) /\ Cardinality(AllNamed(all)) <= Cardinality(K)
    <3> HIDE DEF f
    <3> QED
      BY <2>1, <2>3, FS_Surjection
  <2>5. Cardinality(K) <= MaxRecipients
    BY DEF K, RecipientsValid
  <2>6. /\ Cardinality(K) \in Nat /\ Cardinality(AllNamed(all)) \in Nat
        /\ MaxRecipients \in Nat
    BY <2>1, <2>4, FS_CardinalityType, PolicyAssumption
  <2> QED
    BY <2>4, <2>5, <2>6
<1> QED
  BY <1>6, <1>7, <1>8, <1>9, <1>10 DEF all

LEMMA ForwardRecipients ==
  ASSUME NEW to \in Seq(Spellings)
  PROVE  to \o << >> = to /\ CcOf(to, << >>) = {}
<1>1. to \o << >> = to
  OBVIOUS
<1>2. Kept(to, << >>) \subseteq 1..Len(to)
  BY <1>1 DEF Kept
<1> QED
  BY <1>1, <1>2 DEF CcOf

\* What a call in flight handed over is made of its own arguments.
LEMMA InFlight ==
  ASSUME Inv, NEW c \in Calls, NEW n \in 1..Len(wire), pc[c] = "awaiting", wire[n].id = Key(c)
  PROVE  /\ req[c].kind \in AllKinds /\ req[c].payload \in Payloads
         /\ wire[n].message.kind = req[c].kind
         /\ wire[n].message.intent.content = Derive[req[c].kind][req[c].payload]
<1>1. req[c].kind \in AllKinds /\ req[c].payload \in Payloads
  BY DEF Inv, TypeOK, Requests
<1>2. Authorized(c)
  BY DEF Inv, KeyInv, Spending, Submitting
<1>3. wire[n].message = [kind |-> issued[Key(c)].kind, intent |-> issued[Key(c)].intent]
  BY DEF Inv, WireInv
<1>4. /\ wire[n].message.kind = req[c].kind
      /\ wire[n].message.intent = IntentOf(req[c].kind, req[c].payload, seen[c].src)
  BY <1>2, <1>3 DEF Authorized
<1> QED
  BY <1>1, <1>4 DEF IntentOf

\* Every send and forward goes exactly to the addresses the live call named, each
\* once and within the cap (validateRecipients, validateSendIntent).
THEOREM AddressedAsAskedHolds == Spec => []AddressedAsAsked
<1>1. ASSUME Inv, MessageInv PROVE AddressedAsAsked
  <2> SUFFICES ASSUME NEW c \in Calls, NEW n \in 1..Len(wire),
                      pc[c] = "awaiting", wire[n].id = Key(c), req[c].kind # "reply"
               PROVE  LET m == BuildMessage(wire[n].message) IN
                      /\ AddressKeys(m.to \cup m.cc) = Named(req[c])
                      /\ m.to # {} /\ m.to \cap m.cc = {}
                      /\ \A a, b \in m.to \cup m.cc : AddressKey[a] = AddressKey[b] => a = b
                      /\ Cardinality(Named(req[c])) <= MaxRecipients
    BY DEF AddressedAsAsked
  <2> DEFINE m == BuildMessage(wire[n].message)
             p == req[c].payload
             q == Arguments[p]
             Exact == /\ AddressKeys(m.to \cup m.cc) = Named(req[c])
                      /\ m.to # {} /\ m.to \cap m.cc = {}
                      /\ \A a, b \in m.to \cup m.cc : AddressKey[a] = AddressKey[b] => a = b
                      /\ Cardinality(Named(req[c])) <= MaxRecipients
  <2> SUFFICES Exact
    OBVIOUS
  <2>1. /\ p \in Payloads /\ req[c].kind \in {"send", "forward"}
        /\ wire[n].message.kind = req[c].kind
        /\ wire[n].message.intent.content = Derived[req[c].kind][p]
    BY <1>1, InFlight, ContentAssumption DEF AllKinds
  <2>2. p \in Acceptable[req[c].kind]
    BY <1>1, ContentAssumption DEF MessageInv, PassedInv, Spending, Submitting
  <2>3. q.to \in Seq(Spellings) /\ q.cc \in Seq(Spellings)
    BY <2>1, ContentAssumption DEF Parameters
  <2>4. CASE req[c].kind = "send"
    <3>1. RecipientsValid(q.to, q.cc)
      BY <2>2, <2>4 DEF Acceptable, SendAccepts
    <3>2. m.to = ToOf(q.to, q.cc) /\ m.cc = CcOf(q.to, q.cc)
      BY <2>1, <2>4 DEF BuildMessage, BuildSendMessage, Derived, SendContent
    <3>3. Named(req[c]) = AllNamed(q.to \o q.cc)
      BY <2>4 DEF Named, AllNamed
    <3> HIDE DEF m, q
    <3>4. Exact
      BY <2>3, <3>1, <3>2, <3>3, RecipientsExact
    <3> QED
      BY <3>4
  <2>5. CASE req[c].kind = "forward"
    <3>1. RecipientsValid(q.to, << >>) /\ << >> \in Seq(Spellings)
      BY <2>2, <2>5 DEF Acceptable, ForwardAccepts
    <3>2. m.to = ToOf(q.to, << >>) /\ m.cc = CcOf(q.to, << >>)
      <4>1. m.to = ToOf(q.to, << >>) /\ m.cc = {}
        BY <2>1, <2>5 DEF BuildMessage, BuildForwardMessage, Derived, ForwardContent
      <4>2. CcOf(q.to, << >>) = {}
        BY <2>3, ForwardRecipients
      <4> QED
        BY <4>1, <4>2
    <3>3. Named(req[c]) = AllNamed(q.to \o << >>)
      BY <2>3, <2>5, ForwardRecipients DEF Named, AllNamed
    <3> HIDE DEF m, q
    <3>4. Exact
      BY <2>3, <3>1, <3>2, <3>3, RecipientsExact
    <3> QED
      BY <3>4
  <2> QED
    BY <2>1, <2>4, <2>5
<1> QED
  BY <1>1, Invariance, MessageInvariance, PTL
-----------------------------------------------------------------------------
\* A subject carries its prefix once: deriving it again, as for a reply to a
\* reply, changes nothing and makes no subject too long (applyPrefixOnce).
THEOREM PrefixOnce ==
  ASSUME NEW s \in Subjects, NEW prefix \in {"re", "fwd"}
  PROVE  LET once == ApplyPrefixOnce(s, prefix) IN ApplyPrefixOnce(once, prefix) = once
<1>1. s.length \in Nat /\ PrefixLength[prefix] \in {4, 5}
  BY DEF Subjects, PrefixLength
<1>2. /\ ApplyPrefixOnce(s, prefix).length # 0
      /\ ApplyPrefixOnce(s, prefix).prefix = prefix
      /\ ApplyPrefixOnce(s, prefix).control = FALSE
  BY <1>1 DEF ApplyPrefixOnce
<1> QED
  BY <1>2 DEF ApplyPrefixOnce
-----------------------------------------------------------------------------
(* Threads: what is kept of a chain.  A fact about every length is proved   *)
(* by the least one at which it could fail.                                *)

LEMMA DistinctStep ==
  ASSUME NEW ids \in Seq(MessageIds)
  PROVE  /\ DistinctOf(ids)[0] = << >>
         /\ \A n \in 1..Len(ids) : DistinctOf(ids)[n] = AddOnce(DistinctOf(ids)[n - 1], ids[n])
<1> DEFINE By(f, l) ==
             f = [n \in 0..l |-> IF n = 0 THEN << >> ELSE AddOnce(f[n - 1], ids[n])]
           Stuck == {l \in Nat : ~\E f : By(f, l)}
<1>1. Stuck = {}
  <2> SUFFICES ASSUME Stuck # {} PROVE FALSE
    OBVIOUS
  <2>1. PICK l \in Stuck : \A j \in Stuck : l <= j
    BY Least
  <2>2. CASE l = 0
    <3> DEFINE f == [n \in 0..l |-> << >>]
    <3>1. By(f, l)
      BY <2>2
    <3> QED
      BY <3>1
  <2>3. CASE l # 0
    <3>1. l - 1 \in Nat /\ l - 1 \notin Stuck
      <4> HIDE DEF By
      <4>1. l \in Nat /\ l - 1 \in Nat /\ l - 1 < l
        BY <2>3
      <4> QED
        BY <2>1, <4>1
    <3>2. PICK f : By(f, l - 1)
      BY <3>1
    <3> DEFINE g == [n \in 0..l |-> IF n = l THEN AddOnce(f[l - 1], ids[l]) ELSE f[n]]
    <3>3. ASSUME NEW n \in 0..l
          PROVE  g[n] = IF n = 0 THEN << >> ELSE AddOnce(g[n - 1], ids[n])
      <4>1. CASE n = l
        BY <2>3, <3>1, <4>1
      <4>2. CASE n # l
        <5>1. n \in 0..(l - 1) /\ g[n] = f[n] /\ (n # 0 => g[n - 1] = f[n - 1])
          BY <3>1, <4>2
        <5> QED
          BY <3>2, <5>1
      <4> QED
        BY <4>1, <4>2
    <3>4. By(g, l)
      BY <3>3
    <3> QED
      BY <3>4
  <2> QED
    BY <2>2, <2>3
<1>2. DistinctOf(ids) = CHOOSE f : By(f, Len(ids))
  BY DEF DistinctOf
<1>3. By(DistinctOf(ids), Len(ids))
  <2>1. Len(ids) \in Nat /\ Len(ids) \notin Stuck
    BY <1>1
  <2>2. \E f : By(f, Len(ids))
    BY <2>1
  <2> HIDE DEF By
  <2> QED
    BY <1>2, <2>2
<1>4. Len(ids) \in Nat
  OBVIOUS
<1> QED
  BY <1>3, <1>4

LEMMA FirstAtFound ==
  ASSUME NEW ids \in Seq(MessageIds), NEW id \in ToSet(ids)
  PROVE  /\ FirstAt(ids, id) \in 1..Len(ids) /\ ids[FirstAt(ids, id)] = id
         /\ \A k \in 1..Len(ids) : ids[k] = id => FirstAt(ids, id) <= k
<1> DEFINE S == {k \in 1..Len(ids) : ids[k] = id}
<1>1. Len(ids) \in Nat /\ S \in SUBSET Nat /\ S # {}
  BY DEF ToSet
<1>2. PICK k \in S : \A j \in S : k <= j
  BY <1>1, Least
<1>3. ids[k] = id /\ \A j \in 1..(k - 1) : ids[j] # id
  BY <1>1, <1>2
<1>4. /\ FirstAt(ids, id) \in 1..Len(ids) /\ ids[FirstAt(ids, id)] = id
      /\ \A j \in 1..(FirstAt(ids, id) - 1) : ids[j] # id
  BY <1>2, <1>3 DEF FirstAt
<1> QED
  BY <1>1, <1>4

\* The ids of s are among the first n of ids, in the order they first come there.
InOrder(ids, s, n) ==
  /\ s \in Seq(MessageIds) /\ ToSet(s) = {ids[k] : k \in 1..n}
  /\ \A j, k \in 1..Len(s) : j < k => FirstAt(ids, s[j]) < FirstAt(ids, s[k])

LEMMA AddOnceInOrder ==
  ASSUME NEW ids \in Seq(MessageIds), NEW n \in 1..Len(ids), NEW s, InOrder(ids, s, n - 1)
  PROVE  InOrder(ids, AddOnce(s, ids[n]), n)
<1>1. /\ Len(ids) \in Nat /\ s \in Seq(MessageIds) /\ Len(s) \in Nat /\ ids[n] \in MessageIds
      /\ ToSet(s) = {ids[k] : k \in 1..(n - 1)}
      /\ \A j, k \in 1..Len(s) : j < k => FirstAt(ids, s[j]) < FirstAt(ids, s[k])
  BY DEF InOrder
<1>2. {ids[k] : k \in 1..n} = ToSet(s) \cup {ids[n]}
  BY <1>1
<1>3. CASE ids[n] \in ToSet(s)
  BY <1>1, <1>2, <1>3 DEF AddOnce, InOrder
<1>4. CASE ids[n] \notin ToSet(s)
  <2> DEFINE t == Append(s, ids[n])
  <2>1. /\ AddOnce(s, ids[n]) = t /\ t \in Seq(MessageIds) /\ Len(t) = Len(s) + 1
        /\ t[Len(t)] = ids[n] /\ \A k \in 1..Len(s) : t[k] = s[k]
    BY <1>1, <1>4 DEF AddOnce
  <2>2. ToSet(t) = ToSet(s) \cup {ids[n]}
    <3> HIDE DEF t
    <3>1. DOMAIN t = 1..Len(t) /\ DOMAIN s = 1..Len(s)
      BY <1>1, <2>1
    <3>2. 1..Len(t) = (1..Len(s)) \cup {Len(t)}
      BY <1>1, <2>1
    <3>3. ToSet(t) = {t[k] : k \in 1..Len(s)} \cup {t[Len(t)]}
      BY <3>1, <3>2 DEF ToSet
    <3>4. {t[k] : k \in 1..Len(s)} = {s[k] : k \in 1..Len(s)}
      BY <2>1
    <3> QED
      BY <2>1, <3>1, <3>3, <3>4 DEF ToSet
  <2>3. FirstAt(ids, ids[n]) = n
    <3>1. ids[n] \in ToSet(ids)
      BY DEF ToSet
    <3>2. /\ FirstAt(ids, ids[n]) \in 1..n /\ ids[FirstAt(ids, ids[n])] = ids[n]
      BY <1>1, <3>1, FirstAtFound
    <3> QED
      BY <1>1, <1>4, <3>2
  <2>4. ASSUME NEW j \in 1..Len(s) PROVE FirstAt(ids, s[j]) < n
    <3>1. s[j] \in ToSet(s)
      BY <1>1 DEF ToSet
    <3>2. PICK k \in 1..(n - 1) : s[j] = ids[k]
      BY <1>1, <3>1
    <3>3. ids[k] \in ToSet(ids) /\ k \in 1..Len(ids)
      BY <1>1 DEF ToSet
    <3>4. FirstAt(ids, s[j]) \in Nat /\ FirstAt(ids, s[j]) <= k
      BY <1>1, <3>2, <3>3, FirstAtFound
    <3> QED
      BY <1>1, <3>4
  <2> HIDE DEF t
  <2>5. \A j, k \in 1..Len(t) : j < k => FirstAt(ids, t[j]) < FirstAt(ids, t[k])
    <3> SUFFICES ASSUME NEW j \in 1..Len(t), NEW k \in 1..Len(t), j < k
                 PROVE  FirstAt(ids, t[j]) < FirstAt(ids, t[k])
      OBVIOUS
    <3>1. j \in 1..Len(s) /\ t[j] = s[j]
      BY <1>1, <2>1
    <3>2. CASE k \in 1..Len(s)
      BY <1>1, <2>1, <3>1, <3>2
    <3>3. CASE k = Len(t)
      BY <2>1, <2>3, <2>4, <3>1, <3>3
    <3>4. k \in 1..Len(s) \/ k = Len(t)
      BY <1>1, <2>1
    <3> QED
      BY <3>2, <3>3, <3>4
  <2> QED
    BY <1>2, <2>1, <2>2, <2>5 DEF InOrder
<1> QED
  BY <1>3, <1>4

LEMMA DistinctInOrder ==
  ASSUME NEW ids \in Seq(MessageIds)
  PROVE  InOrder(ids, Distinct(ids), Len(ids))
<1> DEFINE d == DistinctOf(ids)
           Wrong == {n \in 0..Len(ids) : ~InOrder(ids, d[n], n)}
<1>1. Len(ids) \in Nat /\ Wrong \in SUBSET Nat
  OBVIOUS
<1>2. d[0] = << >> /\ \A n \in 1..Len(ids) : d[n] = AddOnce(d[n - 1], ids[n])
  BY DistinctStep
<1> HIDE DEF d
<1>3. Wrong = {}
  <2> SUFFICES ASSUME Wrong # {} PROVE FALSE
    OBVIOUS
  <2>1. PICK n \in Wrong : \A j \in Wrong : n <= j
    BY <1>1, Least
  <2>2. n # 0
    <3>1. InOrder(ids, << >>, 0)
      <4>1. << >> \in Seq(MessageIds) /\ Len(<< >>) = 0 /\ 1..0 = {}
        OBVIOUS
      <4>2. ToSet(<< >>) = {}
        BY DEF ToSet
      <4> QED
        BY <4>1, <4>2 DEF InOrder
    <3> QED
      BY <1>2, <2>1, <3>1
  <2>3. n \in 1..Len(ids) /\ n - 1 \in 0..Len(ids) /\ n - 1 \notin Wrong
    BY <1>1, <2>1, <2>2
  <2>4. InOrder(ids, d[n - 1], n - 1)
    BY <2>3
  <2>5. InOrder(ids, d[n], n)
    BY <1>2, <2>3, <2>4, AddOnceInOrder
  <2> QED
    BY <2>1, <2>5
<1> QED
  BY <1>1, <1>3 DEF Distinct, d

\* What AddOnce makes of a chain and the id of its source: every id once, those
\* of the chain in its order, then the id unless the chain named it.
LEMMA Chained ==
  ASSUME NEW ids \in Seq(MessageIds), NEW id \in MessageIds
  PROVE  LET c == AddOnce(Distinct(ids), id)
         IN /\ c \in Seq(MessageIds) /\ Len(c) \in Nat \ {0} /\ ToSet(c) = ToSet(ids) \cup {id}
            /\ \A j, k \in 1..Len(c) : c[j] = c[k] => j = k
            /\ id \notin ToSet(ids) => c[Len(c)] = id
            /\ \A j, k \in 1..Len(c) : j < k /\ c[k] \in ToSet(ids)
                 => c[j] \in ToSet(ids) /\ FirstAt(ids, c[j]) < FirstAt(ids, c[k])
<1> DEFINE d == Distinct(ids)
           c == AddOnce(d, id)
           Good ==
             /\ c \in Seq(MessageIds) /\ Len(c) \in Nat \ {0} /\ ToSet(c) = ToSet(ids) \cup {id}
             /\ \A j, k \in 1..Len(c) : c[j] = c[k] => j = k
             /\ id \notin ToSet(ids) => c[Len(c)] = id
             /\ \A j, k \in 1..Len(c) : j < k /\ c[k] \in ToSet(ids)
                  => c[j] \in ToSet(ids) /\ FirstAt(ids, c[j]) < FirstAt(ids, c[k])
<1> SUFFICES Good
  OBVIOUS
<1>1. /\ d \in Seq(MessageIds) /\ Len(d) \in Nat /\ ToSet(d) = ToSet(ids)
      /\ \A j, k \in 1..Len(d) : j < k => FirstAt(ids, d[j]) < FirstAt(ids, d[k])
  <2>1. ToSet(ids) = {ids[k] : k \in 1..Len(ids)}
    BY DEF ToSet
  <2> QED
    BY <2>1, DistinctInOrder DEF InOrder
<1> HIDE DEF d
<1>2. \A k \in 1..Len(d) : d[k] \in ToSet(ids) /\ FirstAt(ids, d[k]) \in Nat
  <2> SUFFICES ASSUME NEW k \in 1..Len(d)
               PROVE  d[k] \in ToSet(ids) /\ FirstAt(ids, d[k]) \in Nat
    OBVIOUS
  <2>1. d[k] \in ToSet(ids)
    BY <1>1 DEF ToSet
  <2> QED
    BY <2>1, FirstAtFound
<1>3. \A j, k \in 1..Len(d) : d[j] = d[k] => j = k
  <2> SUFFICES ASSUME NEW j \in 1..Len(d), NEW k \in 1..Len(d), d[j] = d[k], j # k
               PROVE  FALSE
    OBVIOUS
  <2>1. j < k \/ k < j
    BY <1>1
  <2> QED
    BY <1>1, <1>2, <2>1
<1>4. CASE id \in ToSet(d)
  <2>1. c = d /\ Len(d) # 0
    <3>1. DOMAIN d = 1..Len(d)
      BY <1>1
    <3>2. Len(d) # 0
      BY <1>1, <1>4, <3>1 DEF ToSet
    <3> QED
      BY <1>4, <3>2 DEF AddOnce
  <2> HIDE DEF c
  <2> QED
    <3>1. /\ c \in Seq(MessageIds) /\ Len(c) \in Nat \ {0} /\ ToSet(c) = ToSet(ids) \cup {id}
          /\ id \in ToSet(ids)
      BY <1>1, <1>4, <2>1
    <3>2. \A j, k \in 1..Len(c) : c[j] = c[k] => j = k
      BY <1>3, <2>1
    <3>3. \A j, k \in 1..Len(c) : j < k /\ c[k] \in ToSet(ids)
            => c[j] \in ToSet(ids) /\ FirstAt(ids, c[j]) < FirstAt(ids, c[k])
      BY <1>1, <1>2, <2>1
    <3> QED
      BY <3>1, <3>2, <3>3
<1>5. CASE id \notin ToSet(d)
  <2>1. /\ c \in Seq(MessageIds) /\ Len(c) = Len(d) + 1 /\ c[Len(c)] = id
        /\ \A k \in 1..Len(d) : c[k] = d[k]
    BY <1>1, <1>5 DEF AddOnce
  <2> HIDE DEF c
  <2>2. \A k \in 1..Len(c) : k \in 1..Len(d) \/ k = Len(c)
    BY <1>1, <2>1
  <2>3. ToSet(c) = ToSet(ids) \cup {id}
    <3>1. DOMAIN c = 1..Len(c) /\ DOMAIN d = 1..Len(d)
      BY <1>1, <2>1
    <3>2. 1..Len(c) = (1..Len(d)) \cup {Len(c)}
      BY <1>1, <2>1
    <3>3. ToSet(c) = {c[k] : k \in 1..Len(d)} \cup {c[Len(c)]}
      BY <3>1, <3>2 DEF ToSet
    <3>4. {c[k] : k \in 1..Len(d)} = {d[k] : k \in 1..Len(d)}
      BY <2>1
    <3> QED
      BY <1>1, <2>1, <3>1, <3>3, <3>4 DEF ToSet
  <2>4. \A j, k \in 1..Len(c) : c[j] = c[k] => j = k
    <3> SUFFICES ASSUME NEW j \in 1..Len(c), NEW k \in 1..Len(c), c[j] = c[k]
                 PROVE  j = k
      OBVIOUS
    <3>1. CASE j \in 1..Len(d) /\ k \in 1..Len(d)
      BY <1>3, <2>1, <3>1
    <3>2. \A m \in 1..Len(d) : c[m] # id
      BY <1>1, <1>2, <1>5, <2>1
    <3> QED
      BY <2>1, <2>2, <3>1, <3>2
  <2>5. ASSUME NEW j \in 1..Len(c), NEW k \in 1..Len(c), j < k, c[k] \in ToSet(ids)
        PROVE  c[j] \in ToSet(ids) /\ FirstAt(ids, c[j]) < FirstAt(ids, c[k])
    <3>1. k \in 1..Len(d)
      BY <1>1, <1>5, <2>1, <2>2, <2>5
    <3>2. j \in 1..Len(d)
      BY <1>1, <2>5, <3>1
    <3> QED
      BY <1>1, <1>2, <2>1, <2>5, <3>1, <3>2
  <2>6. Len(c) \in Nat \ {0}
    BY <1>1, <2>1
  <2> QED
    BY <2>1, <2>3, <2>4, <2>5, <2>6
<1> QED
  BY <1>4, <1>5

\* The References of a reply are the newest of that chain.
LEMMA Continued ==
  ASSUME NEW ids \in Seq(MessageIds), NEW id \in MessageIds
  PROVE  LET refs == BuildReferencesChain(ids, id)
             Old == ToSet(ids)
         IN /\ Len(refs) \in 1..MaxReferences
            /\ \A j, k \in 1..Len(refs) : refs[j] = refs[k] => j = k
            /\ ToSet(refs) \subseteq Old \cup {id}
            /\ id \notin Old => refs[Len(refs)] = id
            /\ \A j, k \in 1..Len(refs) :
                 j < k /\ refs[k] \in Old => FirstAt(ids, refs[j]) < FirstAt(ids, refs[k])
            /\ \A old \in Old \ ToSet(refs), kept \in Old \cap ToSet(refs) :
                 FirstAt(ids, old) < FirstAt(ids, kept)
<1> DEFINE c == AddOnce(Distinct(ids), id)
           refs == BuildReferencesChain(ids, id)
           over == IF Len(c) <= MaxReferences THEN 0 ELSE Len(c) - MaxReferences
           Old == ToSet(ids)
<1>1. /\ c \in Seq(MessageIds) /\ Len(c) \in Nat \ {0} /\ ToSet(c) = Old \cup {id}
      /\ \A j, k \in 1..Len(c) : c[j] = c[k] => j = k
      /\ id \notin Old => c[Len(c)] = id
      /\ \A j, k \in 1..Len(c) : j < k /\ c[k] \in Old
           => c[j] \in Old /\ FirstAt(ids, c[j]) < FirstAt(ids, c[k])
  BY Chained
<1>2. MaxReferences \in Nat \ {0}
  BY PolicyAssumption
<1>3. refs = IF Len(c) <= MaxReferences THEN c
             ELSE SubSeq(c, Len(c) - MaxReferences + 1, Len(c))
  BY DEF BuildReferencesChain
<1> HIDE DEF c, refs
<1>4. /\ over \in Nat /\ Len(refs) \in 1..MaxReferences /\ refs \in Seq(MessageIds)
      /\ over + Len(refs) = Len(c)
      /\ \A k \in 1..Len(refs) : over + k \in 1..Len(c) /\ refs[k] = c[over + k]
  <2>1. CASE Len(c) <= MaxReferences
    BY <1>1, <1>2, <1>3, <2>1
  <2>2. CASE Len(c) > MaxReferences
    <3>1. refs = SubSeq(c, Len(c) - MaxReferences + 1, Len(c)) /\ over = Len(c) - MaxReferences
      BY <1>1, <1>2, <1>3, <2>2
    <3> HIDE DEF over
    <3>2. over \in Nat /\ over + 1 \in 1..Len(c) /\ MaxReferences = Len(c) - over
      BY <1>1, <1>2, <2>2, <3>1
    <3>3. refs = SubSeq(c, over + 1, Len(c))
      BY <3>1
    <3>4. /\ refs \in Seq(MessageIds) /\ Len(refs) = Len(c) - over
          /\ \A k \in 1..(Len(c) - over) : refs[k] = c[over + k]
      BY <1>1, <3>2, <3>3
    <3> QED
      BY <1>1, <1>2, <3>2, <3>4
  <2> QED
    BY <1>1, <1>2, <2>1, <2>2
<1> HIDE DEF over
<1>5. ToSet(refs) = {refs[k] : k \in 1..Len(refs)} /\ ToSet(c) = {c[k] : k \in 1..Len(c)}
  <2>1. DOMAIN refs = 1..Len(refs) /\ DOMAIN c = 1..Len(c)
    BY <1>1, <1>4
  <2> QED
    BY <2>1 DEF ToSet
<1>6. \A j, k \in 1..Len(refs) : refs[j] = refs[k] => j = k
  <2> SUFFICES ASSUME NEW j \in 1..Len(refs), NEW k \in 1..Len(refs), refs[j] = refs[k]
               PROVE  j = k
    OBVIOUS
  <2>1. over + j = over + k
    BY <1>1, <1>4
  <2> QED
    BY <1>4, <2>1
<1>7. ToSet(refs) \subseteq Old \cup {id}
  BY <1>1, <1>4, <1>5
<1>8. id \notin Old => refs[Len(refs)] = id
  <2>1. Len(refs) \in 1..Len(refs)
    BY <1>2, <1>4
  <2> QED
    BY <1>1, <1>4, <2>1
<1>9. ASSUME NEW j \in 1..Len(refs), NEW k \in 1..Len(refs), j < k, refs[k] \in Old
      PROVE  FirstAt(ids, refs[j]) < FirstAt(ids, refs[k])
  <2>1. over + j < over + k
    BY <1>4, <1>9
  <2> QED
    BY <1>1, <1>4, <1>9, <2>1
<1>10. ASSUME NEW old \in Old \ ToSet(refs), NEW kept \in Old \cap ToSet(refs)
       PROVE  FirstAt(ids, old) < FirstAt(ids, kept)
  <2>1. PICK p \in 1..Len(c) : old = c[p]
    BY <1>1, <1>5
  <2>2. PICK q \in 1..Len(refs) : kept = refs[q]
    BY <1>5
  <2>3. p <= over
    <3> SUFFICES ASSUME p > over PROVE FALSE
      BY <1>4
    <3>1. p - over \in 1..Len(refs) /\ over + (p - over) = p
      BY <1>1, <1>4
    <3>2. refs[p - over] = old
      BY <1>4, <2>1, <3>1
    <3> QED
      BY <1>5, <3>1, <3>2
  <2>4. over + q \in 1..Len(c) /\ c[over + q] = kept /\ p < over + q
    BY <1>4, <2>2, <2>3
  <2> QED
    BY <1>1, <2>1, <2>4
<1> QED
  BY <1>4, <1>6, <1>7, <1>8, <1>9, <1>10 DEF refs

LEMMA ChainOfSource == ASSUME NEW m \in SourceMessages PROVE SourceChain(m) \in Seq(MessageIds)
<1>1. CASE UsableReferences(m) /\ ToSet(FirstHeader(m, "references").ids) \subseteq WellFormedIds
  <2> DEFINE S == HeadersNamed(m, "references")
  <2>1. m.headers \in Seq(Headers)
    BY DEF SourceMessages
  <2>2. S \in SUBSET Nat /\ S \subseteq DOMAIN m.headers /\ S # {}
    BY <1>1, <2>1 DEF HeadersNamed, UsableReferences, HasHeader
  <2> HIDE DEF S
  <2>3. \E k \in S : \A j \in S : k <= j
    BY <2>2, Least
  <2>4. Min(S) \in S
    BY <2>3 DEF Min
  <2>5. FirstHeader(m, "references") \in Headers
    BY <2>1, <2>2, <2>4 DEF FirstHeader, S
  <2> QED
    BY <1>1, <2>5 DEF SourceChain, Headers
<1>2. CASE ~(UsableReferences(m) /\ ToSet(FirstHeader(m, "references").ids) \subseteq WellFormedIds)
  BY <1>2 DEF SourceChain
<1> QED
  BY <1>1, <1>2

\* A reply continues the thread of its source, whatever is left of the chain
\* within the bound (buildReferencesChain, buildReplyIntent).
THEOREM ThreadContinuesHolds == Spec => []ThreadContinues
<1>1. ASSUME Inv, MessageInv PROVE ThreadContinues
  <2> SUFFICES ASSUME NEW n \in Replied
               PROVE  LET m == BuildMessage(wire[n].message)
                          src == SourceOf(n)
                          chain == SourceChain(src)
                          refs == m.references
                          Old == ToSet(chain)
                      IN IF src.messageId \notin WellFormedIds
                         THEN m.inReplyTo = NoMessageId /\ refs = << >>
                         ELSE /\ m.inReplyTo = src.messageId
                              /\ Len(refs) \in 1..MaxReferences
                              /\ \A j, k \in 1..Len(refs) : refs[j] = refs[k] => j = k
                              /\ ToSet(refs) \subseteq Old \cup {src.messageId}
                              /\ src.messageId \notin Old => refs[Len(refs)] = src.messageId
                              /\ \A j, k \in 1..Len(refs) :
                                   j < k /\ refs[k] \in Old
                                     => FirstAt(chain, refs[j]) < FirstAt(chain, refs[k])
                              /\ \A old \in Old \ ToSet(refs), kept \in Old \cap ToSet(refs) :
                                   FirstAt(chain, old) < FirstAt(chain, kept)
    BY DEF ThreadContinues
  <2> DEFINE src == SourceOf(n)
             refs == BuildMessage(wire[n].message).references
  <2>1. n \in 1..Len(wire) /\ wire[n].message.kind = "reply"
    BY DEF Replied
  <2>2. src \in SourceMessages
    BY <1>1, <2>1, WireSource, ContentAssumption DEF SourceOf
  <2>3. SourceChain(src) \in Seq(MessageIds)
    BY <2>2, ChainOfSource
  <2>4. BuildMessage(wire[n].message).inReplyTo = DeriveThreading(src).inReplyTo
    BY <2>1 DEF BuildMessage, BuildReplyMessage, SourceOf
  <2>5. refs = DeriveThreading(src).references
    BY <2>1 DEF BuildMessage, BuildReplyMessage, SourceOf
  <2>6. CASE src.messageId \notin WellFormedIds
    BY <2>4, <2>5, <2>6 DEF DeriveThreading, Threaded
  <2>7. CASE src.messageId \in WellFormedIds
    <3>1. /\ BuildMessage(wire[n].message).inReplyTo = src.messageId
          /\ refs = BuildReferencesChain(SourceChain(src), src.messageId)
      BY <2>4, <2>5, <2>7 DEF DeriveThreading, Threaded
    <3>2. src.messageId \in MessageIds
      BY <2>7, PolicyAssumption
    <3> HIDE DEF src, refs
    <3>3. /\ Len(refs) \in 1..MaxReferences
          /\ \A j, k \in 1..Len(refs) : refs[j] = refs[k] => j = k
          /\ ToSet(refs) \subseteq ToSet(SourceChain(src)) \cup {src.messageId}
          /\ src.messageId \notin ToSet(SourceChain(src)) => refs[Len(refs)] = src.messageId
          /\ \A j, k \in 1..Len(refs) :
               j < k /\ refs[k] \in ToSet(SourceChain(src))
                 => FirstAt(SourceChain(src), refs[j]) < FirstAt(SourceChain(src), refs[k])
          /\ \A old \in ToSet(SourceChain(src)) \ ToSet(refs),
                kept \in ToSet(SourceChain(src)) \cap ToSet(refs) :
               FirstAt(SourceChain(src), old) < FirstAt(SourceChain(src), kept)
      BY <2>3, <3>1, <3>2, Continued
    <3> QED
      BY <2>7, <3>1, <3>3 DEF src, refs
  <2> QED
    BY <2>6, <2>7
<1> QED
  BY <1>1, Invariance, MessageInvariance, PTL
=============================================================================

--------------------------- MODULE OutboundProofs ---------------------------
(***************************************************************************)
(* Proofs about Outbound, for any number of processes, calls and receipts, *)
(* any lifetimes, and any clock that satisfies ClockAssumption.            *)
(***************************************************************************)
EXTENDS Outbound, TLAPS

-----------------------------------------------------------------------------
(* Types. *)

LEMMA NoRequestType == NoRequest \in Requests
BY OutboundAssumption DEF NoRequest, Requests, AllKinds

LEMMA IntentType ==
  ASSUME NEW kind \in AllKinds, NEW p \in Payloads, NEW src \in Sources
  PROVE  IntentOf(kind, p, src) \in Intents
BY OutboundAssumption DEF IntentOf, Intents, Sources

LEMMA SeqElement == ASSUME NEW S, NEW s \in Seq(S) PROVE \A n \in 1..Len(s) : s[n] \in S
OBVIOUS

LEMMA ClassifyTypes ==
  /\ \A a, r \in BOOLEAN : ClassifySuccess(a, r) \in Results
  /\ \A code, command : ClassifyError(code, command) \in Results
  /\ \A v : AfterAnswer(v) \in Results
  /\ \A command : AfterLoss(command) \in Results
<1>1. \A a, r \in BOOLEAN : ClassifySuccess(a, r) \in Results
  BY DEF ClassifySuccess, Answer, Results, Outcomes
<1>2. \A code, command : ClassifyError(code, command) \in Results
  BY DEF ClassifyError, Answer, InSubmission, Results, Outcomes
<1> QED
  BY <1>1, <1>2 DEF AfterAnswer, AfterLoss

LEMMA ResetType ==
  ASSUME TypeOK, NEW cs, Reset(cs)
  PROVE  /\ pc' \in [Calls -> Stages] /\ req' \in [Calls -> Requests]
         /\ seen' \in [Calls -> [src : Sources, secret : BOOLEAN]]
         /\ now' \in [Calls -> Nat] /\ pending' \in [Calls -> SUBSET Ids]
         /\ victim' \in [Calls -> Ids \cup {NoReceipt}]
         /\ server' \in [Calls -> Verdicts] /\ result' \in [Calls -> Results]
BY NoRequestType
   DEF Reset, TypeOK, Stages, OnThread, Submitting, NotFetched, Sources, Verdicts, NoResult,
       Results, Outcomes

LEMMA TypeInit == Init => TypeOK
BY OutboundAssumption, NoRequestType
   DEF Init, TypeOK, Stages, OnThread, Submitting, NotFetched, Sources, Verdicts,
       NoResult, Results, Outcomes, MarkerStates

LEMMA TypeStep ==
  ASSUME TypeOK, KeyInv, [Next]_vars
  PROVE  TypeOK'
<1> USE DEF TypeOK
<1>1. CASE UNCHANGED vars
  BY <1>1 DEF vars
<1>2. CASE Preview
  <2>1. PICK i \in Ids, p \in Payloads :
          PreviewSend(i, p) \/ PreviewReply(i, p) \/ PreviewForward(i, p)
    BY <1>2 DEF Preview
  <2>2. PICK kind \in AllKinds, src \in Sources : Issue(i, kind, IntentOf(kind, p, src))
    BY <2>1 DEF PreviewSend, PreviewReply, PreviewForward, AllKinds, Sources
  <2>3. [kind |-> kind, intent |-> IntentOf(kind, p, src), issuedAt |-> clock] \in Receipts
    BY IntentType DEF Receipts
  <2> QED
    BY <2>2, <2>3 DEF Issue
<1>3. CASE World
  <2>1. CASE Tick
    BY <2>1 DEF Tick
  <2>2. ASSUME NEW t \in 0..MaxTime, StepBack(t) PROVE TypeOK'
    BY <2>2, OutboundAssumption DEF StepBack
  <2>3. ASSUME NEW v \in Sources, ChangeSource(v) PROVE TypeOK'
    BY <2>3 DEF ChangeSource
  <2>4. ASSUME NEW p \in Procs, Crash(p) PROVE TypeOK'
    BY <2>4, ResetType DEF Crash
  <2>5. ASSUME NEW kept \in SUBSET Ids, PowerLoss(kept) PROVE TypeOK'
    <3>1. marker' \in [Ids -> MarkerStates] /\ disk' \in [Ids -> MarkerStates]
      BY <2>5 DEF PowerLoss
    <3> QED
      BY <2>5, <3>1, ResetType DEF PowerLoss
  <2> QED
    BY <1>3, <2>1, <2>2, <2>3, <2>4, <2>5 DEF World
<1>4. ASSUME NEW c \in Calls, CallStep(c) PROVE TypeOK'
  <2> USE DEF Goto, Finish, Stages, OnThread, Submitting
  <2>0. \A outcome \in Outcomes, b \in BOOLEAN : Answer(outcome, b) \in Results
    BY DEF Answer, Results
  <2>1. ASSUME NEW q \in Inputs, Start(c, q) PROVE TypeOK'
    BY <2>1, InputAssumption DEF Start
  <2>2. ASSUME NEW secret \in BOOLEAN, Fetch(c, secret) PROVE TypeOK'
    BY <2>2 DEF Fetch, Sources
  <2>3. CASE FetchFails(c) \/ ExpiryInvalid(c) \/ AlreadyUsed(c)
    <3>1. Answer("thrown", FALSE) \in Results /\ Answer("rejected", FALSE) \in Results
      BY <2>0 DEF Outcomes
    <3>2. CASE FetchFails(c)
      BY <3>1, <3>2 DEF FetchFails
    <3>3. CASE ExpiryInvalid(c)
      BY <3>1, <3>3 DEF ExpiryInvalid
    <3>4. CASE AlreadyUsed(c)
      BY <3>1, <3>4 DEF AlreadyUsed
    <3> QED
      BY <2>3, <3>2, <3>3, <3>4
  <2>16. CASE Decline(c)
    <3>1. PICK outcome \in {"thrown", "dryRun", "rejected"} : Finish(c, Answer(outcome, FALSE))
      BY <2>16 DEF Decline
    <3>2. Answer(outcome, FALSE) \in Results
      BY <2>0 DEF Outcomes
    <3> HIDE DEF Outcomes
    <3> QED
      BY <2>16, <3>1, <3>2 DEF Decline
  <2>17. CASE Authorize(c)
    BY <2>17 DEF Authorize
  <2>4. CASE ReadClock(c)
    BY <2>4 DEF ReadClock
  <2>5. CASE OpenMarker(c) \/ WriteMarker(c)
    BY <2>5 DEF OpenMarker, WriteMarker, MarkerStates
  <2>6. CASE SyncDir(c)
    <3>1. disk' \in [Ids -> MarkerStates]
      BY <2>6 DEF SyncDir, MarkerStates
    <3>2. pending' \in [Calls -> SUBSET Ids]
      BY <2>6 DEF SyncDir
    <3> QED
      BY <2>6, <3>1, <3>2 DEF SyncDir
  <2>7. CASE GuardFails(c)
    BY <2>7, <2>0 DEF GuardFails, Outcomes, MarkerStates
  <2>8. CASE Unlink(c) \/ Consumed(c)
    BY <2>8 DEF Unlink, Consumed, MarkerStates
  <2>9. ASSUME NEW i \in Ids, Inspect(c, i) PROVE TypeOK'
    BY <2>9 DEF Inspect
  <2>10. CASE GetPassword(c) \/ CreateTransport(c)
    BY <2>10, <2>0 DEF GetPassword, CreateTransport, Outcomes
  <2>11. ASSUME NEW code, NEW command, SessionFails(c, code, command) PROVE TypeOK'
    BY <2>11, ClassifyTypes DEF SessionFails
  <2>12. ASSUME NEW verdict \in Verdicts, HandOver(c, verdict) PROVE TypeOK'
    <3>1. Key(c) \in Ids
      BY <2>12 DEF HandOver, KeyInv, Spending, Authorized
    <3>2. IntentOf(req[c].kind, req[c].payload, seen[c].src) \in Intents
      BY IntentType DEF Requests
    <3>3. wire' \in Seq([id : Ids, message : Messages])
      BY <2>12, <3>1, <3>2 DEF HandOver, Messages, Requests
    <3> QED
      BY <2>12, <3>3 DEF HandOver
  <2>13. CASE Answered(c)
    BY <2>13, ClassifyTypes DEF Answered
  <2>14. ASSUME NEW command, AnswerLost(c, command) PROVE TypeOK'
    BY <2>14, ClassifyTypes DEF AnswerLost
  <2>15. CASE Return(c)
    BY <2>15, ResetType DEF Return
  <2> QED
    BY <1>4, <2>1, <2>2, <2>3, <2>4, <2>5, <2>6, <2>7, <2>8, <2>9, <2>10, <2>11, <2>12,
       <2>13, <2>14, <2>15, <2>16, <2>17 DEF CallStep, Synchronous, Submission
<1> QED
  BY <1>1, <1>2, <1>3, <1>4 DEF Next
-----------------------------------------------------------------------------
(***************************************************************************)
(* Steps that bring no call nearer to its marker: each call stays as it    *)
(* is, leaves the consumption, or moves on within it without having handed *)
(* its message over.                                                       *)
(***************************************************************************)
SameArguments(d) == /\ req'[d] = req[d] /\ seen'[d] = seen[d] /\ now'[d] = now[d]

Stays(d) == SameArguments(d) /\ pc'[d] = pc[d]

Leaves(d) == /\ pc'[d] \notin Spending
             /\ now'[d] \in {now[d], 0}
             /\ req'[d].receipt # NoReceipt => issued[req'[d].receipt] # NoReceipt

Advances(d) == /\ SameArguments(d)
               /\ pc[d] \in Holding \ {"awaiting"} /\ pc'[d] \in Holding \ {"awaiting"}

CallParts == /\ ClockInv /\ KeyInv /\ OpenInv /\ NowInv /\ HolderInv /\ UnsentInv /\ WireInv
             /\ AtMostOnce

LEMMA CallFrame ==
  ASSUME Inv, TypeOK', UNCHANGED <<clock, latest, issued, wire>>,
         \A d \in Calls : Stays(d) \/ Leaves(d) \/ Advances(d)
  PROVE  /\ CallParts'
         /\ \A i \in Ids : Untouched(i) => Untouched(i)'
         /\ \A i \in Ids : Retired(i)' = Retired(i) /\ Sent(i)' = Sent(i)
<1> USE DEF Inv
<1>1. \A d \in Calls : pc'[d] \in Spending =>
        /\ pc[d] \in Spending /\ Key(d)' = Key(d) /\ SameArguments(d)
  BY DEF Stays, Leaves, Advances, SameArguments, Key, Spending, Holding, OnThread, Submitting
<1>2. \A d \in Calls : pc'[d] \in Holding => pc[d] \in Holding /\ Key(d)' = Key(d)
  BY DEF Stays, Leaves, Advances, SameArguments, Key, Spending, Holding, OnThread, Submitting
<1>3. \A d \in Calls : pc'[d] \in Holding /\ pc'[d] # "awaiting" => pc[d] # "awaiting"
  BY DEF Stays, Leaves, Advances, SameArguments, Key, Spending, Holding, OnThread, Submitting
<1>4. \A d \in Calls : pc'[d] = "opening" => pc[d] = "opening"
  BY DEF Stays, Leaves, Advances, Spending, Holding, OnThread, Submitting
<1>5. \A i : Sent(i)' = Sent(i)
  BY DEF Sent
<1>6. ClockInv'
  BY DEF ClockInv
<1>7. KeyInv'
  <2>1. \A d \in Calls : Key(d)' # NoReceipt => issued'[Key(d)'] # NoReceipt
    BY DEF KeyInv, Key, Stays, Leaves, Advances, SameArguments
  <2>2. \A d \in Calls : pc'[d] \in Spending => Authorized(d)'
    BY <1>1 DEF KeyInv, Authorized, Key, SameArguments, IntentOf
  <2> QED
    BY <2>1, <2>2 DEF KeyInv
<1>8. OpenInv'
  <2> SUFFICES ASSUME NEW d \in Calls, pc'[d] = "opening"
               PROVE  now'[d] < ExpiresAt(Key(d))' /\ latest' <= now'[d] + Margin
    BY DEF OpenInv
  <2>1. pc[d] = "opening" /\ Key(d)' = Key(d) /\ now'[d] = now[d]
    BY <1>1, <1>4 DEF SameArguments, Spending, OnThread
  <2> QED
    BY <2>1 DEF OpenInv, ExpiresAt
<1>9. NowInv'
  <2>1. latest \in Nat
    BY DEF TypeOK
  <2>2. \A d \in Calls : now'[d] \in {now[d], 0}
    BY DEF Stays, Leaves, Advances, SameArguments
  <2> QED
    BY <2>1, <2>2 DEF NowInv
<1>10. HolderInv'
  BY <1>2 DEF HolderInv
<1>11. UnsentInv'
  BY <1>2, <1>3, <1>5 DEF UnsentInv
<1>12. WireInv' /\ AtMostOnce'
  BY DEF WireInv, AtMostOnce
<1>13. \A i \in Ids : Untouched(i) => Untouched(i)'
  BY <1>2, <1>5 DEF Untouched
<1> QED
  BY <1>5, <1>6, <1>7, <1>8, <1>9, <1>10, <1>11, <1>12, <1>13 DEF CallParts, Retired, ExpiresAt

(***************************************************************************)
(* Of these, the steps that leave the replay directory alone.              *)
(***************************************************************************)
LEMMA QuietStep ==
  ASSUME Inv, TypeOK', UNCHANGED <<clock, latest, issued, wire, marker, disk>>,
         \A d \in Calls : Stays(d) \/ Leaves(d) \/ Advances(d),
         \A d \in Calls : pc'[d] \in Durable => pc[d] \in Durable,
         \A d \in Calls : victim'[d] \in {victim[d], NoReceipt}
  PROVE  Inv'
<1>1. /\ CallParts' /\ \A i \in Ids : Untouched(i) => Untouched(i)'
      /\ \A i \in Ids : Retired(i)' = Retired(i) /\ Sent(i)' = Sent(i)
  BY CallFrame
<1>2. VictimInv'
  <2> SUFFICES ASSUME NEW d \in Calls, victim'[d] \in Ids PROVE Retired(victim[d])'
    BY DEF VictimInv
  <2>1. victim'[d] = victim[d]
    BY OutboundAssumption
  <2> QED
    BY <1>1, <2>1 DEF Inv, VictimInv
<1>3. IssuedInv'
  BY DEF Inv, IssuedInv
<1>4. MarkerInv'
  BY <1>1 DEF Inv, MarkerInv
<1>5. DiskInv'
  <2>1. \A d \in Calls : pc'[d] \in Durable => Key(d)' = Key(d)
    BY DEF Stays, Leaves, Advances, SameArguments, Key, Spending, Durable, OnThread
  <2> QED
    BY <1>1, <2>1 DEF Inv, DiskInv
<1> QED
  BY <1>1, <1>2, <1>3, <1>4, <1>5 DEF Inv, CallParts
-----------------------------------------------------------------------------
(***************************************************************************)
(* Steps on the replay directory.                                          *)
(***************************************************************************)
LEMMA WriteStep ==
  ASSUME Inv, TypeOK', NEW c \in Calls, WriteMarker(c)
  PROVE  Inv'
<1>1. /\ CallParts' /\ \A i \in Ids : Untouched(i) => Untouched(i)'
      /\ \A i \in Ids : Retired(i)' = Retired(i) /\ Sent(i)' = Sent(i)
  <2>1. \A d \in Calls : Stays(d) \/ Advances(d)
    BY DEF WriteMarker, Goto, Stays, Advances, SameArguments, Holding, Submitting, Inv, TypeOK
  <2> QED
    BY <2>1, CallFrame DEF WriteMarker
<1>2. Key(c) \in Ids /\ issued[Key(c)] # NoReceipt
  BY DEF WriteMarker, Inv, KeyInv, Spending, OnThread, Authorized
<1>3. VictimInv'
  BY <1>1 DEF WriteMarker, Inv, VictimInv
<1>4. IssuedInv'
  BY <1>2 DEF WriteMarker, Inv, IssuedInv, TypeOK
<1>5. MarkerInv'
  BY <1>1 DEF WriteMarker, Inv, MarkerInv, TypeOK
<1>6. DiskInv'
  <2>1. \A i \in Ids : disk'[i] = "absent" => disk[i] = "absent"
    BY DEF WriteMarker, Inv, TypeOK
  <2>2. \A d \in Calls : pc'[d] \in Durable => pc[d] \in Durable /\ Key(d)' = Key(d)
    BY DEF WriteMarker, Goto, Durable, Submitting, Key, Inv, TypeOK
  <2> QED
    BY <1>1, <2>1, <2>2 DEF Inv, DiskInv
<1> QED
  BY <1>1, <1>3, <1>4, <1>5, <1>6 DEF Inv, CallParts

LEMMA SyncStep ==
  ASSUME Inv, TypeOK', NEW c \in Calls, SyncDir(c)
  PROVE  Inv'
<1>1. /\ CallParts' /\ \A i \in Ids : Untouched(i) => Untouched(i)'
      /\ \A i \in Ids : Retired(i)' = Retired(i) /\ Sent(i)' = Sent(i)
  <2>1. \A d \in Calls : Stays(d) \/ Advances(d)
    BY DEF SyncDir, Goto, Stays, Advances, SameArguments, Holding, Submitting, Inv, TypeOK
  <2> QED
    BY <2>1, CallFrame DEF SyncDir
<1>2. \A i \in Ids : disk'[i] = "absent" <=> marker[i] = "absent"
  BY DEF SyncDir, Inv, TypeOK
<1>3. VictimInv'
  BY <1>1 DEF SyncDir, Inv, VictimInv
<1>4. IssuedInv'
  BY <1>2 DEF SyncDir, Inv, IssuedInv
<1>5. MarkerInv'
  BY <1>1 DEF SyncDir, Inv, MarkerInv
<1>6. DiskInv'
  <2>1. \A d \in Calls : pc'[d] \in Durable => pc'[d] \in Holding
    BY DEF Durable, Holding
  <2> QED
    BY <1>1, <1>2, <1>5, <2>1 DEF SyncDir, MarkerInv, Untouched, DiskInv
<1> QED
  BY <1>1, <1>3, <1>4, <1>5, <1>6 DEF Inv, CallParts

LEMMA GuardFailsStep ==
  ASSUME Inv, TypeOK', NEW c \in Calls, GuardFails(c)
  PROVE  Inv'
<1>1. \A d \in Calls : Stays(d) \/ Leaves(d)
  BY DEF GuardFails, Finish, Goto, Stays, Leaves, SameArguments, Spending, OnThread, Submitting,
         Inv, TypeOK, KeyInv, Key
<1>2. \A d \in Calls : pc'[d] \in Durable => pc[d] \in Durable
  BY DEF GuardFails, Finish, Goto, Durable, Submitting, Inv, TypeOK
<1>3. CASE UNCHANGED marker
  BY <1>1, <1>2, <1>3, QuietStep DEF GuardFails
<1>4. CASE pc[c] = "writing" /\ marker' = [marker EXCEPT ![Key(c)] = "complete"]
  <2>1. /\ CallParts' /\ \A i \in Ids : Untouched(i) => Untouched(i)'
        /\ \A i \in Ids : Retired(i)' = Retired(i) /\ Sent(i)' = Sent(i)
    BY <1>1, CallFrame DEF GuardFails
  <2>2. Key(c) \in Ids /\ issued[Key(c)] # NoReceipt
    BY <1>4 DEF Inv, KeyInv, Spending, OnThread, Authorized
  <2>3. VictimInv'
    BY <2>1 DEF GuardFails, Inv, VictimInv
  <2>4. IssuedInv'
    BY <1>4, <2>2 DEF GuardFails, Inv, IssuedInv, TypeOK
  <2>5. MarkerInv'
    BY <1>4, <2>1 DEF Inv, MarkerInv, TypeOK
  <2>6. DiskInv'
    BY <1>2, <2>1 DEF GuardFails, Key, Inv, DiskInv
  <2> QED
    BY <2>1, <2>3, <2>4, <2>5, <2>6 DEF Inv, CallParts
<1> QED
  BY <1>3, <1>4 DEF GuardFails

LEMMA InspectStep ==
  ASSUME Inv, TypeOK', NEW c \in Calls, NEW i \in Ids, Inspect(c, i)
  PROVE  Inv'
<1>1. /\ CallParts' /\ \A j \in Ids : Untouched(j) => Untouched(j)'
      /\ \A j \in Ids : Retired(j)' = Retired(j) /\ Sent(j)' = Sent(j)
  <2>1. \A d \in Calls : Stays(d)
    BY DEF Inspect, Stays, SameArguments
  <2> QED
    BY <2>1, CallFrame DEF Inspect
<1>2. VictimInv'
  <2>1. ASSUME Removable(i, now[c]) PROVE Retired(i)
    <3>1. issued[i] # NoReceipt /\ issued[i] \in Receipts
      BY <2>1 DEF Removable, Inv, IssuedInv, TypeOK
    <3>2. now[c] <= latest /\ now[c] \in Nat /\ latest \in Nat /\ ExpiresAt(i) + Margin \in Nat
      BY <3>1, OutboundAssumption DEF Inv, NowInv, TypeOK, ExpiresAt, Receipts
    <3>3. ExpiresAt(i) + Margin <= now[c]
      BY <2>1 DEF Removable
    <3>4. ExpiresAt(i) + Margin <= latest
      BY <3>2, <3>3
    <3> QED
      BY <3>1, <3>4 DEF Retired
  <2>2. \A d \in Calls : victim'[d] \in Ids => Retired(victim'[d])
    BY <2>1, OutboundAssumption DEF Inspect, Inv, VictimInv, TypeOK
  <2> QED
    BY <1>1, <2>2 DEF VictimInv, Retired, ExpiresAt, Inspect
<1>3. IssuedInv' /\ MarkerInv' /\ DiskInv'
  BY <1>1 DEF Inspect, Inv, IssuedInv, MarkerInv, DiskInv, Key
<1> QED
  BY <1>1, <1>2, <1>3 DEF Inv, CallParts

LEMMA UnlinkStep ==
  ASSUME Inv, TypeOK', NEW c \in Calls, Unlink(c)
  PROVE  Inv'
<1>1. /\ CallParts' /\ \A i \in Ids : Untouched(i) => Untouched(i)'
      /\ \A i \in Ids : Retired(i)' = Retired(i) /\ Sent(i)' = Sent(i)
  <2>1. \A d \in Calls : Stays(d)
    BY DEF Unlink, Stays, SameArguments
  <2> QED
    BY <2>1, CallFrame DEF Unlink
<1>2. Retired(victim[c])
  BY DEF Unlink, Inv, VictimInv, TypeOK
<1>3. VictimInv'
  BY <1>1, OutboundAssumption DEF Unlink, Inv, VictimInv, TypeOK, Retired, ExpiresAt
<1>4. IssuedInv'
  BY DEF Unlink, Inv, IssuedInv, TypeOK
<1>5. MarkerInv'
  BY <1>1, <1>2 DEF Unlink, Inv, MarkerInv, TypeOK
<1>6. DiskInv'
  BY <1>1 DEF Unlink, Inv, DiskInv, Key
<1> QED
  BY <1>1, <1>3, <1>4, <1>5, <1>6 DEF Inv, CallParts

LEMMA PowerLossStep ==
  ASSUME Inv, TypeOK', NEW kept \in SUBSET Ids, PowerLoss(kept)
  PROVE  Inv'
<1>1. \A d \in Calls : pc'[d] = "idle" /\ victim'[d] = NoReceipt
  BY DEF PowerLoss, Reset
<1>2. /\ CallParts'
      /\ \A i \in Ids : Retired(i)' = Retired(i) /\ Sent(i)' = Sent(i)
  <2>1. \A d \in Calls : Leaves(d)
    BY DEF PowerLoss, Reset, Leaves, Spending, OnThread, Submitting, NoRequest
  <2> QED
    BY <2>1, CallFrame DEF PowerLoss
<1>3. \A i \in Ids : /\ marker'[i] \in {marker[i], disk[i]}
                     /\ disk'[i] = marker'[i]
  BY DEF PowerLoss
<1>4. VictimInv'
  BY <1>1, OutboundAssumption DEF VictimInv
<1>5. IssuedInv'
  BY <1>3 DEF PowerLoss, Inv, IssuedInv
<1>6. \A i \in Ids : marker'[i] = "absent" => Retired(i) \/ ~Sent(i)
  BY <1>3 DEF Inv, MarkerInv, DiskInv, Untouched
<1>7. \A d \in Calls : pc'[d] \notin Holding /\ pc'[d] \notin Durable
  BY <1>1 DEF Holding, Durable, Submitting
<1>8. MarkerInv' /\ DiskInv'
  BY <1>2, <1>3, <1>6, <1>7 DEF MarkerInv, DiskInv, Untouched
<1> QED
  BY <1>2, <1>4, <1>5, <1>8 DEF Inv, CallParts
-----------------------------------------------------------------------------
(***************************************************************************)
(* Previews and the clock.                                                 *)
(***************************************************************************)
LEMMA IssueStep ==
  ASSUME Inv, TypeOK', NEW i \in Ids, NEW kind, NEW intent, Issue(i, kind, intent)
  PROVE  Inv'
<1>1. /\ \A j \in Ids : issued[j] # NoReceipt => issued'[j] = issued[j]
      /\ \A j : Sent(j)' = Sent(j)
      /\ UNCHANGED <<clock, latest, marker, disk, wire, pc, req, seen, now, victim>>
  BY DEF Issue, Inv, TypeOK, Sent
<1>2. \A j \in Ids : Retired(j) => Retired(j)'
  BY <1>1 DEF Retired, ExpiresAt
<1>3. \A d \in Calls : pc[d] \in Spending => Key(d) \in Ids /\ issued[Key(d)] # NoReceipt
  BY DEF Inv, KeyInv, Authorized
<1>4. ClockInv' /\ NowInv'
  BY <1>1 DEF Inv, ClockInv, NowInv
<1>5. KeyInv'
  <2>1. \A d \in Calls : Key(d) # NoReceipt => Key(d) \in Ids /\ issued'[Key(d)] = issued[Key(d)]
    BY <1>1 DEF Inv, KeyInv, TypeOK, Requests, Key
  <2>2. \A d \in Calls : pc[d] \in Spending => Authorized(d)'
    BY <1>1, <1>3 DEF Inv, KeyInv, Authorized, Key, IntentOf
  <2> QED
    BY <1>1, <2>1, <2>2 DEF Inv, KeyInv, Key
<1>6. OpenInv'
  <2> SUFFICES ASSUME NEW d \in Calls, pc[d] = "opening"
               PROVE  now[d] < ExpiresAt(Key(d))' /\ latest <= now[d] + Margin
    BY <1>1 DEF OpenInv
  <2>1. issued'[Key(d)] = issued[Key(d)] /\ Key(d)' = Key(d)
    BY <1>1, <1>3 DEF Spending, OnThread, Key
  <2> QED
    BY <2>1 DEF Inv, OpenInv, ExpiresAt
<1>7. VictimInv'
  <2> SUFFICES ASSUME NEW d \in Calls, victim[d] \in Ids PROVE Retired(victim[d])'
    BY <1>1 DEF VictimInv
  <2>1. Retired(victim[d])
    BY DEF Inv, VictimInv
  <2> QED
    BY <1>1, <2>1 DEF Retired, ExpiresAt
<1>8. IssuedInv'
  BY <1>1 DEF Inv, IssuedInv
<1>9. MarkerInv' /\ DiskInv'
  <2>1. \A d \in Calls : Key(d)' = Key(d)
    BY <1>1 DEF Key
  <2>2. MarkerInv'
    BY <1>1, <1>2, <2>1 DEF Inv, MarkerInv, Untouched
  <2>3. DiskInv'
    BY <1>1, <1>2, <2>1 DEF Inv, DiskInv
  <2> QED
    BY <2>2, <2>3
<1>10. HolderInv' /\ UnsentInv' /\ AtMostOnce'
  BY <1>1 DEF Inv, HolderInv, UnsentInv, AtMostOnce, Key
<1>11. WireInv'
  <2>1. \A n \in 1..Len(wire) : wire[n].id \in Ids
    <3>1. wire \in Seq([id : Ids, message : Messages])
      BY DEF Inv, TypeOK
    <3>2. \A n \in 1..Len(wire) : wire[n] \in [id : Ids, message : Messages]
      BY <3>1, SeqElement
    <3> QED
      BY <3>2
  <2> QED
    BY <1>1, <2>1 DEF Inv, WireInv
<1> QED
  BY <1>4, <1>5, <1>6, <1>7, <1>8, <1>9, <1>10, <1>11 DEF Inv

LEMMA TimeStep ==
  ASSUME Inv, TypeOK', Tick \/ \E t \in 0..MaxTime : StepBack(t)
  PROVE  Inv'
<1> USE OutboundAssumption, ClockAssumption
<1>1. UNCHANGED <<source, issued, marker, disk, wire, pc, req, seen, now, pending, victim>>
  BY DEF Tick, StepBack
<1>2. clock \in Nat /\ latest \in Nat /\ clock' \in Nat /\ latest' \in Nat
  BY DEF Inv, TypeOK
<1>3. latest <= latest'
  BY <1>2 DEF Tick, StepBack
<1>4. ClockInv'
  BY <1>2 DEF Inv, ClockInv, Tick, StepBack
<1>5. \A i \in Ids : Retired(i) => Retired(i)'
  <2> SUFFICES ASSUME NEW i \in Ids, Retired(i) PROVE Retired(i)'
    OBVIOUS
  <2>1. issued[i] \in Receipts
    BY DEF Inv, TypeOK, Retired
  <2>2. ExpiresAt(i) + Margin \in Nat
    BY <2>1 DEF ExpiresAt, Receipts
  <2>3. ExpiresAt(i)' = ExpiresAt(i) /\ issued' = issued
    BY <1>1 DEF ExpiresAt
  <2> QED
    BY <1>2, <1>3, <2>2, <2>3 DEF Retired
<1>6. \A i : Sent(i)' = Sent(i)
  BY <1>1 DEF Sent
<1>7. KeyInv'
  BY <1>1 DEF Inv, KeyInv, Authorized, Key, IntentOf
<1>8. OpenInv'
  <2> SUFFICES ASSUME NEW d \in Calls, pc[d] = "opening"
               PROVE  now[d] < ExpiresAt(Key(d))' /\ latest' <= now[d] + Margin
    BY <1>1 DEF OpenInv
  <2>1. now[d] < ExpiresAt(Key(d)) /\ latest <= now[d] + Margin /\ now[d] \in Nat
    BY DEF Inv, OpenInv, TypeOK
  <2>2. ExpiresAt(Key(d))' = ExpiresAt(Key(d))
    BY <1>1 DEF ExpiresAt, Key
  <2>3. latest' <= now[d] + Margin
    BY <1>2, <2>1 DEF Tick, StepBack
  <2> QED
    BY <2>1, <2>2, <2>3
<1>9. NowInv'
  BY <1>1, <1>2, <1>3 DEF Inv, NowInv, TypeOK
<1>10. VictimInv'
  <2> SUFFICES ASSUME NEW d \in Calls, victim[d] \in Ids PROVE Retired(victim[d])'
    BY <1>1 DEF VictimInv
  <2>1. Retired(victim[d])
    BY DEF Inv, VictimInv
  <2>2. \A i \in Ids : Retired(i) => issued[i] # NoReceipt /\ ExpiresAt(i) + Margin <= latest'
    BY <1>1, <1>5 DEF Retired, ExpiresAt
  <2> QED
    BY <1>1, <2>1, <2>2 DEF Retired, ExpiresAt
<1>11. IssuedInv' /\ HolderInv' /\ UnsentInv' /\ WireInv' /\ AtMostOnce'
  BY <1>1, <1>6 DEF Inv, IssuedInv, HolderInv, UnsentInv, WireInv, AtMostOnce, Key
<1>12. MarkerInv' /\ DiskInv'
  BY <1>1, <1>5, <1>6 DEF Inv, MarkerInv, DiskInv, Untouched, Key
<1> QED
  BY <1>4, <1>7, <1>8, <1>9, <1>10, <1>11, <1>12 DEF Inv
-----------------------------------------------------------------------------
(***************************************************************************)
(* The steps by which a call approaches its marker, takes it, and hands    *)
(* its message over.                                                       *)
(***************************************************************************)
LEMMA AuthorizeStep ==
  ASSUME Inv, TypeOK', NEW c \in Calls, Authorize(c)
  PROVE  Inv'
<1>1. /\ UNCHANGED <<clock, latest, issued, marker, disk, wire, req, seen, now, victim>>
      /\ \A d \in Calls : pc'[d] = IF d = c THEN "consuming" ELSE pc[d]
  BY DEF Authorize, Goto, Inv, TypeOK
<1>2. \A i : Retired(i)' = Retired(i) /\ Sent(i)' = Sent(i)
  BY <1>1 DEF Retired, ExpiresAt, Sent
<1>3. Authorized(c)
  <2>1. ReceiptValid(req[c], seen[c], clock)
    BY DEF Authorize, Passes, SendPasses, ReplyPasses, ForwardPasses
  <2>2. Key(c) \in Ids /\ issued[Key(c)] # NoReceipt
    BY <2>1 DEF ReceiptValid, Key, Inv, KeyInv, TypeOK, Requests
  <2> QED
    BY <2>1, <2>2 DEF ReceiptValid, Authorized, Key
<1>4. KeyInv'
  <2>1. \A d \in Calls : pc'[d] \in Spending => Authorized(d)
    BY <1>1, <1>3 DEF Inv, KeyInv
  <2> QED
    BY <1>1, <2>1 DEF Inv, KeyInv, Authorized, Key, IntentOf
<1>5. \A d \in Calls : /\ pc'[d] \in Holding <=> pc[d] \in Holding /\ d # c
                       /\ pc'[d] \in Durable <=> pc[d] \in Durable /\ d # c
                       /\ pc'[d] \in Holding => pc'[d] = pc[d]
  BY <1>1 DEF Authorize, Holding, Durable, Submitting
<1>6. ClockInv' /\ OpenInv' /\ NowInv'
  BY <1>1 DEF Inv, ClockInv, OpenInv, NowInv, Key, ExpiresAt
<1>7. VictimInv' /\ IssuedInv' /\ WireInv' /\ AtMostOnce'
  BY <1>1, <1>2 DEF Inv, VictimInv, IssuedInv, WireInv, AtMostOnce
<1>8. MarkerInv' /\ DiskInv'
  BY <1>1, <1>2, <1>5 DEF Inv, MarkerInv, DiskInv, Untouched, Key
<1>9. HolderInv' /\ UnsentInv'
  BY <1>1, <1>2, <1>5 DEF Inv, HolderInv, UnsentInv, Key
<1> QED
  BY <1>4, <1>6, <1>7, <1>8, <1>9 DEF Inv

LEMMA ReadClockStep ==
  ASSUME Inv, TypeOK', NEW c \in Calls, ReadClock(c)
  PROVE  Inv'
<1>1. /\ UNCHANGED <<clock, latest, issued, marker, disk, wire, req, seen, victim>>
      /\ \A d \in Calls : pc'[d] = IF d = c THEN "opening" ELSE pc[d]
      /\ \A d \in Calls : now'[d] = IF d = c THEN clock ELSE now[d]
  BY DEF ReadClock, Goto, Inv, TypeOK
<1>2. \A i : Retired(i)' = Retired(i) /\ Sent(i)' = Sent(i)
  BY <1>1 DEF Retired, ExpiresAt, Sent
<1>3. KeyInv'
  <2>1. \A d \in Calls : pc'[d] \in Spending => Authorized(d)
    BY <1>1 DEF ReadClock, Inv, KeyInv, Spending, OnThread
  <2> QED
    BY <1>1, <2>1 DEF Inv, KeyInv, Authorized, Key, IntentOf
<1>4. \A d \in Calls : /\ pc'[d] \in Holding <=> pc[d] \in Holding /\ d # c
                       /\ pc'[d] \in Durable <=> pc[d] \in Durable /\ d # c
                       /\ pc'[d] \in Holding => pc'[d] = pc[d]
  BY <1>1 DEF ReadClock, Holding, Durable, Submitting
<1>5. OpenInv'
  <2>1. clock < ExpiresAt(Key(c))
    BY DEF ReadClock, Usable
  <2>2. latest <= clock + Margin
    BY OutboundAssumption, ClockAssumption DEF Inv, ClockInv, TypeOK
  <2>3. \A d \in Calls : ExpiresAt(Key(d))' = ExpiresAt(Key(d))
    BY <1>1 DEF ExpiresAt, Key
  <2> QED
    BY <1>1, <2>1, <2>2, <2>3 DEF Inv, OpenInv
<1>6. ClockInv' /\ NowInv'
  BY <1>1 DEF Inv, ClockInv, NowInv
<1>7. VictimInv' /\ IssuedInv' /\ WireInv' /\ AtMostOnce'
  BY <1>1, <1>2 DEF Inv, VictimInv, IssuedInv, WireInv, AtMostOnce
<1>8. MarkerInv' /\ DiskInv'
  BY <1>1, <1>2, <1>4 DEF Inv, MarkerInv, DiskInv, Untouched, Key
<1>9. HolderInv' /\ UnsentInv'
  BY <1>1, <1>2, <1>4 DEF Inv, HolderInv, UnsentInv, Key
<1> QED
  BY <1>3, <1>5, <1>6, <1>7, <1>8, <1>9 DEF Inv

\* The heart of the matter: a missing marker means an unused receipt, because
\* the clock cannot have moved far enough since it was read for the receipt to
\* be retired.
LEMMA OpenMarkerStep ==
  ASSUME Inv, TypeOK', NEW c \in Calls, OpenMarker(c)
  PROVE  Inv'
<1>1. /\ UNCHANGED <<clock, latest, issued, disk, wire, req, seen, now, victim>>
      /\ \A d \in Calls : pc'[d] = IF d = c THEN "writing" ELSE pc[d]
      /\ \A i \in Ids : marker'[i] = IF i = Key(c) THEN "partial" ELSE marker[i]
  BY DEF OpenMarker, Goto, Inv, TypeOK
<1>2. \A i : Retired(i)' = Retired(i) /\ Sent(i)' = Sent(i)
  BY <1>1 DEF Retired, ExpiresAt, Sent
<1>3. Authorized(c) /\ Key(c) \in Ids /\ issued[Key(c)] # NoReceipt
  BY DEF OpenMarker, Inv, KeyInv, Authorized, Spending, OnThread
<1>4. ~Retired(Key(c))
  <2>1. now[c] < ExpiresAt(Key(c)) /\ latest <= now[c] + Margin
    BY DEF OpenMarker, Inv, OpenInv
  <2>2. now[c] \in Nat /\ latest \in Nat /\ ExpiresAt(Key(c)) \in Nat /\ Margin \in Nat
    BY <1>3, OutboundAssumption DEF Inv, TypeOK, ExpiresAt, Receipts
  <2> QED
    BY <2>1, <2>2 DEF Retired
<1>5. Untouched(Key(c))
  BY <1>3, <1>4 DEF OpenMarker, Inv, MarkerInv
<1>6. KeyInv'
  <2>1. \A d \in Calls : pc'[d] \in Spending => Authorized(d)
    BY <1>1, <1>3 DEF Inv, KeyInv
  <2> QED
    BY <1>1, <2>1 DEF Inv, KeyInv, Authorized, Key, IntentOf
<1>7. \A d \in Calls : /\ pc'[d] \in Holding <=> pc[d] \in Holding \/ d = c
                       /\ pc'[d] \in Durable <=> pc[d] \in Durable /\ d # c
                       /\ d # c => pc'[d] = pc[d]
  BY <1>1 DEF OpenMarker, Holding, Durable, Submitting
<1>8. ClockInv' /\ OpenInv' /\ NowInv'
  BY <1>1 DEF Inv, ClockInv, OpenInv, NowInv, Key, ExpiresAt
<1>9. VictimInv' /\ WireInv' /\ AtMostOnce'
  BY <1>1, <1>2 DEF Inv, VictimInv, WireInv, AtMostOnce
<1>10. IssuedInv'
  BY <1>1, <1>3 DEF Inv, IssuedInv
<1>11. MarkerInv'
  <2> SUFFICES ASSUME NEW i \in Ids, marker'[i] = "absent"
               PROVE  Retired(i) \/ (~Sent(i) /\ \A d \in Calls : pc'[d] \in Holding => Key(d) # i)
    BY <1>1, <1>2 DEF MarkerInv, Untouched, Key
  <2>1. marker[i] = "absent" /\ i # Key(c)
    BY <1>1
  <2> QED
    BY <1>7, <2>1 DEF Inv, MarkerInv, Untouched
<1>12. DiskInv'
  BY <1>1, <1>2, <1>7 DEF Inv, DiskInv, Key
<1>13. HolderInv'
  BY <1>1, <1>5, <1>7 DEF Inv, HolderInv, Untouched, Key
<1>14. UnsentInv'
  BY <1>1, <1>2, <1>5, <1>7 DEF Inv, UnsentInv, Untouched, Key
<1> QED
  BY <1>6, <1>8, <1>9, <1>10, <1>11, <1>12, <1>13, <1>14 DEF Inv

LEMMA HandOverStep ==
  ASSUME Inv, TypeOK', NEW c \in Calls, NEW verdict \in Verdicts, HandOver(c, verdict)
  PROVE  Inv'
<1> DEFINE m == [kind |-> req[c].kind,
                 intent |-> IntentOf(req[c].kind, req[c].payload, seen[c].src)]
           entry == [id |-> Key(c), message |-> m]
<1>1. /\ UNCHANGED <<clock, latest, issued, marker, disk, req, seen, now, victim>>
      /\ \A d \in Calls : pc'[d] = IF d = c THEN "awaiting" ELSE pc[d]
      /\ wire' = Append(wire, entry)
  BY DEF HandOver, Goto, Inv, TypeOK
<1>2. /\ Len(wire) \in Nat /\ Len(wire') = Len(wire) + 1
      /\ \A n \in 1..Len(wire) : wire'[n] = wire[n]
      /\ wire'[Len(wire) + 1] = entry
  BY <1>1 DEF Inv, TypeOK
<1>3. pc[c] = "sending" /\ pc[c] \in Holding /\ pc[c] \in Durable /\ pc[c] \in Spending
  BY DEF HandOver, Holding, Durable, Spending, Submitting
<1>4. Authorized(c) /\ Key(c) \in Ids /\ issued[Key(c)] # NoReceipt
  BY <1>3 DEF Inv, KeyInv, Authorized
<1>5. ~Sent(Key(c))
  BY <1>3 DEF Inv, UnsentInv
<1>6. \A i : Retired(i)' = Retired(i)
  BY <1>1 DEF Retired, ExpiresAt
<1>7. \A i : Sent(i)' <=> Sent(i) \/ i = Key(c)
  <2> HIDE DEF m
  <2>1. ASSUME NEW i, Sent(i)' PROVE Sent(i) \/ i = Key(c)
    <3>1. PICK n \in 1..(Len(wire) + 1) : wire'[n].id = i
      BY <1>2, <2>1 DEF Sent
    <3> QED
      BY <1>2, <3>1 DEF Sent
  <2>2. ASSUME NEW i, Sent(i) PROVE Sent(i)'
    <3>1. PICK n \in 1..Len(wire) : wire[n].id = i
      BY <2>2 DEF Sent
    <3>2. n \in 1..Len(wire') /\ wire'[n].id = i
      BY <1>2, <3>1
    <3> QED
      BY <3>2 DEF Sent
  <2>3. Sent(Key(c))'
    <3>1. Len(wire) + 1 \in 1..Len(wire') /\ wire'[Len(wire) + 1].id = Key(c)
      BY <1>2
    <3>2. \E n \in 1..Len(wire') : wire'[n].id = Key(c)
      BY <3>1
    <3>3. Key(c)' = Key(c)
      BY <1>1 DEF Key
    <3> QED
      BY <3>2, <3>3 DEF Sent
  <2>4. Key(c)' = Key(c)
    BY <1>1 DEF Key
  <2> QED
    BY <2>1, <2>2, <2>3, <2>4 DEF Sent
<1>8. KeyInv'
  <2>1. \A d \in Calls : pc'[d] \in Spending => Authorized(d)
    BY <1>1, <1>4 DEF Inv, KeyInv
  <2> QED
    BY <1>1, <2>1 DEF Inv, KeyInv, Authorized, Key, IntentOf
<1>9. \A d \in Calls : /\ pc'[d] \in Holding <=> pc[d] \in Holding
                       /\ pc'[d] \in Durable <=> pc[d] \in Durable
                       /\ d # c => pc'[d] = pc[d]
  BY <1>1, <1>3 DEF Holding, Durable, Submitting
<1>10. ClockInv' /\ OpenInv' /\ NowInv'
  BY <1>1 DEF Inv, ClockInv, OpenInv, NowInv, Key, ExpiresAt
<1>11. VictimInv' /\ IssuedInv'
  BY <1>1, <1>6 DEF Inv, VictimInv, IssuedInv
<1>12. MarkerInv'
  <2> SUFFICES ASSUME NEW i \in Ids, marker[i] = "absent", ~Retired(i)
               PROVE  ~Sent(i)' /\ \A d \in Calls : pc'[d] \in Holding => Key(d) # i
    BY <1>1, <1>6 DEF MarkerInv, Untouched, Key
  <2>1. Untouched(i)
    BY DEF Inv, MarkerInv
  <2> QED
    BY <1>3, <1>7, <1>9, <2>1 DEF Untouched
<1>13. DiskInv'
  <2> SUFFICES ASSUME NEW i \in Ids, disk[i] = "absent", ~Retired(i)
               PROVE  ~Sent(i)' /\ \A d \in Calls : pc'[d] \in Durable => Key(d) # i
    BY <1>1, <1>6 DEF DiskInv, Key
  <2>1. ~Sent(i) /\ \A d \in Calls : pc[d] \in Durable => Key(d) # i
    BY DEF Inv, DiskInv
  <2> QED
    BY <1>3, <1>7, <1>9, <2>1
<1>14. HolderInv'
  BY <1>1, <1>9 DEF Inv, HolderInv, Key
<1>15. UnsentInv'
  <2> SUFFICES ASSUME NEW d \in Calls, pc'[d] \in Holding, pc'[d] # "awaiting"
               PROVE  ~Sent(Key(d))'
    BY DEF UnsentInv
  <2>1. d # c /\ pc[d] \in Holding /\ pc[d] # "awaiting"
    BY <1>1, <1>9
  <2>2. Key(d) # Key(c) /\ ~Sent(Key(d))
    BY <1>3, <2>1 DEF Inv, HolderInv, UnsentInv
  <2>3. Key(d)' = Key(d)
    BY <1>1 DEF Key
  <2>4. \A n \in 1..Len(wire') : wire'[n].id # Key(d)
    <3> HIDE DEF m
    <3> SUFFICES ASSUME NEW n \in 1..(Len(wire) + 1) PROVE wire'[n].id # Key(d)
      BY <1>2
    <3>1. CASE n \in 1..Len(wire)
      BY <1>2, <2>2, <3>1 DEF Sent
    <3>2. CASE n = Len(wire) + 1
      BY <1>2, <2>2, <3>2
    <3> QED
      BY <1>2, <3>1, <3>2
  <2> QED
    BY <2>3, <2>4 DEF Sent
<1>16. WireInv'
  <2> SUFFICES ASSUME NEW n \in 1..(Len(wire) + 1)
               PROVE  /\ issued[wire'[n].id] # NoReceipt
                      /\ wire'[n].message = [kind |-> issued[wire'[n].id].kind,
                                             intent |-> issued[wire'[n].id].intent]
    BY <1>1, <1>2 DEF WireInv
  <2>1. CASE n \in 1..Len(wire)
    BY <1>2, <2>1 DEF Inv, WireInv
  <2>2. CASE n = Len(wire) + 1
    BY <1>2, <1>4, <2>2 DEF Authorized
  <2> QED
    BY <1>2, <2>1, <2>2
<1>17. AtMostOnce'
  <2> HIDE DEF m
  <2> SUFFICES ASSUME NEW a \in 1..(Len(wire) + 1), NEW b \in 1..(Len(wire) + 1),
                      wire'[a].id = wire'[b].id
               PROVE  a = b
    BY <1>2 DEF AtMostOnce
  <2>1. \A n \in 1..Len(wire) : wire'[n].id # Key(c)
    BY <1>2, <1>5 DEF Sent
  <2>2. CASE a \in 1..Len(wire) /\ b \in 1..Len(wire)
    BY <1>2, <2>2 DEF Inv, AtMostOnce
  <2>3. CASE a = Len(wire) + 1 \/ b = Len(wire) + 1
    BY <1>2, <2>1, <2>3
  <2> QED
    BY <1>2, <2>2, <2>3
<1> QED
  BY <1>8, <1>10, <1>11, <1>12, <1>13, <1>14, <1>15, <1>16, <1>17 DEF Inv
-----------------------------------------------------------------------------
(***************************************************************************)
(* The inductive invariant.                                                *)
(***************************************************************************)
LEMMA InvInit == Init => Inv
<1> SUFFICES ASSUME Init PROVE Inv
  OBVIOUS
<1>1. TypeOK
  BY TypeInit
<1>2. \A c \in Calls : pc[c] = "idle" /\ Key(c) = NoReceipt /\ victim[c] = NoReceipt
  BY DEF Init, Key, NoRequest
<1>3. \A c \in Calls : /\ pc[c] \notin Spending /\ pc[c] \notin Holding /\ pc[c] \notin Durable
                      /\ pc[c] # "opening"
  BY <1>2 DEF Spending, Holding, Durable, OnThread, Submitting
<1>4. wire = << >> /\ \A i : ~Sent(i)
  BY DEF Init, Sent
<1>5. ClockInv /\ NowInv
  BY OutboundAssumption DEF Init, ClockInv, NowInv
<1>6. KeyInv /\ OpenInv /\ HolderInv /\ UnsentInv
  BY <1>2, <1>3 DEF KeyInv, OpenInv, HolderInv, UnsentInv
<1>7. VictimInv
  BY <1>2, OutboundAssumption DEF VictimInv
<1>8. IssuedInv
  BY DEF Init, IssuedInv
<1>9. MarkerInv /\ DiskInv
  BY <1>3, <1>4 DEF MarkerInv, DiskInv, Untouched
<1>10. WireInv /\ AtMostOnce
  BY <1>4 DEF WireInv, AtMostOnce
<1> QED
  BY <1>1, <1>5, <1>6, <1>7, <1>8, <1>9, <1>10 DEF Inv

\* Every step that leaves the directory, the wire and the clock alone.
LEMMA QuietActions ==
  ASSUME Inv, TypeOK', NEW c \in Calls,
         \/ \E q \in Inputs : Start(c, q)
         \/ \E secret \in BOOLEAN : Fetch(c, secret)
         \/ FetchFails(c) \/ Decline(c) \/ ExpiryInvalid(c) \/ AlreadyUsed(c) \/ Consumed(c)
         \/ GetPassword(c) \/ CreateTransport(c) \/ Answered(c)
         \/ \E code, command : SessionFails(c, code, command)
         \/ \E command : AnswerLost(c, command)
         \/ Return(c)
  PROVE  Inv'
<1> USE DEF Inv, TypeOK
<1>1. CASE \E q \in Inputs : Start(c, q)
  <2>1. \A d \in Calls : Stays(d) \/ Leaves(d)
    BY <1>1 DEF Start, Goto, Stays, Leaves, SameArguments, Spending, OnThread, Submitting
  <2>2. \A d \in Calls : pc'[d] \in Durable => pc[d] \in Durable
    BY <1>1 DEF Start, Goto, Durable, Submitting
  <2> QED
    BY <1>1, <2>1, <2>2, QuietStep DEF Start
<1>2. CASE \E secret \in BOOLEAN : Fetch(c, secret)
  <2>1. \A d \in Calls : Stays(d) \/ Leaves(d)
    BY <1>2 DEF Fetch, Goto, Stays, Leaves, SameArguments, Spending, OnThread, Submitting,
                KeyInv, Key
  <2>2. \A d \in Calls : pc'[d] \in Durable => pc[d] \in Durable
    BY <1>2 DEF Fetch, Goto, Durable, Submitting
  <2> QED
    BY <1>2, <2>1, <2>2, QuietStep DEF Fetch
<1>3. ASSUME UNCHANGED <<clock, latest, issued, marker, disk, wire, req, seen, now, victim>>,
             \E stage \in Stages \ OnThread : Goto(c, stage),
             pc'[c] \in Submitting => pc[c] \in Durable /\ pc[c] # "awaiting",
             pc'[c] # "awaiting"
      PROVE  Inv'
  <2>1. \A d \in Calls : Stays(d) \/ Leaves(d) \/ Advances(d)
    BY <1>3 DEF Goto, Stays, Leaves, Advances, SameArguments, Spending, Holding, Durable,
                OnThread, Submitting, KeyInv, Key
  <2>2. \A d \in Calls : pc'[d] \in Durable => pc[d] \in Durable
    BY <1>3 DEF Goto, Durable, Submitting, OnThread, Stages
  <2> QED
    BY <1>3, <2>1, <2>2, QuietStep
<1>4. CASE FetchFails(c) \/ Decline(c) \/ ExpiryInvalid(c) \/ AlreadyUsed(c) \/ Answered(c)
  <2>1. Goto(c, "done")
    BY <1>4 DEF FetchFails, Decline, ExpiryInvalid, AlreadyUsed, Answered, Finish
  <2>2. UNCHANGED <<clock, latest, issued, marker, disk, wire, req, seen, now, victim>>
    BY <1>4 DEF FetchFails, Decline, ExpiryInvalid, AlreadyUsed, Answered
  <2> QED
    BY <1>3, <2>1, <2>2 DEF Goto, Stages, OnThread, Submitting
<1>5. CASE (\E code, command : SessionFails(c, code, command)) \/ \E command : AnswerLost(c, command)
  <2>1. Goto(c, "done")
    BY <1>5 DEF SessionFails, AnswerLost, Finish
  <2>2. UNCHANGED <<clock, latest, issued, marker, disk, wire, req, seen, now, victim>>
    BY <1>5 DEF SessionFails, AnswerLost
  <2> QED
    BY <1>3, <2>1, <2>2 DEF Goto, Stages, OnThread, Submitting
<1>6. CASE Consumed(c) \/ GetPassword(c) \/ CreateTransport(c)
  <2>1. PICK stage \in {"credential", "transport", "sending", "done"} : Goto(c, stage)
    BY <1>6 DEF Consumed, GetPassword, CreateTransport, Finish
  <2>2. UNCHANGED <<clock, latest, issued, marker, disk, wire, req, seen, now, victim>>
    BY <1>6 DEF Consumed, GetPassword, CreateTransport
  <2>3. pc[c] \in Durable /\ pc[c] # "awaiting" /\ pc'[c] # "awaiting"
    BY <1>6, <2>1 DEF Consumed, GetPassword, CreateTransport, Goto, Durable, Submitting
  <2>4. stage \in Stages \ OnThread
    BY DEF Stages, OnThread, Submitting
  <2> QED
    BY <1>3, <2>1, <2>2, <2>3, <2>4
<1>7. CASE Return(c)
  <2>1. \A d \in Calls : Stays(d) \/ Leaves(d)
    BY <1>7 DEF Return, Reset, Stays, Leaves, SameArguments, Spending, OnThread, Submitting,
                NoRequest
  <2>2. \A d \in Calls : pc'[d] \in Durable => pc[d] \in Durable
    BY <1>7 DEF Return, Reset, Durable, Submitting
  <2>3. \A d \in Calls : victim'[d] \in {victim[d], NoReceipt}
    BY <1>7 DEF Return, Reset
  <2> QED
    BY <1>7, <2>1, <2>2, <2>3, QuietStep DEF Return
<1> QED
  BY <1>1, <1>2, <1>4, <1>5, <1>6, <1>7

LEMMA InvStep == Inv /\ [Next]_vars => Inv'
<1> SUFFICES ASSUME Inv, [Next]_vars PROVE Inv'
  OBVIOUS
<1>0. TypeOK'
  BY TypeStep DEF Inv
<1>1. CASE UNCHANGED vars
  <2>1. \A d \in Calls : Stays(d)
    BY <1>1 DEF vars, Stays, SameArguments
  <2> QED
    BY <1>0, <1>1, <2>1, QuietStep DEF vars
<1>2. CASE Preview
  <2>1. PICK i \in Ids, p \in Payloads :
          PreviewSend(i, p) \/ PreviewReply(i, p) \/ PreviewForward(i, p)
    BY <1>2 DEF Preview
  <2>2. PICK kind, intent : Issue(i, kind, intent)
    BY <2>1 DEF PreviewSend, PreviewReply, PreviewForward
  <2> QED
    BY <1>0, <2>2, IssueStep
<1>3. CASE World
  <2>1. CASE Tick \/ \E t \in 0..MaxTime : StepBack(t)
    BY <1>0, <2>1, TimeStep
  <2>2. CASE \E v \in Sources : ChangeSource(v)
    <3>1. \A d \in Calls : Stays(d)
      BY <2>2 DEF ChangeSource, Stays, SameArguments
    <3> QED
      BY <1>0, <2>2, <3>1, QuietStep DEF ChangeSource
  <2>3. CASE \E p \in Procs : Crash(p)
    <3>1. PICK p \in Procs : Crash(p)
      BY <2>3
    <3>2. \A d \in Calls : Stays(d) \/ Leaves(d)
      BY <3>1 DEF Crash, Reset, Stays, Leaves, SameArguments, Spending, OnThread, Submitting,
                  NoRequest
    <3>3. \A d \in Calls : pc'[d] \in Durable => pc[d] \in Durable
      BY <3>1 DEF Crash, Reset, Durable, Submitting
    <3>4. \A d \in Calls : victim'[d] \in {victim[d], NoReceipt}
      BY <3>1 DEF Crash, Reset
    <3> QED
      BY <1>0, <3>1, <3>2, <3>3, <3>4, QuietStep DEF Crash
  <2>4. CASE \E kept \in SUBSET Ids : PowerLoss(kept)
    BY <1>0, <2>4, PowerLossStep
  <2> QED
    BY <1>3, <2>1, <2>2, <2>3, <2>4 DEF World
<1>4. ASSUME NEW c \in Calls, CallStep(c) PROVE Inv'
  <2>1. CASE Authorize(c)
    BY <1>0, <2>1, AuthorizeStep
  <2>2. CASE ReadClock(c)
    BY <1>0, <2>2, ReadClockStep
  <2>3. CASE OpenMarker(c)
    BY <1>0, <2>3, OpenMarkerStep
  <2>4. CASE WriteMarker(c)
    BY <1>0, <2>4, WriteStep
  <2>5. CASE SyncDir(c)
    BY <1>0, <2>5, SyncStep
  <2>6. CASE GuardFails(c)
    BY <1>0, <2>6, GuardFailsStep
  <2>7. CASE \E i \in Ids : Inspect(c, i)
    BY <1>0, <2>7, InspectStep
  <2>8. CASE Unlink(c)
    BY <1>0, <2>8, UnlinkStep
  <2>9. CASE \E verdict \in Verdicts : HandOver(c, verdict)
    BY <1>0, <2>9, HandOverStep
  <2> QED
    BY <1>0, <1>4, <2>1, <2>2, <2>3, <2>4, <2>5, <2>6, <2>7, <2>8, <2>9, QuietActions
       DEF CallStep, Synchronous, Submission
<1> QED
  BY <1>1, <1>2, <1>3, <1>4 DEF Next

LEMMA Invariance == Spec => []Inv
BY InvInit, InvStep, PTL DEF Spec
-----------------------------------------------------------------------------
(* The results. *)

\* Type correctness of every state of the outbound pipeline.
THEOREM TypeCorrect == Spec => []TypeOK
<1>1. Inv => TypeOK
  BY DEF Inv
<1> QED
  BY <1>1, Invariance, PTL

\* However many processes share the replay directory, and however they crash,
\* lose power, clean up and see the clock stepped back within ClockAssumption,
\* the SMTP server is handed at most one message per receipt (sendMail,
\* sendReply, sendForward, consumeReceiptNonce).
THEOREM AtMostOnceHolds == Spec => []AtMostOnce
<1>1. Inv => AtMostOnce
  BY DEF Inv
<1> QED
  BY <1>1, Invariance, PTL

\* Before credential lookup begins, the marker is durable, and it remains so for
\* as long as the receipt could be presented again (consumeReceiptNonce).
THEOREM SpentSurvivesHolds == Spec => []SpentSurvives
<1>1. Inv => SpentSurvives
  <2> SUFFICES ASSUME Inv, NEW i \in Ids,
                      Sent(i) \/ (\E c \in Calls : pc[c] \in Submitting /\ Key(c) = i)
               PROVE  Retired(i) \/ (marker[i] # "absent" /\ disk[i] # "absent")
    BY DEF SpentSurvives
  <2>1. \A c \in Calls : pc[c] \in Submitting => pc[c] \in Holding /\ pc[c] \in Durable
    BY DEF Holding, Durable
  <2>2. marker[i] = "absent" => Retired(i)
    BY <2>1 DEF Inv, MarkerInv, Untouched
  <2>3. disk[i] = "absent" => Retired(i)
    BY <2>1 DEF Inv, DiskInv
  <2> QED
    BY <2>2, <2>3
<1> QED
  BY <1>1, Invariance, PTL

\* A marker on disk outlives its receipt: no step, not even another process's
\* cleanup or a power loss, removes it early (cleanupExpiredReplayMarkers).
THEOREM SpentStaysSpentHolds == Spec => SpentStaysSpent
<1> DEFINE Kept == \A i \in Ids :
                     (marker[i] # "absent" /\ disk[i] # "absent" /\ ~Retired(i)')
                       => marker'[i] # "absent" /\ disk'[i] # "absent"
<1>1. ASSUME Inv, [Next]_vars PROVE [Kept]_vars
  <2> SUFFICES ASSUME NEW i \in Ids, marker[i] # "absent", disk[i] # "absent", ~Retired(i)'
               PROVE  marker'[i] # "absent" /\ disk'[i] # "absent"
    OBVIOUS
  <2>0. /\ marker \in [Ids -> MarkerStates] /\ disk \in [Ids -> MarkerStates]
        /\ \A c \in Calls : victim[c] # NoReceipt => victim[c] \in Ids /\ Retired(victim[c])
    <3>1. TypeOK /\ VictimInv
      BY <1>1 DEF Inv
    <3> QED
      BY <3>1 DEF TypeOK, VictimInv
  <2>1. CASE UNCHANGED <<marker, disk>>
    BY <2>1
  <2>2. ASSUME NEW kept \in SUBSET Ids, PowerLoss(kept) PROVE marker'[i] # "absent" /\ disk'[i] # "absent"
    BY <2>2 DEF PowerLoss
  <2>3. ASSUME NEW c \in Calls, OpenMarker(c) \/ WriteMarker(c)
        PROVE  marker'[i] # "absent" /\ disk'[i] # "absent"
    BY <2>0, <2>3 DEF OpenMarker, WriteMarker
  <2>4. ASSUME NEW c \in Calls, SyncDir(c) PROVE marker'[i] # "absent" /\ disk'[i] # "absent"
    BY <2>0, <2>4 DEF SyncDir
  <2>5. ASSUME NEW c \in Calls, GuardFails(c) PROVE marker'[i] # "absent" /\ disk'[i] # "absent"
    BY <2>0, <2>5 DEF GuardFails
  <2>6. ASSUME NEW c \in Calls, Unlink(c) PROVE marker'[i] # "absent" /\ disk'[i] # "absent"
    <3>1. victim[c] \in Ids /\ Retired(victim[c])
      BY <2>0, <2>6 DEF Unlink
    <3>2. Retired(i)' = Retired(i)
      BY <2>6 DEF Unlink, Retired, ExpiresAt
    <3>3. victim[c] # i
      BY <3>1, <3>2
    <3> QED
      BY <2>0, <2>6, <3>3 DEF Unlink
  <2>7. ASSUME NEW c \in Calls, CallStep(c),
               ~(OpenMarker(c) \/ WriteMarker(c) \/ SyncDir(c) \/ GuardFails(c) \/ Unlink(c))
        PROVE  UNCHANGED <<marker, disk>>
    BY <2>7 DEF CallStep, Synchronous, Submission, Start, Fetch, FetchFails, GetPassword, Return,
                Decline, Authorize, ReadClock, ExpiryInvalid, AlreadyUsed, Inspect, Consumed,
                CreateTransport, Answered, SessionFails, HandOver, AnswerLost
  <2>8. CASE Preview
    BY <2>8 DEF Preview, PreviewSend, PreviewReply, PreviewForward, Issue
  <2>9. CASE World
    <3>1. CASE Tick \/ (\E t \in 0..MaxTime : StepBack(t)) \/ (\E v \in Sources : ChangeSource(v))
          \/ (\E p \in Procs : Crash(p))
      BY <3>1 DEF Tick, StepBack, ChangeSource, Crash
    <3> QED
      BY <2>2, <2>9, <3>1 DEF World
  <2>10. CASE \E c \in Calls : CallStep(c)
    BY <2>1, <2>3, <2>4, <2>5, <2>6, <2>7, <2>10
  <2>11. CASE UNCHANGED vars
    BY <2>1, <2>11 DEF vars
  <2> QED
    BY <1>1, <2>8, <2>9, <2>10, <2>11 DEF Next
<1> HIDE DEF Kept
<1>2. Spec => [][Kept]_vars
  BY <1>1, Invariance, PTL DEF Spec
<1> QED
  BY <1>2 DEF SpentStaysSpent, Kept
-----------------------------------------------------------------------------
(* The live feature gates. *)

GateInv ==
  /\ \A i \in Ids : marker[i] # "absent" \/ disk[i] # "absent"
                      => issued[i].kind \notin LiveDisabled
  /\ \A c \in Calls : pc[c] \in Spending => req[c].kind \notin LiveDisabled

LEMMA GateInit == Init => GateInv
BY DEF Init, GateInv, Spending, OnThread, Submitting

LEMMA GateStep == ASSUME Inv, GateInv, [Next]_vars PROVE GateInv'
<1>1. /\ marker \in [Ids -> MarkerStates] /\ disk \in [Ids -> MarkerStates]
      /\ pc \in [Calls -> Stages] /\ req \in [Calls -> Requests]
      /\ issued \in [Ids -> Receipts \cup {NoReceipt}]
  BY DEF Inv, TypeOK
<1>2. \A i \in Ids : marker[i] # "absent" \/ disk[i] # "absent" => issued[i] # NoReceipt
  BY DEF Inv, IssuedInv
<1>3. \A c \in Calls : pc[c] \in Spending => Key(c) \in Ids /\ issued[Key(c)].kind = req[c].kind
  BY DEF Inv, KeyInv, Authorized
<1>4. ASSUME UNCHANGED issued,
             \A i \in Ids : marker'[i] # "absent" \/ disk'[i] # "absent"
                              => marker[i] # "absent" \/ disk[i] # "absent",
             \A c \in Calls : pc'[c] \in Spending => pc[c] \in Spending /\ req'[c] = req[c]
      PROVE  GateInv'
  BY <1>4 DEF GateInv
<1>5. CASE UNCHANGED vars
  BY <1>4, <1>5 DEF vars
<1>6. CASE Preview
  <2>1. PICK i \in Ids : \E kind, intent : Issue(i, kind, intent)
    BY <1>6 DEF Preview, PreviewSend, PreviewReply, PreviewForward
  <2>2. \A j \in Ids : issued[j] # NoReceipt => issued'[j] = issued[j]
    BY <1>1, <2>1 DEF Issue
  <2> QED
    BY <1>2, <2>1, <2>2 DEF Issue, GateInv
<1>7. CASE World
  <2>1. CASE Tick \/ (\E t \in 0..MaxTime : StepBack(t)) \/ (\E v \in Sources : ChangeSource(v))
    BY <1>4, <2>1 DEF Tick, StepBack, ChangeSource
  <2>2. ASSUME NEW p \in Procs, Crash(p) PROVE GateInv'
    BY <1>4, <2>2 DEF Crash, Reset, Spending, OnThread, Submitting
  <2>3. ASSUME NEW kept \in SUBSET Ids, PowerLoss(kept) PROVE GateInv'
    BY <1>4, <2>3 DEF PowerLoss, Reset, Spending, OnThread, Submitting
  <2> QED
    BY <1>7, <2>1, <2>2, <2>3 DEF World
<1>8. ASSUME NEW c \in Calls, CallStep(c) PROVE GateInv'
  <2>1. CASE Authorize(c)
    <3>1. req[c].kind \notin LiveDisabled
      BY <2>1, OutboundAssumption
         DEF Authorize, Passes, SendPasses, ReplyPasses, ForwardPasses, GateOpen
    <3> QED
      BY <1>1, <2>1, <3>1 DEF Authorize, Goto, GateInv
  <2>2. CASE OpenMarker(c) \/ WriteMarker(c) \/ SyncDir(c) \/ GuardFails(c)
    <3>1. pc[c] \in Spending
      BY <2>2 DEF OpenMarker, WriteMarker, SyncDir, GuardFails, Spending, OnThread
    <3>2. issued[Key(c)].kind \notin LiveDisabled
      BY <1>3, <3>1 DEF GateInv
    <3>3. UNCHANGED <<issued, req>>
      BY <2>2 DEF OpenMarker, WriteMarker, SyncDir, GuardFails
    <3>4. \A i \in Ids : marker'[i] # "absent" \/ disk'[i] # "absent"
                           => marker[i] # "absent" \/ disk[i] # "absent" \/ i = Key(c)
      BY <1>1, <2>2 DEF OpenMarker, WriteMarker, SyncDir, GuardFails
    <3>5. \A d \in Calls : pc'[d] \in Spending => pc[d] \in Spending
      BY <1>1, <2>2, <3>1 DEF OpenMarker, WriteMarker, SyncDir, GuardFails, Goto, Finish
    <3> QED
      BY <3>2, <3>3, <3>4, <3>5 DEF GateInv
  <2>3. CASE Unlink(c)
    BY <1>1, <1>4, <2>3 DEF Unlink
  <2>4. CASE (\E q \in Inputs : Start(c, q)) \/ Return(c)
    BY <1>1, <1>4, <2>4 DEF Start, Return, Reset, Goto, Spending, OnThread, Submitting
  <2>5. ASSUME CallStep(c), ~Authorize(c), ~OpenMarker(c), ~WriteMarker(c), ~SyncDir(c),
               ~GuardFails(c), ~Unlink(c), ~Return(c), ~\E q \in Inputs : Start(c, q)
        PROVE  GateInv'
    <3>1. UNCHANGED <<issued, marker, disk, req>>
      BY <2>5 DEF CallStep, Synchronous, Submission, Fetch, FetchFails, GetPassword, Decline,
                  ReadClock, ExpiryInvalid, AlreadyUsed, Inspect, Consumed, CreateTransport,
                  Answered, SessionFails, HandOver, AnswerLost
    <3>2. \/ pc' = pc
          \/ Goto(c, "done") \/ Goto(c, "checking")
          \/ pc[c] \in Spending /\ \E stage : Goto(c, stage)
      <4>1. CASE \/ FetchFails(c) \/ Decline(c) \/ ExpiryInvalid(c) \/ AlreadyUsed(c) \/ Answered(c)
                 \/ \E code, command : SessionFails(c, code, command)
                 \/ \E command : AnswerLost(c, command)
        BY <4>1 DEF FetchFails, Decline, ExpiryInvalid, AlreadyUsed, Answered, SessionFails,
                    AnswerLost, Finish
      <4>2. CASE \E secret \in BOOLEAN : Fetch(c, secret)
        BY <4>2 DEF Fetch
      <4>3. CASE \E i \in Ids : Inspect(c, i)
        BY <4>3 DEF Inspect
      <4>4. CASE \/ ReadClock(c) \/ Consumed(c) \/ GetPassword(c) \/ CreateTransport(c)
                 \/ \E verdict \in Verdicts : HandOver(c, verdict)
        <5>1. pc[c] \in Spending
          BY <4>4 DEF ReadClock, Consumed, GetPassword, CreateTransport, HandOver, Spending,
                      OnThread, Submitting
        <5>2. \E stage : Goto(c, stage)
          BY <4>4 DEF ReadClock, Consumed, GetPassword, CreateTransport, HandOver, Finish
        <5> QED
          BY <5>1, <5>2
      <4> QED
        BY <2>5, <4>1, <4>2, <4>3, <4>4 DEF CallStep, Synchronous, Submission
    <3>3. \A d \in Calls : pc'[d] \in Spending => pc[d] \in Spending
      BY <1>1, <3>2 DEF Goto, Spending, OnThread, Submitting
    <3> QED
      BY <1>4, <3>1, <3>3
  <2> QED
    BY <1>8, <2>1, <2>2, <2>3, <2>4, <2>5
<1> QED
  BY <1>5, <1>6, <1>7, <1>8 DEF Next

\* While the live gate of a kind is closed, no receipt of that kind is spent:
\* "this receipt was NOT consumed and remains usable" (sendReply, sendForward).
THEOREM GatedNeverSpendsHolds == Spec => []GatedNeverSpends
<1>1. GateInv => GatedNeverSpends
  BY DEF GateInv, GatedNeverSpends
<1>2. Inv /\ GateInv /\ [Next]_vars => GateInv'
  BY GateStep
<1> QED
  BY <1>1, <1>2, GateInit, Invariance, PTL DEF Spec
-----------------------------------------------------------------------------
(* What a call answers. *)

HonestAnswer(verdict, answer) ==
  /\ verdict = "accepted" => answer.outcome \in {"accepted", "uncertain"}
  /\ verdict = "partial" => answer.outcome \in {"partiallyAccepted", "uncertain"}
  /\ answer.outcome = "accepted" => verdict = "accepted"
  /\ verdict \in {"accepted", "partial"} => answer.attempted

\* The one answer that misleads: "failed, not attempted" of a message the server took.
CalledFailed(c) ==
  /\ pc[c] = "done" /\ server[c] \in {"accepted", "partial"}
  /\ result[c] = Answer("failed", FALSE)

\* The connection is lost, and the error's command is one classifySmtpError takes for a
\* failure before the submission (outcome.ts:42).
LossMisread(c) == \E command \in LossCommands \cap {"none", "CONN", "AUTH"} : AnswerLost(c, command)

HonestInv ==
  /\ \A c \in Calls : pc[c] \notin {"awaiting", "done"} => server[c] = "refused"
  /\ \A c \in Calls : pc[c] = "done" => HonestAnswer(server[c], result[c]) \/ CalledFailed(c)

OnlyMisread == \A c \in Calls : CalledFailed(c)' => CalledFailed(c) \/ LossMisread(c)

LEMMA HonestAnswers ==
  /\ \A v \in Verdicts : /\ HonestAnswer(v, AfterAnswer(v))
                         /\ HonestAnswer(v, Answer("uncertain", TRUE))
  /\ \A answer : answer.outcome # "accepted" => HonestAnswer("refused", answer)
<1>1. HonestAnswer("accepted", AfterAnswer("accepted"))
  BY DEF HonestAnswer, AfterAnswer, ClassifySuccess, Answer
<1>2. HonestAnswer("partial", AfterAnswer("partial"))
  BY DEF HonestAnswer, AfterAnswer, ClassifySuccess, Answer
<1>3. HonestAnswer("refused", AfterAnswer("refused")) /\ HonestAnswer("deferred", AfterAnswer("deferred"))
  BY DEF HonestAnswer, AfterAnswer, ClassifyError, Answer
<1>4. \A v \in Verdicts : HonestAnswer(v, AfterAnswer(v))
  BY <1>1, <1>2, <1>3 DEF Verdicts
<1>5. \A v : HonestAnswer(v, Answer("uncertain", TRUE))
  BY DEF HonestAnswer, Answer
<1>6. \A answer : answer.outcome # "accepted" => HonestAnswer("refused", answer)
  BY DEF HonestAnswer
<1> QED
  BY <1>4, <1>5, <1>6

\* An honest answer is not the misleading one.
LEMMA HonestNotFailed ==
  ASSUME NEW verdict, NEW answer, HonestAnswer(verdict, answer)
  PROVE  ~(verdict \in {"accepted", "partial"} /\ answer = Answer("failed", FALSE))
BY DEF HonestAnswer, Answer

\* How one call's step keeps every answer honest.
LEMMA HonestFrame ==
  ASSUME HonestInv, NEW c \in Calls,
         \A d \in Calls \ {c} : pc'[d] = pc[d] /\ server'[d] = server[d] /\ result'[d] = result[d],
         pc'[c] \in {"awaiting", "done"} \/ server'[c] = "refused",
         pc'[c] = "done" => \/ HonestAnswer(server'[c], result'[c])
                            \/ CalledFailed(c)' /\ LossMisread(c)
  PROVE  HonestInv' /\ OnlyMisread
<1>1. ASSUME NEW d \in Calls \ {c}
      PROVE  /\ CalledFailed(d)' <=> CalledFailed(d)
             /\ HonestAnswer(server[d], result[d])' <=> HonestAnswer(server[d], result[d])
  BY <1>1 DEF CalledFailed, HonestAnswer
<1>2. /\ pc'[c] = "done" => HonestAnswer(server[c], result[c])' \/ CalledFailed(c)'
      /\ CalledFailed(c)' => LossMisread(c)
  BY HonestNotFailed DEF CalledFailed, HonestAnswer
<1> QED
  BY <1>1, <1>2 DEF HonestInv, OnlyMisread

LEMMA HonestInit == Init => HonestInv
BY DEF Init, HonestInv

LEMMA HonestStep ==
  ASSUME TypeOK, HonestInv, [Next]_vars
  PROVE  HonestInv' /\ OnlyMisread
<1>1. /\ pc \in [Calls -> Stages] /\ server \in [Calls -> Verdicts] /\ result \in [Calls -> Results]
  BY DEF TypeOK
<1>3. CASE UNCHANGED <<pc, server, result>>
  BY <1>3 DEF HonestInv, OnlyMisread, CalledFailed, HonestAnswer
<1>4. CASE \E cs \in SUBSET Calls : Reset(cs)
  <2>1. PICK cs \in SUBSET Calls : Reset(cs)
    BY <1>4
  <2>2. \A d \in Calls : \/ pc'[d] = "idle" /\ server'[d] = "refused"
                         \/ pc'[d] = pc[d] /\ server'[d] = server[d] /\ result'[d] = result[d]
    <3>1. /\ pc' = [d \in Calls |-> IF d \in cs THEN "idle" ELSE pc[d]]
          /\ server' = [d \in Calls |-> IF d \in cs THEN "refused" ELSE server[d]]
          /\ result' = [d \in Calls |-> IF d \in cs THEN NoResult ELSE result[d]]
      BY <2>1 DEF Reset
    <3>2. ASSUME NEW d \in Calls, d \in cs PROVE pc'[d] = "idle" /\ server'[d] = "refused"
      BY <3>1, <3>2
    <3>3. ASSUME NEW d \in Calls, d \notin cs
          PROVE  pc'[d] = pc[d] /\ server'[d] = server[d] /\ result'[d] = result[d]
      BY <3>1, <3>3
    <3> QED
      BY <3>2, <3>3
  <2> QED
    BY <2>2 DEF HonestInv, OnlyMisread, CalledFailed, HonestAnswer
<1>5. ASSUME NEW c \in Calls, CallStep(c), ~Return(c) PROVE HonestInv' /\ OnlyMisread
  <2>1. CASE \E verdict \in Verdicts : HandOver(c, verdict)
    BY <1>1, <2>1, HonestFrame DEF HandOver, Goto
  <2>2. CASE Answered(c)
    <3>1. /\ UNCHANGED server
          /\ \A d \in Calls : pc'[d] = IF d = c THEN "done" ELSE pc[d]
          /\ \A d \in Calls : result'[d] = IF d = c THEN AfterAnswer(server[c]) ELSE result[d]
      BY <1>1, <2>2 DEF Answered, Finish, Goto
    <3>2. HonestAnswer(server[c], AfterAnswer(server[c]))
      BY <1>1, HonestAnswers
    <3>3. HonestAnswer(server'[c], result'[c])
      BY <3>1, <3>2
    <3> QED
      BY <3>1, <3>3, HonestFrame
  <2>3. CASE \E command \in LossCommands : AnswerLost(c, command)
    <3>1. PICK command \in LossCommands : AnswerLost(c, command)
      BY <2>3
    <3>2. AfterLoss(command) = IF command \in {"none", "CONN", "AUTH"} THEN Answer("failed", FALSE)
                               ELSE Answer("uncertain", TRUE)
      BY DEF AfterLoss, ClassifyError
    <3>3. /\ UNCHANGED server
          /\ \A d \in Calls : pc'[d] = IF d = c THEN "done" ELSE pc[d]
          /\ \A d \in Calls : result'[d] = IF d = c THEN AfterLoss(command) ELSE result[d]
      BY <1>1, <3>1 DEF AnswerLost, Finish, Goto
    <3>4. CASE command \notin {"none", "CONN", "AUTH"}
      <4>1. HonestAnswer(server'[c], result'[c])
        BY <1>1, <3>2, <3>3, <3>4, HonestAnswers
      <4> QED
        BY <3>3, <4>1, HonestFrame
    <3>5. CASE command \in {"none", "CONN", "AUTH"} /\ server[c] \in {"accepted", "partial"}
      <4>1. CalledFailed(c)' /\ LossMisread(c)
        BY <3>1, <3>2, <3>3, <3>5 DEF CalledFailed, LossMisread
      <4> QED
        BY <3>3, <4>1, HonestFrame
    <3>6. CASE command \in {"none", "CONN", "AUTH"} /\ server[c] \notin {"accepted", "partial"}
      <4>1. HonestAnswer(server'[c], result'[c])
        BY <3>2, <3>3, <3>6 DEF HonestAnswer, Answer
      <4> QED
        BY <3>3, <4>1, HonestFrame
    <3> QED
      BY <3>4, <3>5, <3>6
  <2>4. ASSUME UNCHANGED server, pc[c] \notin {"awaiting", "done"},
               \E stage : Goto(c, stage),
               \/ UNCHANGED result /\ pc'[c] # "done"
               \/ \E answer \in Results : /\ result' = [result EXCEPT ![c] = answer]
                                          /\ answer.outcome # "accepted"
        PROVE  HonestInv' /\ OnlyMisread
    <3>1. server[c] = "refused"
      BY <2>4 DEF HonestInv
    <3>2. \A d \in Calls \ {c} : pc'[d] = pc[d] /\ result'[d] = result[d]
      BY <1>1, <2>4 DEF Goto
    <3>3. pc'[c] = "done" => result'[c].outcome # "accepted"
      BY <1>1, <2>4
    <3> QED
      BY <2>4, <3>1, <3>2, <3>3, HonestFrame, HonestAnswers
  <2>5. CASE \E i \in Ids : Inspect(c, i)
    BY <1>3, <2>5 DEF Inspect
  <2>6. CASE Unlink(c)
    BY <1>3, <2>6 DEF Unlink
  <2>7. CASE \/ \E q \in Inputs : Start(c, q)
             \/ \E secret \in BOOLEAN : Fetch(c, secret)
             \/ Authorize(c) \/ ReadClock(c) \/ OpenMarker(c) \/ WriteMarker(c) \/ SyncDir(c)
             \/ Consumed(c)
    <3>1. UNCHANGED <<server, result>> /\ pc[c] \notin {"awaiting", "done"}
      BY <2>7 DEF Start, Fetch, Authorize, ReadClock, OpenMarker, WriteMarker, SyncDir, Consumed
    <3>2. \E stage \in Stages \ {"done"} : Goto(c, stage)
      <4>1. \/ Goto(c, "fetching") \/ Goto(c, "checking") \/ Goto(c, "consuming")
            \/ Goto(c, "opening") \/ Goto(c, "writing") \/ Goto(c, "syncing")
            \/ Goto(c, "cleaning") \/ Goto(c, "credential")
        BY <2>7 DEF Start, Fetch, Authorize, ReadClock, OpenMarker, WriteMarker, SyncDir, Consumed
      <4> QED
        BY <4>1 DEF Stages, OnThread, Submitting
    <3>3. pc'[c] # "done"
      BY <1>1, <3>2 DEF Goto
    <3> QED
      BY <2>4, <3>1, <3>2, <3>3
  <2>8. CASE \/ FetchFails(c) \/ Decline(c) \/ ExpiryInvalid(c) \/ AlreadyUsed(c) \/ GuardFails(c)
             \/ \E code \in {"none", "4xx", "5xx"}, command \in Commands :
                  SessionFails(c, code, command)
    <3>1. \A code, command : /\ ClassifyError(code, command).outcome # "accepted"
                             /\ ClassifyError(code, command) \in Results
      BY ClassifyTypes DEF ClassifyError, Answer
    <3>2. \A outcome \in {"thrown", "dryRun", "rejected"} :
            Answer(outcome, FALSE).outcome # "accepted" /\ Answer(outcome, FALSE) \in Results
      BY DEF Answer, Results, Outcomes
    <3>3. UNCHANGED server /\ pc[c] \notin {"awaiting", "done"} /\ Goto(c, "done")
      BY <2>8 DEF FetchFails, Decline, ExpiryInvalid, AlreadyUsed, GuardFails, SessionFails, Finish
    <3>4. \/ \E outcome \in {"thrown", "dryRun", "rejected"} :
               result' = [result EXCEPT ![c] = Answer(outcome, FALSE)]
          \/ \E code, command : result' = [result EXCEPT ![c] = ClassifyError(code, command)]
      <4>1. CASE \E code, command : SessionFails(c, code, command)
        BY <4>1 DEF SessionFails, Finish
      <4>2. CASE FetchFails(c) \/ Decline(c) \/ ExpiryInvalid(c) \/ AlreadyUsed(c) \/ GuardFails(c)
        BY <4>2 DEF FetchFails, Decline, ExpiryInvalid, AlreadyUsed, GuardFails, Finish
      <4> QED
        BY <2>8, <4>1, <4>2
    <3>5. \E answer \in Results : /\ result' = [result EXCEPT ![c] = answer]
                                  /\ answer.outcome # "accepted"
      <4>1. CASE \E outcome \in {"thrown", "dryRun", "rejected"} :
                   result' = [result EXCEPT ![c] = Answer(outcome, FALSE)]
        BY <3>2, <4>1
      <4>2. CASE \E code, command : result' = [result EXCEPT ![c] = ClassifyError(code, command)]
        BY <3>1, <4>2, Zenon
      <4> QED
        BY <3>4, <4>1, <4>2
    <3>6. pc[c] \notin {"awaiting", "done"} /\ \E stage : Goto(c, stage)
      BY <3>3
    <3> QED
      BY <2>4, <3>3, <3>5, <3>6
  <2>9. CASE GetPassword(c) \/ CreateTransport(c)
    <3>1. UNCHANGED server /\ pc[c] \notin {"awaiting", "done"}
      BY <2>9 DEF GetPassword, CreateTransport
    <3>2. CASE Finish(c, Answer("failed", FALSE))
      <4>1. Answer("failed", FALSE) \in Results /\ Answer("failed", FALSE).outcome # "accepted"
        BY DEF Answer, Results, Outcomes
      <4> QED
        BY <2>4, <3>1, <3>2, <4>1 DEF Finish
    <3>3. CASE (Goto(c, "transport") \/ Goto(c, "sending")) /\ UNCHANGED result
      <4>1. pc'[c] # "done"
        BY <1>1, <3>3 DEF Goto
      <4> QED
        BY <2>4, <3>1, <3>3, <4>1
    <3> QED
      BY <2>9, <3>2, <3>3 DEF GetPassword, CreateTransport
  <2> QED
    BY <1>5, <2>1, <2>2, <2>3, <2>5, <2>6, <2>7, <2>8, <2>9 DEF CallStep, Synchronous, Submission
<1>6. CASE UNCHANGED vars
  BY <1>3, <1>6 DEF vars
<1>7. CASE Preview
  BY <1>3, <1>7 DEF Preview, PreviewSend, PreviewReply, PreviewForward, Issue
<1>8. CASE World
  <2>1. CASE Tick \/ (\E t \in 0..MaxTime : StepBack(t)) \/ (\E v \in Sources : ChangeSource(v))
    BY <1>3, <2>1 DEF Tick, StepBack, ChangeSource
  <2>2. CASE (\E p \in Procs : Crash(p)) \/ (\E kept \in SUBSET Ids : PowerLoss(kept))
    BY <1>4, <2>2 DEF Crash, PowerLoss
  <2> QED
    BY <1>8, <2>1, <2>2 DEF World
<1>9. ASSUME NEW c \in Calls, Return(c) PROVE HonestInv' /\ OnlyMisread
  BY <1>4, <1>9 DEF Return
<1> QED
  BY <1>5, <1>6, <1>7, <1>8, <1>9 DEF Next

(***************************************************************************)
(* Whatever commands the errors of lost connections name, one answer alone *)
(* can mislead about delivery: "failed, not attempted" of a message the    *)
(* server took.  A call comes to give it only when the connection is lost  *)
(* after that, with an error classifySmtpError takes for one before the    *)
(* submission (outcome.ts:42); every other loss is answered "uncertain".   *)
(***************************************************************************)
THEOREM OutcomeHonestHolds ==
  Spec => /\ [](OutcomeHonest \/ \E c \in Calls : CalledFailed(c))
          /\ [][OnlyMisread]_vars
<1>1. HonestInv => OutcomeHonest \/ \E c \in Calls : CalledFailed(c)
  BY DEF HonestInv, OutcomeHonest, HonestAnswer
<1>2. TypeOK /\ HonestInv /\ [Next]_vars => HonestInv' /\ OnlyMisread
  BY HonestStep
<1> QED
  BY <1>1, <1>2, HonestInit, TypeCorrect, PTL DEF Spec
-----------------------------------------------------------------------------
(* The pipeline keeps the abstract promise. *)

BoundMessage(i) == [kind |-> issued[i].kind, intent |-> issued[i].intent]

LEMMA BoundType ==
  ASSUME TypeOK, NEW i \in Ids
  PROVE  /\ issued[i] = NoReceipt => Bound[i] = NoReceipt
         /\ issued[i] # NoReceipt => /\ Bound[i] = BoundMessage(i)
                                     /\ Bound[i] \in Messages /\ Bound[i] # NoReceipt
<1>1. issued[i] # NoReceipt => BoundMessage(i) \in Messages
  BY DEF TypeOK, Receipts, Messages, BoundMessage
<1> QED
  BY <1>1, NoReceiptAssumption DEF Bound, BoundMessage

LEMMA OneShotInit == Init => OneShot!Init
BY DEF Init, OneShot!Init, Bound

LEMMA OneShotStep ==
  ASSUME Inv, [Next]_vars
  PROVE  [OneShot!Next]_(OneShot!vars)
<1>0. TypeOK /\ wire \in Seq([id : Ids, message : Messages])
  BY DEF Inv, TypeOK
<1>1. ASSUME UNCHANGED <<issued, wire>> PROVE UNCHANGED OneShot!vars
  BY <1>1 DEF OneShot!vars, Bound
<1>2. CASE UNCHANGED vars
  BY <1>1, <1>2 DEF vars
<1>3. CASE World
  BY <1>1, <1>3 DEF World, Tick, StepBack, ChangeSource, Crash, PowerLoss
<1>4. CASE Preview
  <2>1. PICK i \in Ids, p \in Payloads :
          PreviewSend(i, p) \/ PreviewReply(i, p) \/ PreviewForward(i, p)
    BY <1>4 DEF Preview
  <2>2. PICK kind \in AllKinds, src \in Sources : Issue(i, kind, IntentOf(kind, p, src))
    BY <1>0, <2>1 DEF PreviewSend, PreviewReply, PreviewForward, AllKinds, Sources, TypeOK
  <2> DEFINE intent == IntentOf(kind, p, src)
             r == [kind |-> kind, intent |-> intent, issuedAt |-> clock]
             m == [kind |-> kind, intent |-> intent]
  <2>3. intent \in Intents /\ m \in Messages
    BY IntentType DEF Messages
  <2>4. r \in Receipts /\ r # NoReceipt
    BY <1>0, <2>3, NoReceiptAssumption DEF Receipts, TypeOK
  <2>5. issued[i] = NoReceipt /\ issued' = [issued EXCEPT ![i] = r] /\ UNCHANGED wire
    BY <2>2 DEF Issue
  <2>6. issued \in [Ids -> Receipts \cup {NoReceipt}]
    BY <1>0 DEF TypeOK
  <2>7. Bound[i] = NoReceipt /\ Bound' = [Bound EXCEPT ![i] = m]
    <3> HIDE DEF m
    <3>1. r.kind = kind /\ r.intent = intent
      OBVIOUS
    <3> HIDE DEF r
    <3>2. \A j \in Ids : Bound'[j] = IF j = i THEN m ELSE Bound[j]
      BY <2>4, <2>5, <2>6, <3>1 DEF Bound, m
    <3>3. Bound[i] = NoReceipt
      BY <2>5 DEF Bound
    <3>4. Bound' = [j \in Ids |-> Bound'[j]] /\ Bound = [j \in Ids |-> Bound[j]]
      BY DEF Bound
    <3>5. Bound' = [j \in Ids |-> IF j = i THEN m ELSE Bound[j]]
      BY <3>2, <3>4
    <3>6. [Bound EXCEPT ![i] = m] = [j \in Ids |-> IF j = i THEN m ELSE Bound[j]]
      BY <3>4
    <3> QED
      BY <3>3, <3>5, <3>6
  <2>8. Bound'[i] = m
    <3> HIDE DEF m
    <3>1. DOMAIN Bound = Ids
      BY DEF Bound
    <3> QED
      BY <2>7, <3>1
  <2>9. OneShot!Bind(i)
    BY <2>3, <2>5, <2>7, <2>8 DEF OneShot!Bind
  <2> QED
    BY <2>9 DEF OneShot!Next
<1>5. ASSUME NEW c \in Calls, CallStep(c) PROVE [OneShot!Next]_(OneShot!vars)
  <2>1. CASE \E verdict \in Verdicts : HandOver(c, verdict)
    <3>1. PICK verdict \in Verdicts : HandOver(c, verdict)
      BY <2>1
    <3> DEFINE i == Key(c)
               m == [kind |-> req[c].kind,
                     intent |-> IntentOf(req[c].kind, req[c].payload, seen[c].src)]
    <3>2. pc[c] \in Holding /\ pc[c] # "awaiting" /\ pc[c] \in Spending
      BY <3>1 DEF HandOver, Holding, Spending, Submitting
    <3>3. Authorized(c) /\ ~Sent(i)
      BY <3>2 DEF Inv, KeyInv, UnsentInv
    <3>4. i \in Ids /\ issued[i] # NoReceipt /\ BoundMessage(i) = m
      BY <3>3 DEF Authorized, BoundMessage
    <3>5. Bound[i] = m /\ Bound[i] # NoReceipt
      BY <1>0, <3>4, BoundType
    <3>6. wire' = Append(wire, [id |-> i, message |-> m]) /\ UNCHANGED issued
      BY <3>1 DEF HandOver
    <3>7. UNCHANGED Bound
      BY <3>6 DEF Bound
    <3>8. \A n \in 1..Len(wire) : wire[n].id # i
      BY <3>3 DEF Sent
    <3>9. OneShot!Submit(i)
      BY <3>5, <3>6, <3>7, <3>8 DEF OneShot!Submit
    <3> QED
      BY <3>4, <3>9 DEF OneShot!Next
  <2>2. ASSUME ~\E verdict \in Verdicts : HandOver(c, verdict)
        PROVE  UNCHANGED <<issued, wire>>
    BY <1>5, <2>2 DEF CallStep, Synchronous, Submission, Start, Fetch, FetchFails, GetPassword,
          Return, Decline, Authorize, ReadClock, ExpiryInvalid, OpenMarker, AlreadyUsed,
          WriteMarker, SyncDir, GuardFails, Unlink, Inspect, Consumed, CreateTransport, Answered,
          SessionFails, AnswerLost
  <2> QED
    BY <1>1, <2>1, <2>2
<1> QED
  BY <1>2, <1>3, <1>4, <1>5 DEF Next

\* The pipeline implements OneShotOutbox: whatever reaches the SMTP server was
\* previewed, is exactly what its receipt was signed for, and goes out once.
THEOREM ImplementsOneShotHolds == Spec => ImplementsOneShot
<1>1. Inv /\ [Next]_vars => [OneShot!Next]_(OneShot!vars)
  BY OneShotStep
<1> QED
  BY <1>1, OneShotInit, Invariance, PTL DEF Spec, ImplementsOneShot, OneShot!Spec
=============================================================================

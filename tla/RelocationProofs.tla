-------------------------- MODULE RelocationProofs --------------------------
(***************************************************************************)
(* What every step of Relocation preserves, whatever module the step is    *)
(* taken in and for any messages, Message-IDs and requests.  TrashProofs   *)
(* and RestoreProofs build on it.                                          *)
(***************************************************************************)
EXTENDS Relocation, FiniteSetTheorems, TLAPS

-----------------------------------------------------------------------------
(* The invariant, in parts. *)

Early == {"idle", "listing", "resolving", "labelling", "locking", "revalidating", "moving"}
Classifying == {"classifySource", "classifyDest"}
Late == Stages \ (Early \cup Classifying \cup {"done", "thrown"})

RelocationTypeOK ==
  /\ messageId \in [Msgs -> Ids \cup {NoId}]
  /\ place \in [Msgs -> Places]
  /\ moved \subseteq Msgs
  /\ pc \in Stages /\ req \in Requests /\ writeLock \in BOOLEAN
  /\ todo \subseteq Msgs /\ found \subseteq Msgs
  /\ matched \subseteq Msgs /\ missing \subseteq Msgs
  /\ changed \subseteq Msgs /\ failed \subseteq Msgs /\ uncertain \subseteq Msgs
  /\ uidMap \in [Msgs -> Msgs \cup {NoUid}] /\ located \in [Msgs -> Msgs \cup {NoUid}]

\* Nothing has happened to the mailbox, and nothing is reported, before the move.
EarlyInv ==
  pc \in Early =>
    moved = {} /\ changed = {} /\ failed = {} /\ uncertain = {} /\ todo = {} /\ found = {}

\* The report is about what was matched.
WithinInv ==
  /\ moved \subseteq matched /\ found \subseteq Identified(matched)
  /\ changed \subseteq matched /\ failed \subseteq matched /\ uncertain \subseteq matched

\* What is not in the report yet is what the loop has left.
SplitInv ==
  /\ pc = "classifySource" =>
       /\ changed = {} /\ failed = {} /\ uncertain = matched \ Identified(matched)
       /\ todo \subseteq Identified(matched)
  /\ pc = "classifyDest" =>
       todo \subseteq Identified(matched) /\ matched = changed \cup failed \cup uncertain \cup todo
  /\ pc \in Late => todo \subseteq changed /\ matched = changed \cup failed \cup uncertain
  /\ pc = "done" /\ ~req.dryRun => matched = changed \cup failed \cup uncertain

\* What was moved has left the source folder, and so has what is reported as changed,
\* unless the one message the destination showed was another with its Message-ID.
LeftInv ==
  /\ \A m \in moved : place[m] # "source"
  /\ \A m \in changed : place[m] = "source" =>
       \E k \in Msgs \ {m} : messageId[k] = messageId[m]

\* What the search saw in the source folder, though it was moved, is back there or
\* is another message with the same Message-ID.
BackInv ==
  Guarded => \A m \in (found \cup failed) \cap moved :
    place[m] = "returned" \/ \E k \in Msgs \ {m} : messageId[k] = messageId[m]

\* New uids are looked up by Message-ID.
LocatedInv ==
  /\ pc \in {"remeasuring", "reconciling"} => todo \subseteq Identified(changed)
  /\ \A m \in Msgs : located[m] # NoUid =>
       m \in Identified(changed) /\ messageId[located[m]] = messageId[m]

\* Some stages belong to some tools; a restore throws before its move only.
ToolInv ==
  /\ pc \in {"remeasuring", "issuing"} => req.tool = "trash"
  /\ pc \in {"comparing", "checkingFlags", "repairing", "storing", "relisting", "relabelling",
             "looking", "lookingAgain", "checking", "applying", "transitioning"} =>
       req.tool = "restore"
  /\ pc \in Classifying => Guarded
  /\ pc = "thrown" /\ req.tool = "restore" => moved = {}

RelocationInv ==
  /\ RelocationTypeOK
  /\ EarlyInv /\ WithinInv /\ SplitInv /\ LeftInv /\ BackInv /\ LocatedInv /\ ToolInv
-----------------------------------------------------------------------------
(* One lemma per action; the parts of the invariant the action disturbs are *)
(* steps of their own where it disturbs several.                            *)

\* Names that stand for lists of variables, stages or messages.
USE DEF mailbox, report, whereabouts, Goto, Stages, Early, Classifying, Late, Guarded, Identified

LEMMA RelocationInitially == RelocationInit => RelocationInv
BY InputAssumption
   DEF RelocationInit, RelocationInv, RelocationTypeOK, EarlyInv, WithinInv, SplitInv, LeftInv,
       BackInv, LocatedInv, ToolInv, Places

LEMMA StepToolInv == ASSUME RelocationInv PROVE req.tool \in {"move", "trash", "restore"}
BY RelocationAssumption DEF RelocationInv, RelocationTypeOK, Requests

\* Steps that only go to another stage.
LEMMA StageKeeps ==
  ASSUME RelocationInv, Start \/ List \/ Fails \/ Lock
  PROVE  RelocationInv'
BY DEF Start, List, Fails, Lock, RelocationInv, RelocationTypeOK, EarlyInv, WithinInv, SplitInv,
       LeftInv, BackInv, LocatedInv, ToolInv

\* Steps that leave all of it alone.
LEMMA UnchangedKeeps == ASSUME RelocationInv, UNCHANGED relocationVars PROVE RelocationInv'
BY DEF relocationVars, RelocationInv, RelocationTypeOK, EarlyInv, WithinInv, SplitInv, LeftInv,
       BackInv, LocatedInv, ToolInv

\* The step that ends the measuring before the move.
LEMMA LabelledKeeps ==
  ASSUME RelocationInv, pc = "labelling", pc' \in {"locking", "done", "thrown"},
         pc' = "done" => req.dryRun,
         UNCHANGED <<mailbox, moved, req, writeLock, todo, found, report, whereabouts>>
  PROVE  RelocationInv'
BY DEF RelocationInv, RelocationTypeOK, EarlyInv, WithinInv, SplitInv, LeftInv, BackInv,
       LocatedInv, ToolInv

\* Steps past the move that touch the stage and the loop alone.
LEMMA LateKeeps ==
  ASSUME RelocationInv, pc \in Late, pc' \in Late \cup {"done"}, pc' # "remeasuring",
         UNCHANGED <<mailbox, moved, req, writeLock, found, report, whereabouts>>,
         todo' \subseteq changed,
         pc' = "reconciling" => pc = "remeasuring" /\ todo' = todo,
         pc' = "issuing" => req.tool = "trash",
         pc' \in Late \ {"reconciling", "issuing"} => req.tool = "restore"
  PROVE  RelocationInv'
BY DEF RelocationInv, RelocationTypeOK, EarlyInv, WithinInv, SplitInv, LeftInv, BackInv,
       LocatedInv, ToolInv

LEMMA ResolveKeeps == ASSUME RelocationInv, Resolve PROVE RelocationInv'
BY DEF Resolve, AfterResolve, Present, Requests, RelocationInv, RelocationTypeOK, EarlyInv,
       WithinInv, SplitInv, LeftInv, BackInv, LocatedInv, ToolInv

LEMMA RevalidateKeeps == ASSUME RelocationInv, Revalidate PROVE RelocationInv'
BY DEF Revalidate, Present, RelocationInv, RelocationTypeOK, EarlyInv, WithinInv, SplitInv,
       LeftInv, BackInv, LocatedInv, ToolInv

\* The answer is that nothing of what was matched has been moved.
LEMMA RefusalKeeps ==
  ASSUME RelocationInv, RevalidateFails \/ MoveRejected
  PROVE  RelocationInv'
BY DEF RevalidateFails, MoveRejected, RelocationInv, RelocationTypeOK, EarlyInv, WithinInv,
       SplitInv, LeftInv, BackInv, LocatedInv, ToolInv

\* The server has moved some of what is in the source folder.
LEMMA RelocateLeaves ==
  ASSUME RelocationInv, NEW uids, uids \subseteq Present(matched), Relocate(uids)
  PROVE  /\ place' \in [Msgs -> Places]
         /\ moved' \subseteq matched
         /\ \A m \in moved' : place'[m] # "source"
         /\ uids = Present(matched) => \A m \in matched : place'[m] # "source"
BY DEF Relocate, Present, Places, RelocationInv, RelocationTypeOK, WithinInv, LeftInv

LEMMA MoveSucceedsKeeps ==
  ASSUME RelocationInv, NEW map \in [Msgs -> Msgs \cup {NoUid}], MoveSucceeds(map)
  PROVE  RelocationInv'
<1> USE DEF MoveSucceeds
<1>1. /\ place' \in [Msgs -> Places] /\ moved' \subseteq matched
      /\ \A m \in matched : place'[m] # "source"
  BY RelocateLeaves
<1>2. pc' = AfterMove /\ req.tool \in {"move", "trash", "restore"}
  BY StepToolInv
<1>3. uidMap' \in [Msgs -> Msgs \cup {NoUid}]
  OBVIOUS
<1>4. RelocationTypeOK'
  BY <1>1, <1>2, <1>3 DEF RelocationInv, RelocationTypeOK, AfterMove
<1>5. EarlyInv' /\ WithinInv' /\ SplitInv' /\ ToolInv'
  BY <1>1, <1>2
     DEF RelocationInv, RelocationTypeOK, EarlyInv, WithinInv, SplitInv, ToolInv, AfterMove
<1>6. LeftInv' /\ BackInv' /\ LocatedInv'
  BY <1>1, <1>2
     DEF RelocationInv, RelocationTypeOK, EarlyInv, LeftInv, BackInv, LocatedInv, AfterMove
<1> QED
  BY <1>4, <1>5, <1>6 DEF RelocationInv

LEMMA MoveThrowsKeeps ==
  ASSUME RelocationInv, NEW uids, MoveThrows(uids) \/ MoveThrowsPlain(uids)
  PROVE  RelocationInv'
<1> USE DEF MoveThrows, MoveThrowsPlain
<1>1. /\ place' \in [Msgs -> Places] /\ moved' \subseteq matched
      /\ \A m \in moved' : place'[m] # "source"
  BY RelocateLeaves
<1>2. RelocationTypeOK' /\ LeftInv' /\ BackInv' /\ LocatedInv'
  BY <1>1 DEF RelocationInv, RelocationTypeOK, EarlyInv, LeftInv, BackInv, LocatedInv
<1>3. EarlyInv' /\ WithinInv' /\ SplitInv' /\ ToolInv'
  BY <1>1 DEF RelocationInv, RelocationTypeOK, EarlyInv, WithinInv, SplitInv, ToolInv
<1> QED
  BY <1>2, <1>3 DEF RelocationInv

LEMMA SearchSourceKeeps ==
  ASSUME RelocationInv, NEW m \in Msgs, NEW heard \in BOOLEAN, SearchSource(m, heard)
  PROVE  RelocationInv'
<1> USE DEF SearchSource, Namesakes
<1>1. /\ RelocationTypeOK' /\ EarlyInv' /\ WithinInv' /\ SplitInv' /\ LeftInv' /\ LocatedInv'
      /\ ToolInv'
  BY DEF RelocationInv, RelocationTypeOK, EarlyInv, WithinInv, SplitInv, LeftInv, LocatedInv,
         ToolInv
<1>2. m \in Identified(matched) /\ matched \subseteq Msgs
  BY DEF RelocationInv, RelocationTypeOK, SplitInv
<1>3. CASE ~heard \/ InSource(messageId[m]) = {}
  <2>1. found' = found \ Namesakes(m)
    BY <1>3
  <2>2. BackInv'
    BY <2>1 DEF RelocationInv, BackInv
  <2> QED
    BY <1>1, <2>2 DEF RelocationInv
<1>4. CASE heard /\ InSource(messageId[m]) # {}
  <2>1. found' = found \cup Namesakes(m)
    BY <1>4
  <2>2. PICK s \in Msgs : place[s] \in {"source", "returned"} /\ messageId[s] = messageId[m]
    BY <1>4 DEF InSource
  <2>3. ASSUME NEW k \in Namesakes(m) \cap moved
        PROVE  place[k] = "returned" \/ \E j \in Msgs \ {k} : messageId[j] = messageId[k]
    <3>1. place[k] # "source" /\ messageId[k] = messageId[m]
      BY DEF RelocationInv, LeftInv
    <3> QED
      BY <2>2, <3>1
  <2>4. BackInv'
    BY <2>1, <2>3 DEF RelocationInv, BackInv
  <2> QED
    BY <1>1, <2>4 DEF RelocationInv
<1> QED
  BY <1>3, <1>4

LEMMA SourceSearchedKeeps == ASSUME RelocationInv, SourceSearched PROVE RelocationInv'
BY DEF SourceSearched, RelocationInv, RelocationTypeOK, EarlyInv, WithinInv, SplitInv, LeftInv,
       BackInv, LocatedInv, ToolInv

\* The one message the destination shows is not the one still in the source folder.
LEMMA OnlyInDest ==
  ASSUME NEW m \in Msgs, place[m] = "source", Cardinality(InDest(messageId[m])) = 1
  PROVE  \E k \in Msgs \ {m} : messageId[k] = messageId[m]
<1>1. InDest(messageId[m]) # {}
  BY FS_EmptySet
<1> QED
  BY <1>1 DEF InDest

LEMMA SearchDestKeeps ==
  ASSUME RelocationInv, NEW m \in Msgs, NEW heard \in BOOLEAN, SearchDest(m, heard)
  PROVE  RelocationInv'
<1> USE DEF SearchDest
<1>1. LeftInv'
  BY OnlyInDest DEF RelocationInv, LeftInv
<1>2. RelocationTypeOK' /\ EarlyInv' /\ WithinInv' /\ SplitInv'
  BY DEF RelocationInv, RelocationTypeOK, EarlyInv, WithinInv, SplitInv
<1>3. BackInv' /\ LocatedInv' /\ ToolInv'
  BY DEF RelocationInv, RelocationTypeOK, BackInv, LocatedInv, ToolInv
<1> QED
  BY <1>1, <1>2, <1>3 DEF RelocationInv

LEMMA SearchFailsKeeps == ASSUME RelocationInv, SearchFails PROVE RelocationInv'
BY DEF SearchFails, RelocationInv, RelocationTypeOK, EarlyInv, WithinInv, SplitInv, LeftInv,
       BackInv, LocatedInv, ToolInv

LEMMA ClassifiedKeeps == ASSUME RelocationInv, Classified PROVE RelocationInv'
<1> USE DEF Classified
<1>1. /\ pc' = IF changed = {} THEN "done" ELSE AfterMove
      /\ req.tool \in {"trash", "restore"}
  BY StepToolInv DEF RelocationInv, ToolInv
<1>2. RelocationTypeOK'
  BY <1>1 DEF RelocationInv, RelocationTypeOK, AfterMove
<1>3. EarlyInv' /\ WithinInv' /\ SplitInv' /\ ToolInv'
  BY <1>1 DEF RelocationInv, EarlyInv, WithinInv, SplitInv, ToolInv, AfterMove
<1>4. LeftInv' /\ BackInv' /\ LocatedInv'
  BY <1>1 DEF RelocationInv, RelocationTypeOK, LeftInv, BackInv, LocatedInv, AfterMove
<1> QED
  BY <1>2, <1>3, <1>4 DEF RelocationInv

LEMMA LookUpKeeps ==
  ASSUME RelocationInv, NEW m \in Msgs, NEW heard \in BOOLEAN,
         VerifyMapped(m) \/ SearchById(m, heard)
  PROVE  RelocationInv'
BY DEF VerifyMapped, SearchById, InDest, RelocationInv, RelocationTypeOK, EarlyInv, WithinInv,
       SplitInv, LeftInv, BackInv, LocatedInv, ToolInv

LEMMA ReconciledKeeps == ASSUME RelocationInv, Reconciled PROVE RelocationInv'
<1>1. req.tool \in {"move", "trash", "restore"}
  BY StepToolInv
<1> QED
  BY <1>1 DEF Reconciled, AfterReconcile, RelocationInv, RelocationTypeOK, EarlyInv, WithinInv,
              SplitInv, LeftInv, BackInv, LocatedInv, ToolInv

\* No one puts a message back under its old uid.
LEMMA OtherClientKeeps ==
  ASSUME RelocationInv, NEW m \in Msgs, NEW to \in Places, OtherClient(m, to)
  PROVE  RelocationInv'
<1>1. /\ place' \in [Msgs -> Places]
      /\ \A k \in Msgs : /\ place'[k] = "source" => place[k] = "source"
                         /\ place[k] = "returned" => place'[k] = "returned"
  BY DEF OtherClient, RelocationInv, RelocationTypeOK
<1> QED
  BY <1>1 DEF OtherClient, RelocationInv, RelocationTypeOK, EarlyInv, WithinInv, SplitInv, LeftInv,
              BackInv, LocatedInv, ToolInv
=============================================================================

--------------------------- MODULE RestoreProofs ---------------------------
(***************************************************************************)
(* Proofs about Restore, for any messages, Message-IDs, labels, flags,     *)
(* receipts and requests, any side effects of the move and any number of   *)
(* steps of other clients; on top of RelocationProofs.                     *)
(***************************************************************************)
EXTENDS Restore, RelocationProofs

-----------------------------------------------------------------------------
(* The inductive invariant. *)

\* Before the comparison; while a label is applied; from the first label on.
Fresh == Early \cup Classifying \cup {"reconciling"}
Applying == {"looking", "lookingAgain", "checking", "applying", "transitioning"}
LabelStages == {"relisting", "relabelling"} \cup Applying

\* The call has come to its proper end after a move: nothing else ends this way.
Finished == pc = "done" /\ changed # {} /\ ~broken

\* Nothing is compared, repaired or reported before its stage.
FreshInv ==
  /\ pc \in Fresh => \A m \in Msgs : seen[m] = {}
  /\ pc \in Fresh \cup {"comparing"} => verified = {}
  /\ pc \in Fresh \cup {"comparing", "checkingFlags"} =>
       /\ jobs = {} /\ job = NoJob /\ targets = {}
       /\ labelsFailed = {} /\ flagsFailed = {} /\ repairs = {}
  /\ broken => pc = "done"

\* Repairs of flags first, then of labels, one in progress at a time.
JobInv ==
  /\ pc = "repairing" => job = NoJob /\ jobs \subseteq Flags \X BOOLEAN
  /\ pc = "storing" => job \in jobs /\ jobs \subseteq Flags \X BOOLEAN
  /\ pc \in {"relisting", "relabelling"} => job = NoJob /\ jobs \subseteq Labels
  /\ pc \in Applying => job \in jobs /\ jobs \subseteq Labels
  /\ Finished => jobs = {}

\* A valid receipt is the baseline.
BaselineInv ==
  pc \notin {"idle", "listing", "resolving", "labelling", "done", "thrown"} \/ Finished =>
    \A m \in Msgs : PreservationSource(m) = "restoreReceipt" => original[m] = offer.receipts[m].marks

\* A message verified has a new uid, and stays there while the mailbox is calm.
VerifiedInv ==
  \A m \in verified : located[m] # NoUid /\ (calm => place[located[m]] = "dest")

\* Labels seen stay while the mailbox is calm; flags are seen when a message is verified.
SeenInv ==
  /\ calm => \A m \in changed : seen[m] \cap Labels \subseteq LabelsOf(marks, m, Labels)
  /\ \A m \in Msgs \ verified : seen[m] \cap Flags = {}
  /\ pc = "checkingFlags" =>
       /\ todo \cap verified = {}
       /\ calm => \A m \in verified : Unmistakable(m) => seen[m] \cap Flags = marks[m] \cap Flags

\* A repair is for messages that need it.
TargetInv ==
  /\ pc = "storing" => \A flag \in Flags, add \in BOOLEAN : job = <<flag, add>> =>
       targets \subseteq FlagTargets(flag, add)
  /\ pc \in Applying => targets \subseteq LabelTargets(job)

\* ... and for all of them, but for those that have failed or have the label already.
ReachInv ==
  /\ calm /\ pc = "storing" => \A flag \in Flags, add \in BOOLEAN : job = <<flag, add>> =>
       \A m \in FlagTargets(flag, add) : Unmistakable(m) => m \in targets
  /\ calm /\ pc \in Applying => \A m \in LabelTargets(job) : Unmistakable(m) =>
       \/ job \in LabelsOf(marks, m, {job})
       \/ m \in labelsFailed
       \/ m \in targets /\ pc # "transitioning"

\* A flag that is not as in the baseline is still to be repaired, or has failed.
FlagsInv ==
  /\ calm /\ pc \in {"repairing", "storing"} =>
       \A m \in verified, flag \in Flags : Unmistakable(m) /\ HasBaseline(m) =>
         \/ flag \in marks[m] <=> flag \in original[m]
         \/ m \in flagsFailed
         \/ \E add \in BOOLEAN : <<flag, add>> \in jobs /\ m \in FlagTargets(flag, add)
  /\ calm /\ (pc \in LabelStages \/ Finished) =>
       \A m \in verified : Unmistakable(m) /\ HasBaseline(m) =>
         m \in flagsFailed \/ marks[m] \cap Flags = original[m] \cap Flags

\* So is a label that is missing.
LabelsInv ==
  calm /\ (pc \in LabelStages \/ Finished) =>
    \A m \in verified : \A l \in LabelsNeeded(m) : Unmistakable(m) =>
      l \in LabelsOf(marks, m, {l}) \/ m \in labelsFailed \/ l \in jobs

\* A message that could not be verified is worth a refresh.
RefreshInv ==
  /\ pc = "comparing" => refresh \/ \A m \in changed : located[m] # NoUid
  /\ pc = "checkingFlags" => refresh \/ changed \subseteq verified \cup todo
  /\ pc \in {"repairing", "storing"} \cup LabelStages \/ Finished =>
       refresh \/ changed \subseteq verified

\* What is reported as preserved was verified, and nothing failed for it.
PreservedInv ==
  /\ preserved # {} => Finished
  /\ \A m \in preserved : /\ m \in verified \ (labelsFailed \cup flagsFailed)
                          /\ PreservationSource(m) = "restoreReceipt"

RepairInv ==
  /\ FreshInv /\ JobInv /\ BaselineInv /\ VerifiedInv /\ SeenInv /\ TargetInv /\ ReachInv
  /\ FlagsInv /\ LabelsInv /\ RefreshInv /\ PreservedInv /\ RepairKnown

Inv == TypeOK /\ RelocationInv /\ RepairInv
-----------------------------------------------------------------------------
(* What the operators of Restore return. *)

LEMMA RestoreOnly == ASSUME TypeOK PROVE req.tool = "restore"
BY RestoreAssumption DEF TypeOK, Requests

LEMMA ByNewUidWithin == ASSUME NEW ms PROVE ByNewUid(ms) \subseteq ms
BY DEF ByNewUid

LEMMA AtDestWithin == ASSUME NEW ms PROVE AtDest(ms) \subseteq ms
BY DEF AtDest

LEMMA TargetsVerified ==
  /\ \A flag, add : FlagTargets(flag, add) \subseteq verified
  /\ \A l : LabelTargets(l) \subseteq verified
BY DEF FlagTargets, LabelTargets

LEMMA LabelsOfType ==
  ASSUME NEW mk, NEW m, NEW ls
  PROVE  /\ LabelsOf(mk, m, ls) \subseteq ls
         /\ \A l \in ls : l \in LabelsOf(mk, m, ls) <=> l \in LabelsOf(mk, m, {l})
BY DEF LabelsOf

LEMMA RemarkedType ==
  ASSUME marks \in [Msgs -> SUBSET Marks], NEW ms, NEW x \in Marks, NEW add \in BOOLEAN
  PROVE  Remarked(ms, x, add) \in [Msgs -> SUBSET Marks]
BY DEF Remarked

LEMMA StoredType ==
  ASSUME TypeOK, NEW ms, ms \subseteq Msgs, NEW x \in Marks, NEW add \in BOOLEAN
  PROVE  Stored(ms, x, add) \subseteq Msgs \X Marks \X BOOLEAN
BY DEF Stored, AtDest, TypeOK

\* The Message-IDs, the request and what the caller came with never change.
LEMMA GivenKeeps ==
  ASSUME TypeOK, [Next]_vars
  PROVE  messageId' = messageId /\ req' = req /\ offer' = offer
<1> USE DEF mailbox, world, vars, relocationVars, restoreVars, settled
<1>1. CASE Relocating /\ UNCHANGED restoreVars
  BY <1>1
     DEF Relocating, Start, Fails, Lock, Revalidate, MoveRejected, SearchSource, SearchDest,
         VerifyMapped, SearchById, SourceSearched, SearchFails, Classified
<1>2. CASE ListFolders \/ ResolveMeasuring \/ ResolveBaselines \/ MovesWithSideEffects
             \/ \E l \in Labels, heard \in SUBSET Ids : SearchLabel(l, heard)
  BY <1>2
     DEF ListFolders, List, ResolveMeasuring, Resolve, ResolveBaselines, MovesWithSideEffects,
         MoveSucceeds, MoveThrows, SearchLabel
<1>3. CASE Comparing
  BY <1>3 DEF Comparing, Compare, Reconciled, SearchLabelAgain, LabelsCompared, CheckFlags,
              FlagsChecked
<1>4. CASE RepairingFlags
  BY <1>4 DEF RepairingFlags, LookForRepair, StoreFlag, StoreRejected, RepairThrows, RepairEnds,
              FlagsRepaired
<1>5. CASE Relabelling
  BY <1>5 DEF Relabelling, Relist, LabelGone, ApplyLabel, LookUp, LookedUp, CheckTargets,
              MoveToLabel, MoveToLabelFails, Transitioned, ApplyLabelThrows, LabelEnds
<1>6. CASE Finish \/ PostMoveCaught
  BY <1>6 DEF Finish, PostMoveCaught
<1>7. CASE World
  BY <1>7 DEF World, Remark, DeleteLabel, MoveElsewhere, OtherClient, Elsewhere
<1> QED
  BY <1>1, <1>2, <1>3, <1>4, <1>5, <1>6, <1>7 DEF Next, Handler
-----------------------------------------------------------------------------
(* Steps of Relocation, and types. *)

\* The steps past the comparison of the new uids.
PastMove ==
  \/ LabelsCompared \/ FlagsChecked \/ \E m \in Msgs : CheckFlags(m)
  \/ RepairingFlags \/ Relabelling \/ Finish \/ PostMoveCaught

LEMMA PastMoveKeeps == ASSUME Inv, PastMove PROVE RelocationInv'
<1> USE DEF settled, Goto
<1>0. /\ RelocationInv /\ req.tool = "restore" /\ targets \subseteq changed
  BY RestoreOnly DEF Inv, TypeOK
<1>1. pc \in Late => todo \subseteq changed
  BY DEF Inv, RelocationInv, SplitInv
<1> DEFINE Stays == {"reconciling", "comparing", "checkingFlags", "repairing", "storing",
                     "relisting", "relabelling"} \cup Applying
           Goes == (Stays \ {"reconciling"}) \cup {"done"}
<1>2. Stays \subseteq Late /\ Goes \subseteq (Late \cup {"done"}) \ {"remeasuring", "reconciling", "issuing"}
  BY DEF Late, Early, Classifying, Stages, Applying
<1>3. SUFFICES /\ pc \in Stays /\ pc' \in Goes
               /\ UNCHANGED settled /\ todo' \subseteq changed
  BY <1>0, <1>2, LateKeeps
<1> HIDE DEF Goes, Stays
<1>4. CASE LabelsCompared \/ FlagsChecked \/ \E m \in Msgs : CheckFlags(m)
  BY <1>1, <1>2, <1>4 DEF LabelsCompared, FlagsChecked, CheckFlags, Stays, Goes
<1>5. CASE RepairingFlags
  <2>1. ASSUME NEW flag, NEW add, LookForRepair(flag, add)
        PROVE  /\ pc \in Stays /\ pc' \in Goes
               /\ UNCHANGED settled /\ todo' \subseteq changed
    BY <1>1, <1>2, <2>1 DEF LookForRepair, Stays, Goes
  <2>2. ASSUME NEW flag, NEW add, NEW some,
               StoreFlag(flag, add) \/ StoreRejected(flag, add) \/ RepairThrows(flag, add, some)
        PROVE  /\ pc \in Stays /\ pc' \in Goes
               /\ UNCHANGED settled /\ todo' \subseteq changed
    BY <1>1, <1>2, <2>2 DEF StoreFlag, StoreRejected, RepairThrows, RepairEnds, Stays, Goes
  <2>3. CASE FlagsRepaired
    BY <1>1, <1>2, <2>3 DEF FlagsRepaired, Stays, Goes
  <2> QED
    BY <1>5, <2>1, <2>2, <2>3 DEF RepairingFlags
<1>6. CASE Relabelling
  <2>1. ASSUME NEW l, ApplyLabel(l)
        PROVE  /\ pc \in Stays /\ pc' \in Goes
               /\ UNCHANGED settled /\ todo' \subseteq changed
    <3>1. ByNewUid(AtDest(LabelTargets(l))) \subseteq verified /\ verified \subseteq changed
      BY ByNewUidWithin, AtDestWithin, TargetsVerified DEF Inv, TypeOK
    <3> QED
      BY <1>1, <1>2, <2>1, <3>1 DEF ApplyLabel, Stays, Goes, Applying
  <2>2. ASSUME NEW l, NEW some,
               \/ LabelGone(l) \/ ApplyLabelThrows(l)
               \/ CheckTargets \/ MoveToLabelFails(some) \/ Transitioned
        PROVE  /\ pc \in Stays /\ pc' \in Goes
               /\ UNCHANGED settled /\ todo' \subseteq changed
    BY <1>1, <1>2, <2>2
       DEF LabelGone, ApplyLabelThrows, CheckTargets, MoveToLabelFails, Transitioned, LabelEnds,
           Stays, Goes, Applying
  <2>3. CASE \/ Relist \/ LookedUp \/ MoveToLabel
             \/ \E m \in Msgs, heard \in BOOLEAN : LookUp(m, heard)
    BY <1>0, <1>1, <1>2, <2>3
       DEF Relist, LookedUp, MoveToLabel, LookUp, LabelEnds, Stays, Goes, Applying
  <2> QED
    BY <1>6, <2>1, <2>2, <2>3 DEF Relabelling
<1>7. CASE Finish \/ PostMoveCaught
  BY <1>1, <1>2, <1>7 DEF Finish, PostMoveCaught, Exposed, Stays, Goes
<1> QED
  BY <1>4, <1>5, <1>6, <1>7 DEF PastMove

LEMMA RelocationStep == ASSUME Inv, [Next]_vars PROVE RelocationInv'
<1>0. RelocationInv
  BY DEF Inv
<1>1. CASE UNCHANGED relocationVars
  BY <1>0, <1>1, UnchangedKeeps
<1>2. CASE Relocating
  BY <1>0, <1>2, StageKeeps, RevalidateKeeps, RefusalKeeps, SearchSourceKeeps,
     SourceSearchedKeeps, SearchDestKeeps, SearchFailsKeeps, ClassifiedKeeps, LookUpKeeps
     DEF Relocating
<1>3. CASE ListFolders \/ ResolveMeasuring \/ MovesWithSideEffects \/ Compare
  BY <1>0, <1>3, StageKeeps, ResolveKeeps, MoveSucceedsKeeps, MoveThrowsKeeps, ReconciledKeeps
     DEF ListFolders, ResolveMeasuring, MovesWithSideEffects, Compare
<1>4. CASE ResolveBaselines
  BY <1>0, <1>4, LabelledKeeps DEF ResolveBaselines, Goto, settled
<1>5. CASE PastMove
  BY <1>5, PastMoveKeeps
<1>6. ASSUME NEW m \in Msgs, NEW to \in Places, MoveElsewhere(m, to) PROVE RelocationInv'
  BY <1>0, <1>6, OtherClientKeeps DEF MoveElsewhere
<1> QED
  BY <1>1, <1>2, <1>3, <1>4, <1>5, <1>6
     DEF Next, Handler, World, Comparing, PastMove, SearchLabel, SearchLabelAgain, Remark,
         DeleteLabel, vars, relocationVars

\* The types of what Restore adds.
RestoreTypeOK ==
  /\ marks \in [Msgs -> SUBSET Marks] /\ labelFolders \subseteq Labels /\ offer \in Offers
  /\ listed \subseteq Labels /\ labelsLeft \subseteq Labels
  /\ original \in [Msgs -> SUBSET Marks] /\ seen \in [Msgs -> SUBSET Marks]
  /\ verified \subseteq changed /\ preserved \subseteq verified
  /\ jobs \subseteq Labels \cup (Flags \X BOOLEAN)
  /\ job \in jobs \cup {NoJob} /\ targets \subseteq verified
  /\ labelsFailed \subseteq changed /\ flagsFailed \subseteq verified
  /\ refresh \in BOOLEAN /\ broken \in BOOLEAN
  /\ repairs \subseteq Msgs \X Marks \X BOOLEAN
  /\ others \in 0 .. MaxOthers /\ calm \in BOOLEAN

LEMMA TypeOfRest == ASSUME TypeOK PROVE RestoreTypeOK
BY DEF RestoreTypeOK, TypeOK

\* The steps before the comparison, but for those of other clients.
UpToMove ==
  \/ Relocating /\ UNCHANGED restoreVars
  \/ ListFolders \/ ResolveMeasuring \/ ResolveBaselines \/ MovesWithSideEffects
  \/ \E l \in Labels, heard \in SUBSET Ids : SearchLabel(l, heard)

LEMMA UpToMoveFresh ==
  ASSUME Inv, UpToMove
  PROVE  /\ pc \in Fresh /\ pc' \in Fresh \cup {"done", "thrown"}
         /\ pc' = "done" => changed' = {}
         /\ UNCHANGED <<world, seen, verified, work, outcome, repairs>>
<1> USE DEF restoreVars, measured, Goto, settled, Fresh, Early, Classifying
<1>0. req.tool = "restore" /\ (pc \in Early => changed = {})
  BY RestoreOnly DEF Inv, RelocationInv, EarlyInv
<1>1. CASE Relocating /\ UNCHANGED restoreVars
  BY <1>0, <1>1
     DEF Relocating, Start, Fails, Lock, Revalidate, MoveRejected, SearchSource, SearchDest,
         VerifyMapped, SearchById, SourceSearched, SearchFails, Classified, AfterMove, report,
         Inv, RelocationInv, ToolInv
<1>2. CASE ListFolders \/ ResolveMeasuring
  BY <1>0, <1>2 DEF ListFolders, List, ResolveMeasuring, Resolve, AfterResolve, Guarded
<1>3. CASE ResolveBaselines \/ \E l \in Labels, heard \in SUBSET Ids : SearchLabel(l, heard)
  BY <1>0, <1>3 DEF ResolveBaselines, SearchLabel, relocationVars, report
<1>4. CASE MovesWithSideEffects
  BY <1>0, <1>4 DEF MovesWithSideEffects, MoveSucceeds, MoveThrows, AfterMove
<1> QED
  BY <1>1, <1>2, <1>3, <1>4 DEF UpToMove

LEMMA UpToMoveTypes == ASSUME Inv, UpToMove PROVE RestoreTypeOK'
<1> USE DEF Inv, RepairInv, TypeOK
<1>1. /\ marks' \in [Msgs -> SUBSET Marks] /\ original' \in [Msgs -> SUBSET Marks]
      /\ listed' \subseteq Labels /\ labelsLeft' \subseteq Labels
  <2>1. CASE Relocating /\ UNCHANGED restoreVars
    BY <2>1 DEF restoreVars, measured
  <2>2. CASE ListFolders
    BY <2>2 DEF ListFolders
  <2>3. CASE ResolveMeasuring
    BY <2>3 DEF ResolveMeasuring, Marks
  <2>4. ASSUME NEW l \in Labels, NEW heard \in SUBSET Ids, SearchLabel(l, heard)
        PROVE  /\ marks' \in [Msgs -> SUBSET Marks] /\ original' \in [Msgs -> SUBSET Marks]
               /\ listed' \subseteq Labels /\ labelsLeft' \subseteq Labels
    <3>1. \A m : LabelsOf(marks, m, {l}) \subseteq Marks
      BY LabelsOfType DEF Marks
    <3> QED
      BY <2>4, <3>1 DEF SearchLabel
  <2>5. CASE ResolveBaselines
    <3>1. ASSUME NEW m \in Msgs, PreservationSource(m) = "restoreReceipt"
          PROVE  offer.receipts[m].marks \in SUBSET Marks
      <4>1. offer.receipts \in [Msgs -> Receipts \cup {NoReceipt}] /\ offer.receipts[m] # NoReceipt
        BY <3>1, RestoreAssumption DEF PreservationSource
      <4> QED
        BY <4>1 DEF Receipts
    <3>2. original' \in [Msgs -> SUBSET Marks]
      BY <2>5, <3>1 DEF ResolveBaselines
    <3> QED
      BY <2>5, <3>2 DEF ResolveBaselines
  <2>6. CASE MovesWithSideEffects
    <3>1. PICK mk \in [moved' \ moved -> SUBSET Marks] :
            marks' = [m \in Msgs |-> IF m \in moved' \ moved THEN mk[m] ELSE marks[m]]
      BY <2>6 DEF MovesWithSideEffects
    <3> QED
      BY <2>6, <3>1 DEF MovesWithSideEffects, measured
  <2> QED
    BY <2>1, <2>2, <2>3, <2>4, <2>5, <2>6 DEF UpToMove
<1> QED
  BY <1>1, UpToMoveFresh DEF RestoreTypeOK, FreshInv, world, work, outcome

LEMMA ComparingTypes == ASSUME Inv, Comparing PROVE RestoreTypeOK'
<1> USE DEF Inv, RepairInv, TypeOK, RestoreTypeOK, settled, report, world, measured, work, outcome
<1>1. CASE Compare
  BY <1>1 DEF Compare, Reconciled
<1>2. ASSUME NEW l \in Labels, NEW heard \in SUBSET Ids, SearchLabelAgain(l, heard)
      PROVE  RestoreTypeOK'
  <2>1. \A m : LabelsOf(marks, m, {l}) \subseteq Marks
    BY LabelsOfType DEF Marks
  <2> QED
    BY <1>2, <2>1 DEF SearchLabelAgain, relocationVars
<1>3. CASE LabelsCompared
  BY <1>3 DEF LabelsCompared, restoreVars
<1>4. ASSUME NEW m \in Msgs, CheckFlags(m) PROVE RestoreTypeOK'
  <2>1. m \in changed
    BY <1>4 DEF CheckFlags, RelocationInv, SplitInv, Late, Early, Classifying, Stages
  <2>2. located[m] # NoUid => marks[located[m]] \subseteq Marks
    OBVIOUS
  <2>3. m \in AtDest({m}) => located[m] # NoUid
    BY DEF AtDest
  <2>4. seen' \in [Msgs -> SUBSET Marks] /\ verified' \subseteq changed /\ verified \subseteq verified'
    BY <1>4, <2>1, <2>2, <2>3 DEF CheckFlags
  <2> QED
    BY <1>4, <2>4 DEF CheckFlags
<1>5. CASE FlagsChecked
  BY <1>5 DEF FlagsChecked, FreshInv
<1> QED
  BY <1>1, <1>2, <1>3, <1>4, <1>5 DEF Comparing

LEMMA RepairTypes ==
  ASSUME Inv, NEW x \in Marks, NEW add \in BOOLEAN, NEW some, some \subseteq verified,
         marks' = Remarked(some, x, add), repairs' = repairs \cup Stored(some, x, add)
  PROVE  marks' \in [Msgs -> SUBSET Marks] /\ repairs' \subseteq Msgs \X Marks \X BOOLEAN
<1>1. some \subseteq Msgs
  BY DEF Inv, TypeOK
<1> QED
  BY <1>1, RemarkedType, StoredType DEF Inv, TypeOK

LEMMA RepairingTypes == ASSUME Inv, RepairingFlags PROVE RestoreTypeOK'
<1> USE DEF Inv, RepairInv, TypeOK, RestoreTypeOK, settled, report, world, measured, work, outcome
<1>0. /\ Flags \subseteq Marks
      /\ \A flag, add : FlagTargets(flag, add) \subseteq verified
  BY TargetsVerified DEF Marks
<1>1. ASSUME NEW flag \in Flags, NEW add \in BOOLEAN, LookForRepair(flag, add)
      PROVE  RestoreTypeOK'
  <2> DEFINE there == AtDest(FlagTargets(flag, add))
  <2>1. /\ ByNewUid(there) \subseteq verified
        /\ ByNewUid(FlagTargets(flag, add) \ there) \subseteq verified
    BY <1>0, ByNewUidWithin, AtDestWithin
  <2>2. jobs' \subseteq jobs /\ job' \in jobs' \cup {NoJob}
    BY <1>1 DEF LookForRepair, JobInv
  <2>3. targets' \subseteq verified /\ flagsFailed' \subseteq verified
    BY <1>1, <2>1 DEF LookForRepair
  <2> QED
    BY <1>1, <2>2, <2>3 DEF LookForRepair
<1>2. ASSUME NEW flag \in Flags, NEW add \in BOOLEAN, StoreFlag(flag, add)
      PROVE  RestoreTypeOK'
  <2>1. marks' \in [Msgs -> SUBSET Marks] /\ repairs' \subseteq Msgs \X Marks \X BOOLEAN
    BY <1>0, <1>2, RepairTypes DEF StoreFlag
  <2> QED
    BY <1>2, <2>1 DEF StoreFlag, RepairEnds
<1>3. ASSUME NEW flag \in Flags, NEW add \in BOOLEAN, StoreRejected(flag, add)
      PROVE  RestoreTypeOK'
  BY <1>3 DEF StoreRejected, RepairEnds
<1>4. ASSUME NEW flag \in Flags, NEW add \in BOOLEAN, NEW some, RepairThrows(flag, add, some)
      PROVE  RestoreTypeOK'
  <2>1. marks' \in [Msgs -> SUBSET Marks] /\ repairs' \subseteq Msgs \X Marks \X BOOLEAN
    BY <1>0, <1>4, RepairTypes DEF RepairThrows
  <2> QED
    BY <1>0, <1>4, <2>1 DEF RepairThrows, RepairEnds
<1>5. CASE FlagsRepaired
  BY <1>5 DEF FlagsRepaired, JobInv
<1> QED
  BY <1>1, <1>2, <1>3, <1>4, <1>5 DEF RepairingFlags

LEMMA LabelEndsTypes ==
  ASSUME Inv, NEW l, NEW failures, failures \subseteq verified, LabelEnds(l, failures),
         UNCHANGED <<marks, repairs>>
         \/ /\ marks' \in [Msgs -> SUBSET Marks]
            /\ repairs' \subseteq Msgs \X Marks \X BOOLEAN
  PROVE  RestoreTypeOK'
BY DEF LabelEnds, Inv, TypeOK, RestoreTypeOK, settled, report, world, measured

LEMMA RelabellingTypes == ASSUME Inv, Relabelling PROVE RestoreTypeOK'
<1> USE DEF Inv, RepairInv, TypeOK, RestoreTypeOK, settled, report, world, measured, work, outcome
<1>0. /\ Labels \subseteq Marks
      /\ \A l : LabelTargets(l) \subseteq verified
      /\ pc \in Applying => job \in Labels
  BY TargetsVerified DEF Marks, JobInv
<1>1. CASE Relist
  BY <1>1 DEF Relist
<1>2. ASSUME NEW l \in Labels, ApplyLabel(l) PROVE RestoreTypeOK'
  <2> DEFINE there == AtDest(LabelTargets(l))
  <2>1. ByNewUid(there) \subseteq verified /\ ByNewUid(LabelTargets(l) \ there) \subseteq verified
    BY <1>0, ByNewUidWithin, AtDestWithin
  <2> QED
    BY <1>2, <2>1 DEF ApplyLabel
<1>3. ASSUME NEW l \in Labels, LabelGone(l) \/ ApplyLabelThrows(l) PROVE RestoreTypeOK'
  BY <1>0, <1>3, LabelEndsTypes DEF LabelGone, ApplyLabelThrows
<1>4. ASSUME NEW m \in Msgs, NEW heard \in BOOLEAN, LookUp(m, heard) PROVE RestoreTypeOK'
  BY <1>4 DEF LookUp
<1>5. CASE LookedUp
  <2>1. CASE LabelEnds(job, {})
    BY <1>5, <2>1, LabelEndsTypes DEF LookedUp
  <2> QED
    BY <1>5, <2>1 DEF LookedUp
<1>6. CASE CheckTargets
  <2>1. CASE LabelEnds(job, targets)
    BY <1>6, <2>1, LabelEndsTypes DEF CheckTargets
  <2> QED
    BY <1>6, <2>1, AtDestWithin DEF CheckTargets
<1>7. CASE MoveToLabel
  <2>1. marks' \in [Msgs -> SUBSET Marks] /\ repairs' \subseteq Msgs \X Marks \X BOOLEAN
    BY <1>0, <1>7, RepairTypes DEF MoveToLabel, Applying
  <2> QED
    BY <1>7, <2>1 DEF MoveToLabel
<1>8. ASSUME NEW some, MoveToLabelFails(some) PROVE RestoreTypeOK'
  <2>1. marks' \in [Msgs -> SUBSET Marks] /\ repairs' \subseteq Msgs \X Marks \X BOOLEAN
    BY <1>0, <1>8, RepairTypes DEF MoveToLabelFails, Applying
  <2> QED
    BY <1>8, <2>1, LabelEndsTypes DEF MoveToLabelFails
<1>9. CASE Transitioned
  BY <1>9, LabelEndsTypes DEF Transitioned
<1> QED
  BY <1>1, <1>2, <1>3, <1>4, <1>5, <1>6, <1>7, <1>8, <1>9 DEF Relabelling

LEMMA EndTypes == ASSUME Inv, Finish \/ PostMoveCaught PROVE RestoreTypeOK'
BY DEF Finish, PostMoveCaught, Inv, TypeOK, RestoreTypeOK, settled, report, world, measured, work,
       outcome

LEMMA WorldTypes == ASSUME Inv, World PROVE RestoreTypeOK'
<1> USE DEF Inv, RepairInv, TypeOK, RestoreTypeOK, Elsewhere, measured, work, outcome
<1>1. ASSUME NEW m \in Msgs, NEW x \in Marks, Remark(m, x) PROVE RestoreTypeOK'
  BY <1>1, RestoreAssumption DEF Remark, relocationVars, Marks
<1>2. ASSUME NEW l \in Labels, DeleteLabel(l) PROVE RestoreTypeOK'
  BY <1>2, RestoreAssumption DEF DeleteLabel, relocationVars
<1>3. ASSUME NEW m \in Msgs, NEW to \in Places, MoveElsewhere(m, to) PROVE RestoreTypeOK'
  BY <1>3, RestoreAssumption DEF MoveElsewhere, OtherClient, report
<1> QED
  BY <1>1, <1>2, <1>3 DEF World

LEMMA TypeStep == ASSUME Inv, [Next]_vars PROVE TypeOK'
<1>1. RelocationInv'
  BY RelocationStep
<1>2. CASE UNCHANGED vars
  BY <1>2, TypeOfRest
     DEF Inv, TypeOK, vars, relocationVars, restoreVars, world, measured, work, outcome
<1>3. RestoreTypeOK' => TypeOK'
  BY <1>1
     DEF RelocationInv, RelocationTypeOK, WithinInv, RestoreTypeOK, TypeOK
<1> QED
  BY <1>2, <1>3, UpToMoveTypes, ComparingTypes, RepairingTypes, RelabellingTypes, EndTypes,
     WorldTypes
     DEF Next, Handler, UpToMove
-----------------------------------------------------------------------------
(* Repairs: up to the move, and what others do. *)

\* The verdict on a receipt and on a Message-ID stays.
LEMMA VerdictKeeps ==
  ASSUME TypeOK, [Next]_vars, NEW m
  PROVE  /\ PreservationSource(m)' = PreservationSource(m)
         /\ HasBaseline(m)' <=> HasBaseline(m)
         /\ Unmistakable(m)' <=> Unmistakable(m)
BY GivenKeeps DEF PreservationSource, ReceiptValid, HasBaseline, Unmistakable

LEMMA BaselineStep == ASSUME Inv, UpToMove PROVE BaselineInv'
<1>1. [Next]_vars /\ TypeOK /\ BaselineInv
  BY DEF UpToMove, Next, Handler, Inv, RepairInv
<1>2. \A m : PreservationSource(m)' = PreservationSource(m)
  BY <1>1, VerdictKeeps
<1>3. offer' = offer /\ ~Finished'
  BY UpToMoveFresh DEF world, Finished
<1>4. CASE original' = original /\ pc \notin {"idle", "listing", "resolving", "labelling"}
  <2>1. pc \notin {"done", "thrown"}
    BY UpToMoveFresh DEF Fresh, Early, Classifying
  <2> QED
    BY <1>1, <1>2, <1>3, <1>4, <2>1 DEF BaselineInv
<1>5. CASE pc' \in {"listing", "resolving", "labelling", "done", "thrown"}
  BY <1>3, <1>5 DEF BaselineInv
<1>6. CASE ResolveBaselines
  <2>1. ASSUME NEW m \in Msgs, PreservationSource(m) = "restoreReceipt"
        PROVE  original'[m] = offer.receipts[m].marks
    BY <1>6, <2>1 DEF ResolveBaselines
  <2> QED
    BY <1>2, <1>3, <2>1 DEF BaselineInv
<1>7. CASE Relocating /\ UNCHANGED restoreVars
  BY <1>4, <1>5, <1>7
     DEF Relocating, Start, Fails, Lock, Revalidate, MoveRejected, SearchSource, SearchDest,
         VerifyMapped, SearchById, SourceSearched, SearchFails, Classified, Goto, restoreVars,
         measured
<1>8. CASE \/ ListFolders \/ ResolveMeasuring
           \/ \E l \in Labels, heard \in SUBSET Ids : SearchLabel(l, heard)
  <2>1. AfterResolve = "labelling"
    BY RestoreOnly DEF AfterResolve, Guarded, Inv
  <2> QED
    BY <1>5, <1>8, <2>1
       DEF ListFolders, List, ResolveMeasuring, Resolve, SearchLabel, Goto, relocationVars
<1>9. CASE MovesWithSideEffects
  BY <1>4, <1>9 DEF MovesWithSideEffects, MoveSucceeds, MoveThrows, measured
<1> QED
  BY <1>6, <1>7, <1>8, <1>9 DEF UpToMove

\* Up to the move all that concerns repairs is empty.
LEMMA UpToMoveRepairs == ASSUME Inv, UpToMove PROVE RepairInv'
<1>1. /\ pc \in Fresh /\ pc' \in Fresh \cup {"done", "thrown"} /\ ~Finished'
      /\ UNCHANGED <<world, seen, verified, work, outcome, repairs>>
  BY UpToMoveFresh DEF Finished
<1>2. /\ \A m \in Msgs : seen[m] = {}
      /\ verified = {} /\ jobs = {} /\ job = NoJob /\ targets = {}
      /\ labelsFailed = {} /\ flagsFailed = {} /\ repairs = {} /\ preserved = {} /\ ~broken
  BY <1>1
     DEF Inv, RepairInv, FreshInv, PreservedInv, Finished, Fresh, Early, Classifying
<1>3. changed' \subseteq Msgs
  BY RelocationStep DEF UpToMove, Next, Handler, RelocationInv, RelocationTypeOK
<1>4. FreshInv' /\ JobInv' /\ TargetInv' /\ ReachInv' /\ RefreshInv'
  BY <1>1, <1>2
     DEF FreshInv, JobInv, TargetInv, ReachInv, RefreshInv, Fresh, Early, Classifying, Applying,
         LabelStages, work, outcome
<1>5. VerifiedInv' /\ SeenInv' /\ FlagsInv' /\ LabelsInv' /\ PreservedInv' /\ RepairKnown'
  BY <1>1, <1>2, <1>3
     DEF VerifiedInv, SeenInv, FlagsInv, LabelsInv, PreservedInv, RepairKnown, Fresh, Early,
         Classifying, Applying, LabelStages, work, outcome
<1> QED
  BY <1>4, <1>5, BaselineStep DEF RepairInv

\* Once the move has begun, any step of others ends the calm.
LEMMA WorldRepairs == ASSUME Inv, World PROVE RepairInv'
<1>0. [Next]_vars /\ TypeOK
  BY DEF Next, Inv
<1>1. /\ pc' = pc /\ pc \notin {"done", "thrown"}
      /\ UNCHANGED <<measured, work, outcome, repairs, changed, located, todo, offer, messageId>>
      /\ calm' = (calm /\ BeforeMove)
  BY DEF World, Remark, DeleteLabel, MoveElsewhere, OtherClient, Elsewhere, Running,
         relocationVars, report, whereabouts
<1>2. BeforeMove => pc \in Fresh
  BY DEF BeforeMove, Fresh, Early
<1> USE DEF measured, work, outcome
<1>3. /\ \A m : (PreservationSource(m)' = PreservationSource(m))
      /\ \A m : HasBaseline(m)' <=> HasBaseline(m)
  BY <1>0, VerdictKeeps
<1>4. FreshInv' /\ JobInv' /\ RefreshInv' /\ PreservedInv'
  BY <1>1, <1>3
     DEF Inv, RepairInv, FreshInv, JobInv, RefreshInv, PreservedInv, Finished
<1>5. BaselineInv' /\ RepairKnown'
  BY <1>1, <1>3 DEF Inv, RepairInv, BaselineInv, RepairKnown, Finished
<1>6. TargetInv'
  BY <1>1, <1>3
     DEF Inv, RepairInv, TargetInv, FlagTargets, LabelTargets, LabelsNeeded, LabelsMissing
<1>7. VerifiedInv' /\ SeenInv' /\ ReachInv' /\ FlagsInv' /\ LabelsInv'
  <2>1. CASE BeforeMove
    <3>1. verified = {} /\ (\A m \in Msgs : seen[m] = {}) /\ changed \subseteq Msgs
      BY <1>2, <2>1 DEF Inv, TypeOK, RepairInv, FreshInv
    <3> QED
      BY <1>1, <1>2, <2>1, <3>1
         DEF VerifiedInv, SeenInv, ReachInv, FlagsInv, LabelsInv, Fresh, Early, Classifying,
             Applying, LabelStages, Finished
  <2>2. CASE ~BeforeMove
    BY <1>1, <2>2 DEF Inv, RepairInv, VerifiedInv, SeenInv, ReachInv, FlagsInv, LabelsInv
  <2> QED
    BY <2>1, <2>2
<1> QED
  BY <1>4, <1>5, <1>6, <1>7 DEF RepairInv
-----------------------------------------------------------------------------
(* Repairs: the comparison. *)

\* A message no other can be mistaken for is found under its own new uid only.
LEMMA LocatedOne ==
  ASSUME Inv, NEW m \in Msgs, located[m] # NoUid, Unmistakable(m)
  PROVE  /\ located[m] = m /\ messageId[m] # NoId
         /\ \A k \in Msgs : located[k] = m => k = m
<1>1. \A k \in Msgs : located[k] # NoUid =>
        located[k] \in Msgs /\ messageId[k] # NoId /\ messageId[located[k]] = messageId[k]
  BY DEF Inv, TypeOK, RelocationInv, LocatedInv, Identified
<1> QED
  BY <1>1, RelocationAssumption DEF Unmistakable

\* While messages are compared there is nothing to repair yet.
LEMMA ComparingQuiet ==
  ASSUME Inv, [Next]_vars,
         pc \in {"reconciling", "comparing", "checkingFlags"}, pc' \in {"comparing", "checkingFlags"},
         UNCHANGED <<original, work, labelsFailed, flagsFailed, broken, preserved, repairs>>
  PROVE  /\ jobs' = {} /\ job' = NoJob /\ targets' = {}
         /\ labelsFailed' = {} /\ flagsFailed' = {} /\ repairs' = {} /\ ~broken'
         /\ JobInv' /\ BaselineInv' /\ TargetInv' /\ ReachInv' /\ FlagsInv' /\ LabelsInv'
         /\ PreservedInv' /\ RepairKnown'
<1> USE DEF Inv, RepairInv, work
<1>1. jobs = {} /\ job = NoJob /\ targets = {} /\ labelsFailed = {} /\ flagsFailed = {}
      /\ repairs = {} /\ preserved = {} /\ ~broken
  BY DEF FreshInv, PreservedInv, Fresh, Finished
<1>2. /\ \A m : (PreservationSource(m)' = PreservationSource(m))
      /\ offer' = offer
  BY VerdictKeeps, GivenKeeps
<1>3. BaselineInv'
  BY <1>2 DEF BaselineInv
<1>4. JobInv' /\ TargetInv' /\ ReachInv' /\ FlagsInv' /\ LabelsInv' /\ PreservedInv' /\ RepairKnown'
  BY <1>1
     DEF JobInv, TargetInv, ReachInv, FlagsInv, LabelsInv, PreservedInv, RepairKnown, Applying,
         LabelStages, Finished
<1> QED
  BY <1>1, <1>3, <1>4

LEMMA SearchLabelAgainSees ==
  ASSUME Inv, NEW l \in Labels, NEW heard \in SUBSET Ids, SearchLabelAgain(l, heard)
  PROVE  SeenInv'
<1> USE DEF Inv, RepairInv, TypeOK
<1>1. /\ pc = "comparing"
      /\ UNCHANGED <<relocationVars, marks, calm, verified>>
      /\ seen' = [m \in Msgs |-> seen[m] \cup IF m \in changed /\ messageId[m] \in heard
                                                THEN LabelsOf(marks, m, {l}) ELSE {}]
  BY DEF SearchLabelAgain, world
<1>2. \A m : LabelsOf(marks, m, Labels)' = LabelsOf(marks, m, Labels)
  BY <1>1 DEF LabelsOf, relocationVars
<1>3. ASSUME calm, NEW m \in changed
      PROVE  seen'[m] \cap Labels \subseteq LabelsOf(marks, m, Labels)
  <2>1. LabelsOf(marks, m, {l}) \subseteq LabelsOf(marks, m, Labels)
    BY DEF LabelsOf
  <2> QED
    BY <1>1, <1>3, <2>1 DEF SeenInv
<1>4. ASSUME NEW m \in Msgs \ verified PROVE seen'[m] \cap Flags = {}
  <2>1. LabelsOf(marks, m, {l}) \cap Flags = {}
    BY LabelsOfType, RestoreAssumption
  <2> QED
    BY <1>1, <2>1 DEF SeenInv
<1>5. UNCHANGED <<pc, changed, verified, calm>>
  BY <1>1 DEF relocationVars
<1>6. pc' # "checkingFlags"
  BY <1>1, <1>5
<1> QED
  BY ONLY <1>2, <1>3, <1>4, <1>5, <1>6 DEF SeenInv

LEMMA CheckFlagsSees ==
  ASSUME Inv, NEW m \in Msgs, CheckFlags(m)
  PROVE  VerifiedInv' /\ SeenInv' /\ RefreshInv'
<1> USE DEF Inv, RepairInv, TypeOK
<1>1. /\ pc = "checkingFlags" /\ pc' = pc /\ m \in todo /\ todo' = todo \ {m} /\ m \notin verified
      /\ UNCHANGED <<messageId, place, located, changed, marks, calm>>
  BY DEF CheckFlags, SeenInv, settled, mailbox, report, whereabouts, world
<1>2. \A k : /\ LabelsOf(marks, k, Labels)' = LabelsOf(marks, k, Labels)
             /\ Unmistakable(k)' <=> Unmistakable(k)
  BY <1>1 DEF LabelsOf, Unmistakable
<1>3. CASE m \notin AtDest({m})
  <2>1. UNCHANGED <<verified, seen>> /\ refresh' = TRUE
    BY <1>3 DEF CheckFlags
  <2> QED
    BY <1>1, <1>2, <2>1 DEF VerifiedInv, SeenInv, RefreshInv, LabelStages, Applying, Finished
<1>4. CASE m \in AtDest({m})
  <2>1. /\ verified' = verified \cup {m} /\ refresh' = refresh
        /\ seen' = [seen EXCEPT ![m] = @ \cup (marks[located[m]] \cap Flags)]
        /\ located[m] # NoUid /\ place[located[m]] = "dest"
    BY <1>4 DEF CheckFlags, AtDest
  <2>2. VerifiedInv' /\ RefreshInv'
    BY <1>1, <2>1 DEF VerifiedInv, RefreshInv, LabelStages, Applying, Finished
  <2>3. seen'[m] \cap Labels = seen[m] \cap Labels /\ \A k \in Msgs \ {m} : seen'[k] = seen[k]
    BY <2>1, RestoreAssumption
  <2>4. Unmistakable(m) => seen'[m] \cap Flags = marks[m] \cap Flags
    BY <1>1, <2>1, LocatedOne DEF SeenInv
  <2> QED
    BY <1>1, <1>2, <2>1, <2>2, <2>3, <2>4 DEF SeenInv
<1> QED
  BY <1>3, <1>4

\* A flag that is not as in the baseline becomes a repair to do.
LEMMA FlagsCheckedPlans == ASSUME Inv, FlagsChecked PROVE FlagsInv'
<1> USE DEF Inv, RepairInv, TypeOK
<1>1. /\ pc = "checkingFlags" /\ pc' = "repairing" /\ todo = {}
      /\ jobs' = {g \in Flags \X BOOLEAN : FlagTargets(g[1], g[2]) # {}}
      /\ UNCHANGED <<messageId, req, offer, calm, marks, original, seen, verified, flagsFailed>>
  BY DEF FlagsChecked, Goto, settled, mailbox, world, measured, outcome
<1>2. ASSUME calm, NEW m \in verified, NEW flag \in Flags, Unmistakable(m), HasBaseline(m),
             ~(flag \in marks[m] <=> flag \in original[m])
      PROVE  \E add \in BOOLEAN : <<flag, add>> \in jobs' /\ m \in FlagTargets(flag, add)
  <2>1. seen[m] \cap Flags = marks[m] \cap Flags
    BY <1>1, <1>2 DEF SeenInv
  <2>2. CASE flag \in original[m]
    <3>1. m \in FlagTargets(flag, TRUE)
      BY <1>2, <2>1, <2>2 DEF FlagTargets
    <3>2. <<flag, TRUE>> \in jobs'
      BY <1>1, <3>1
    <3> QED
      BY <3>1, <3>2
  <2>3. CASE flag \notin original[m]
    <3>1. m \in FlagTargets(flag, FALSE)
      BY <1>2, <2>1, <2>3 DEF FlagTargets
    <3>2. <<flag, FALSE>> \in jobs'
      BY <1>1, <3>1
    <3> QED
      BY <3>1, <3>2
  <2> QED
    BY <2>2, <2>3
<1>3. \A m : /\ HasBaseline(m)' <=> HasBaseline(m)
             /\ Unmistakable(m)' <=> Unmistakable(m)
             /\ \A flag, add : FlagTargets(flag, add)' = FlagTargets(flag, add)
  BY <1>1
     DEF HasBaseline, PreservationSource, ReceiptValid, Unmistakable, FlagTargets
<1>4. /\ pc' \notin LabelStages /\ ~Finished'
      /\ UNCHANGED <<calm, marks, original, verified, flagsFailed>>
  BY <1>1 DEF LabelStages, Applying, Finished
<1> QED
  BY ONLY <1>2, <1>3, <1>4 DEF FlagsInv

LEMMA ComparingRepairs == ASSUME Inv, Comparing PROVE RepairInv'
<1>0. [Next]_vars /\ TypeOK /\ RepairInv
  BY DEF Next, Handler, Inv
<1> USE DEF RepairInv
<1>1. CASE Compare
  <2>1. /\ pc = "reconciling" /\ pc' = "comparing"
        /\ UNCHANGED <<messageId, marks, located, changed, place, calm, original, seen, verified,
                       work, labelsFailed, flagsFailed, broken, preserved, repairs>>
        /\ refresh' = \E m \in changed : located[m] = NoUid
    BY <1>1, RestoreOnly
       DEF Compare, Reconciled, AfterReconcile, Goto, Inv, mailbox, report, whereabouts, world,
           RelocationInv, ToolInv
  <2>2. verified = {} /\ \A m \in Msgs : seen[m] = {}
    BY <1>0, <2>1 DEF FreshInv, Fresh
  <2>3. VerifiedInv' /\ SeenInv' /\ RefreshInv'
    BY <1>0, <2>1, <2>2
       DEF VerifiedInv, SeenInv, RefreshInv, LabelStages, Applying, Finished, TypeOK
  <2>4. FreshInv'
    BY <2>1, <2>2, <1>0, ComparingQuiet DEF FreshInv, Fresh, Early, Classifying
  <2> QED
    BY <1>0, <2>1, <2>3, <2>4, ComparingQuiet
<1>2. ASSUME NEW l \in Labels, NEW heard \in SUBSET Ids, SearchLabelAgain(l, heard)
      PROVE  RepairInv'
  <2>1. /\ pc = "comparing" /\ pc' = "comparing"
        /\ UNCHANGED <<located, changed, place, calm, original, verified, refresh,
                       work, labelsFailed, flagsFailed, broken, preserved, repairs>>
    BY <1>2 DEF SearchLabelAgain, relocationVars, world, outcome
  <2>2. FreshInv' /\ VerifiedInv' /\ RefreshInv'
    BY <1>0, <2>1, ComparingQuiet
       DEF FreshInv, VerifiedInv, RefreshInv, Fresh, Early, Classifying, LabelStages, Applying,
           Finished
  <2> QED
    BY <1>0, <1>2, <2>1, <2>2, ComparingQuiet, SearchLabelAgainSees
<1>3. CASE LabelsCompared
  <2>1. /\ pc = "comparing" /\ pc' = "checkingFlags"
        /\ todo' = {m \in changed : located[m] # NoUid}
        /\ UNCHANGED <<messageId, located, changed, place, calm, original, seen, verified, refresh,
                       marks, work, labelsFailed, flagsFailed, broken, preserved, repairs>>
    BY <1>3 DEF LabelsCompared, restoreVars, world, measured, outcome, settled, mailbox, report,
                whereabouts, Goto
  <2>2. verified = {}
    BY <1>0, <2>1 DEF FreshInv
  <2>3. FreshInv' /\ VerifiedInv' /\ RefreshInv'
    BY <1>0, <2>1, <2>2, ComparingQuiet
       DEF FreshInv, VerifiedInv, RefreshInv, Fresh, Early, Classifying, LabelStages, Applying,
           Finished
  <2>4. SeenInv'
    BY <1>0, <2>1, <2>2 DEF SeenInv, LabelsOf
  <2> QED
    BY <1>0, <2>1, <2>3, <2>4, ComparingQuiet
<1>4. ASSUME NEW m \in Msgs, CheckFlags(m) PROVE RepairInv'
  <2>1. /\ pc = "checkingFlags" /\ pc' = "checkingFlags"
        /\ UNCHANGED <<original, work, labelsFailed, flagsFailed, broken, preserved, repairs>>
    BY <1>4 DEF CheckFlags
  <2>2. FreshInv'
    BY <1>0, <2>1, ComparingQuiet DEF FreshInv, Fresh, Early, Classifying
  <2> QED
    BY <1>0, <1>4, <2>1, <2>2, ComparingQuiet, CheckFlagsSees
<1>5. CASE FlagsChecked
  <2>1. /\ pc = "checkingFlags" /\ pc' = "repairing" /\ todo = {}
        /\ jobs' \subseteq Flags \X BOOLEAN
        /\ UNCHANGED <<messageId, located, changed, place, calm, original, seen, verified, job,
                       targets, refresh, marks, labelsFailed, flagsFailed, broken, preserved,
                       repairs>>
    BY <1>5 DEF FlagsChecked, restoreVars, world, measured, outcome, settled, mailbox, report,
                whereabouts, Goto
  <2>2. /\ \A m : (PreservationSource(m)' = PreservationSource(m))
        /\ offer' = offer
    BY <1>0, VerdictKeeps, GivenKeeps
  <2>3. BaselineInv' /\ PreservedInv' /\ RepairKnown'
    BY <1>0, <2>1, <2>2 DEF BaselineInv, PreservedInv, RepairKnown, Finished, FreshInv
  <2>4. FreshInv' /\ JobInv' /\ VerifiedInv' /\ SeenInv' /\ RefreshInv'
    BY <1>0, <2>1
       DEF FreshInv, JobInv, VerifiedInv, SeenInv, LabelsOf, RefreshInv, Fresh, Early, Classifying,
           Applying, LabelStages, Finished
  <2>5. TargetInv' /\ ReachInv' /\ LabelsInv'
    BY <2>1 DEF TargetInv, ReachInv, LabelsInv, Applying, LabelStages, Finished
  <2> QED
    BY <1>5, <2>3, <2>4, <2>5, FlagsCheckedPlans
<1> QED
  BY <1>1, <1>2, <1>3, <1>4, <1>5 DEF Comparing
-----------------------------------------------------------------------------
(* Repairs: what a store does to a message verified, and what every repair  *)
(* leaves alone.                                                            *)

\* While the mailbox is calm, all that was verified is still there.
LEMMA CalmThere == ASSUME Inv, calm, NEW ms, ms \subseteq verified PROVE AtDest(ms) = ms
BY DEF AtDest, Inv, RepairInv, VerifiedInv

LEMMA ByNewUidOwn ==
  ASSUME Inv, NEW ms, ms \subseteq verified, NEW m \in ms, Unmistakable(m)
  PROVE  m \in ByNewUid(ms)
<1>1. /\ m \in Msgs /\ ms \subseteq Msgs /\ located[m] # NoUid
  BY DEF Inv, TypeOK, RepairInv, VerifiedInv
<1>2. located[m] = m /\ \A k \in ms : located[k] = m => k = m
  BY <1>1, LocatedOne
<1>3. (CHOOSE k \in ms : located[k] = m) = m
  BY <1>2
<1> QED
  BY <1>2, <1>3 DEF ByNewUid

LEMMA RemarkedOthers ==
  ASSUME Inv, NEW ms, ms \subseteq verified, NEW x, NEW add, NEW m \in verified \ ms, Unmistakable(m)
  PROVE  Remarked(ms, x, add)[m] = marks[m]
<1>1. /\ m \in Msgs /\ AtDest(ms) \subseteq ms /\ ms \subseteq Msgs /\ located[m] # NoUid
  BY AtDestWithin DEF Inv, TypeOK, RepairInv, VerifiedInv
<1>2. m \notin {located[k] : k \in AtDest(ms)}
  BY <1>1, LocatedOne
<1> QED
  BY <1>1, <1>2 DEF Remarked

LEMMA RemarkedThere ==
  ASSUME Inv, calm, NEW ms, ms \subseteq verified, NEW x, NEW m \in ms, Unmistakable(m)
  PROVE  /\ Remarked(ms, x, TRUE)[m] = marks[m] \cup {x}
         /\ Remarked(ms, x, FALSE)[m] = marks[m] \ {x}
<1>1. /\ m \in Msgs /\ AtDest(ms) = ms /\ located[m] # NoUid
  BY CalmThere DEF Inv, TypeOK, RepairInv, VerifiedInv
<1>2. located[m] = m
  BY <1>1, LocatedOne
<1>3. m \in {located[k] : k \in AtDest(ms)}
  BY <1>1, <1>2
<1> QED
  BY <1>1, <1>3 DEF Remarked

LEMMA RemarkedNone == ASSUME Inv, NEW x, NEW add PROVE Remarked({}, x, add) = marks
BY AtDestWithin DEF Remarked, Inv, TypeOK

\* No repair takes a label, or changes the flags when it is for a label.
LEMMA RemarkedRest ==
  ASSUME Inv, NEW ms, NEW x, NEW add, NEW m \in Msgs
  PROVE  /\ x \in Flags \/ add => marks[m] \cap Labels \subseteq Remarked(ms, x, add)[m]
         /\ x \notin Flags => Remarked(ms, x, add)[m] \cap Flags = marks[m] \cap Flags
         /\ \A y : y # x => (y \in Remarked(ms, x, add)[m] <=> y \in marks[m])
BY RestoreAssumption DEF Remarked

Repairing == {"repairing", "storing"} \cup LabelStages

\* The verdicts and what there is to repair stay while it is repaired.
LEMMA PlanKeeps ==
  ASSUME Inv, [Next]_vars, UNCHANGED <<original, seen, verified>>
  PROVE  /\ \A m : /\ PreservationSource(m)' = PreservationSource(m)
                   /\ HasBaseline(m)' <=> HasBaseline(m)
                   /\ Unmistakable(m)' <=> Unmistakable(m)
                   /\ LabelsNeeded(m)' = LabelsNeeded(m)
         /\ \A flag, add : FlagTargets(flag, add)' = FlagTargets(flag, add)
         /\ \A l : LabelTargets(l)' = LabelTargets(l)
<1>1. messageId' = messageId /\ req' = req /\ offer' = offer
  BY GivenKeeps DEF Inv
<1> QED
  BY <1>1
     DEF PreservationSource, ReceiptValid, HasBaseline, Unmistakable, LabelsNeeded, LabelsMissing,
         FlagTargets, LabelTargets

LEMMA LabelsGrow ==
  ASSUME Inv, [Next]_vars, \A m \in Msgs : marks[m] \cap Labels \subseteq marks'[m],
         NEW m, NEW ls \in SUBSET Labels, NEW l \in LabelsOf(marks, m, ls)
  PROVE  l \in LabelsOf(marks, m, ls)'
<1>1. messageId' = messageId
  BY GivenKeeps DEF Inv
<1> QED
  BY <1>1 DEF LabelsOf

\* What no step of the repair disturbs.
LEMMA RepairFrame ==
  ASSUME Inv, [Next]_vars, pc \in Repairing, pc' \in Repairing,
         UNCHANGED <<place, located, changed, calm, original, seen, verified, refresh, broken,
                     preserved>>,
         \A m \in Msgs : marks[m] \cap Labels \subseteq marks'[m]
  PROVE  FreshInv' /\ BaselineInv' /\ VerifiedInv' /\ SeenInv' /\ RefreshInv' /\ PreservedInv'
<1> USE DEF Repairing, LabelStages, Applying
<1>1. /\ offer' = offer /\ TypeOK /\ RepairInv
      /\ \A m : PreservationSource(m)' = PreservationSource(m)
  BY GivenKeeps, PlanKeeps DEF Inv
<1>2. FreshInv' /\ VerifiedInv' /\ RefreshInv' /\ BaselineInv'
  BY <1>1
     DEF RepairInv, FreshInv, VerifiedInv, RefreshInv, BaselineInv, Fresh, Early, Classifying,
         Finished
<1>3. ASSUME calm, NEW m \in changed
      PROVE  seen[m] \cap Labels \subseteq LabelsOf(marks, m, Labels)'
  BY <1>1, <1>3, LabelsGrow DEF RepairInv, SeenInv
<1>4. SeenInv'
  BY <1>1, <1>3 DEF RepairInv, SeenInv
<1>5. preserved' = {}
  BY <1>1 DEF RepairInv, PreservedInv, Finished
<1>6. PreservedInv'
  BY <1>5 DEF PreservedInv
<1> QED
  BY <1>2, <1>4, <1>6

\* What is stored is justified by what the receipt, or the message in Trash, shows.
LEMMA KnownKeeps ==
  ASSUME Inv, [Next]_vars, pc \in Repairing, UNCHANGED <<changed, original>>,
         NEW x, NEW add \in BOOLEAN, NEW some,
         \/ some \subseteq FlagTargets(x, add)
         \/ add = TRUE /\ some \subseteq LabelTargets(x),
         repairs' \subseteq repairs \cup Stored(some, x, add)
  PROVE  RepairKnown'
<1>1. /\ messageId' = messageId /\ offer' = offer /\ TypeOK /\ RepairInv
  BY GivenKeeps DEF Inv
<1>2. ASSUME NEW m \in some, m \in AtDest(some)
      PROVE  /\ m \in changed /\ messageId[m] = messageId[located[m]]
             /\ \/ add /\ x \in offer.extras
                \/ /\ offer.receipts[m] = NoReceipt
                   /\ add = (x \in original[m])
                \/ /\ offer.receipts[m] # NoReceipt
                   /\ offer.receipts[m].genuine /\ offer.receipts[m].id = messageId[m]
                   /\ add = (x \in offer.receipts[m].marks)
  <2>1. m \in verified /\ m \in Msgs /\ located[m] # NoUid /\ m \in changed
    BY <1>1, <1>2, TargetsVerified DEF AtDest, TypeOK
  <2>2. messageId[m] = messageId[located[m]]
    BY <2>1 DEF Inv, RelocationInv, LocatedInv
  <2>3. \/ add = TRUE /\ x \in offer.extras
        \/ HasBaseline(m) /\ add = (x \in original[m])
    <3>1. CASE some \subseteq FlagTargets(x, add)
      <4>1. HasBaseline(m) /\ x \in (IF add THEN original[m] \ seen[m] ELSE seen[m] \ original[m])
        BY <1>2, <3>1 DEF FlagTargets
      <4>2. CASE add = TRUE
        BY <4>1, <4>2
      <4>3. CASE add = FALSE
        BY <4>1, <4>3
      <4> QED
        BY <4>2, <4>3
    <3>2. CASE add = TRUE /\ some \subseteq LabelTargets(x)
      <4>1. x \in LabelsNeeded(m)
        BY <1>2, <3>2 DEF LabelTargets
      <4>2. x \in offer.extras \/ (HasBaseline(m) /\ x \in original[m])
        BY <4>1 DEF LabelsNeeded, LabelsMissing
      <4> QED
        BY <3>2, <4>2
    <3> QED
      BY <3>1, <3>2
  <2>4. ASSUME HasBaseline(m)
        PROVE  \/ offer.receipts[m] = NoReceipt
               \/ /\ offer.receipts[m] # NoReceipt
                  /\ offer.receipts[m].genuine /\ offer.receipts[m].id = messageId[m]
                  /\ original[m] = offer.receipts[m].marks
    <3>1. PreservationSource(m) = "restoreReceipt" => original[m] = offer.receipts[m].marks
      BY <1>1, <2>1 DEF RepairInv, BaselineInv, Repairing, LabelStages, Applying
    <3> QED
      BY <2>4, <3>1 DEF HasBaseline, PreservationSource, ReceiptValid
  <2> QED
    BY <2>1, <2>2, <2>3, <2>4
<1>3. \A r \in Stored(some, x, add) :
        \E m \in some : m \in AtDest(some) /\ r[1] = located[m] /\ r[2] = x /\ r[3] = add
  BY AtDestWithin DEF Stored
<1> QED
  BY <1>1, <1>2, <1>3 DEF RepairInv, RepairKnown
-----------------------------------------------------------------------------
(* Repairs: the flags.                                                      *)

\* A repair that is over has set the flag, or failed, for all it was for.
LEMMA RepairEndsKeeps ==
  ASSUME Inv, [Next]_vars, NEW flag \in Flags, NEW add \in BOOLEAN, RepairEnds(flag, add),
         pc \in {"repairing", "storing"}, UNCHANGED preserved,
         NEW some, some \subseteq FlagTargets(flag, add),
         marks' = Remarked(some, flag, add), repairs' \subseteq repairs \cup Stored(some, flag, add),
         flagsFailed \subseteq flagsFailed',
         calm => \A m \in FlagTargets(flag, add) :
           Unmistakable(m) => m \in some \/ m \in flagsFailed'
  PROVE  RepairInv'
<1>1. /\ pc' = "repairing" /\ jobs' = jobs \ {<<flag, add>>} /\ job' = NoJob /\ targets' = {}
      /\ UNCHANGED <<place, located, changed, calm, original, seen, verified, refresh, broken,
                     preserved>>
  BY DEF RepairEnds, settled, mailbox, report, whereabouts, world, measured, Goto
<1>2. /\ TypeOK /\ RepairInv /\ pc \in Repairing /\ pc' \in Repairing
      /\ some \subseteq verified /\ verified \subseteq Msgs
  BY <1>1, TargetsVerified DEF Inv, TypeOK, Repairing
<1>3. \A m \in Msgs : marks[m] \cap Labels \subseteq marks'[m]
  BY RemarkedRest
<1>4. FreshInv' /\ BaselineInv' /\ VerifiedInv' /\ SeenInv' /\ RefreshInv' /\ PreservedInv'
  BY <1>1, <1>2, <1>3, RepairFrame
<1>5. RepairKnown'
  BY <1>1, <1>2, KnownKeeps
<1>6. JobInv' /\ TargetInv' /\ ReachInv' /\ LabelsInv'
  BY <1>1, <1>2
     DEF RepairInv, JobInv, TargetInv, ReachInv, LabelsInv, Applying, LabelStages, Finished
<1>7. ASSUME calm, NEW m \in verified, NEW f \in Flags, Unmistakable(m), HasBaseline(m)
      PROVE  \/ f \in marks'[m] <=> f \in original[m]
             \/ m \in flagsFailed'
             \/ \E a \in BOOLEAN : <<f, a>> \in jobs' /\ m \in FlagTargets(f, a)
  <2>1. \/ f \in marks[m] <=> f \in original[m]
        \/ m \in flagsFailed
        \/ \E a \in BOOLEAN : <<f, a>> \in jobs /\ m \in FlagTargets(f, a)
    BY <1>2, <1>7 DEF RepairInv, FlagsInv
  <2>2. CASE m \in FlagTargets(flag, add) /\ f = flag
    <3>1. CASE m \in some
      <4>1. /\ Remarked(some, flag, TRUE)[m] = marks[m] \cup {flag}
            /\ Remarked(some, flag, FALSE)[m] = marks[m] \ {flag}
        BY <1>2, <1>7, <3>1, RemarkedThere
      <4>2. flag \in (IF add THEN original[m] \ seen[m] ELSE seen[m] \ original[m])
        BY <2>2 DEF FlagTargets
      <4>3. CASE add = TRUE
        BY <2>2, <4>1, <4>2, <4>3
      <4>4. CASE add = FALSE
        BY <2>2, <4>1, <4>2, <4>4
      <4> QED
        BY <4>3, <4>4
    <3> QED
      BY <1>7, <2>2, <3>1
  <2>3. CASE m \notin FlagTargets(flag, add) \/ f # flag
    <3>1. f \in marks'[m] <=> f \in marks[m]
      <4>1. CASE f # flag
        <5>1. m \in Msgs
          BY <1>2
        <5>2. \A y : y # flag => (y \in Remarked(some, flag, add)[m] <=> y \in marks[m])
          BY <5>1, RemarkedRest
        <5> QED
          BY <4>1, <5>2
      <4>2. CASE m \notin FlagTargets(flag, add)
        BY <1>2, <1>7, <4>2, RemarkedOthers
      <4> QED
        BY <2>3, <4>1, <4>2
    <3>2. ASSUME NEW a \in BOOLEAN, <<f, a>> \in jobs, m \in FlagTargets(f, a)
          PROVE  <<f, a>> \in jobs'
      BY <1>1, <2>3, <3>2
    <3> QED
      BY <2>1, <3>1, <3>2
  <2> QED
    BY <2>2, <2>3
<1>8. FlagsInv'
  <2>1. /\ \A m : HasBaseline(m)' <=> HasBaseline(m)
        /\ \A m : Unmistakable(m)' <=> Unmistakable(m)
        /\ \A f, a : FlagTargets(f, a)' = FlagTargets(f, a)
    BY <1>1, PlanKeeps
  <2>2. pc' \notin LabelStages /\ ~Finished' /\ UNCHANGED <<verified, calm, original>>
    BY <1>1 DEF LabelStages, Applying, Finished
  <2> QED
    BY ONLY <1>7, <2>1, <2>2 DEF FlagsInv
<1> QED
  BY <1>4, <1>5, <1>6, <1>8 DEF RepairInv

LEMMA LookForRepairKeeps ==
  ASSUME Inv, [Next]_vars, NEW flag \in Flags, NEW add \in BOOLEAN, LookForRepair(flag, add)
  PROVE  RepairInv'
<1> DEFINE there == AtDest(FlagTargets(flag, add))
<1>1. /\ pc = "repairing" /\ pc' \in {"repairing", "storing"} /\ <<flag, add>> \in jobs
      /\ flagsFailed \subseteq flagsFailed' /\ targets' = ByNewUid(there)
      /\ UNCHANGED <<place, located, changed, calm, original, seen, verified, refresh, broken,
                     preserved, marks, repairs>>
  BY DEF LookForRepair, settled, mailbox, report, whereabouts, world, measured, Goto
<1>2. \/ pc' = "repairing" /\ there = {} /\ jobs' = jobs \ {<<flag, add>>} /\ job' = job
      \/ pc' = "storing" /\ jobs' = jobs /\ job' = <<flag, add>>
  BY <1>1 DEF LookForRepair, Goto
<1>3. /\ TypeOK /\ RepairInv /\ pc \in Repairing /\ pc' \in Repairing
      /\ FlagTargets(flag, add) \subseteq verified
  BY <1>1, TargetsVerified DEF Inv, Repairing
<1>4. FreshInv' /\ BaselineInv' /\ VerifiedInv' /\ SeenInv' /\ RefreshInv' /\ PreservedInv'
  BY <1>1, <1>3, RepairFrame
<1>5. RepairKnown'
  BY <1>1, <1>3, KnownKeeps
<1>6. JobInv' /\ LabelsInv'
  BY <1>1, <1>2, <1>3 DEF RepairInv, JobInv, LabelsInv, Applying, LabelStages, Finished
<1>7. calm => there = FlagTargets(flag, add)
  BY <1>3, CalmThere
<1>8. /\ \A m : HasBaseline(m)' <=> HasBaseline(m)
      /\ \A m : Unmistakable(m)' <=> Unmistakable(m)
      /\ \A f, a : FlagTargets(f, a)' = FlagTargets(f, a)
  BY <1>1, PlanKeeps
<1>9. TargetInv' /\ ReachInv'
  <2>1. targets' \subseteq FlagTargets(flag, add)
    BY <1>1, ByNewUidWithin, AtDestWithin
  <2>2. calm => \A m \in FlagTargets(flag, add) : Unmistakable(m) => m \in targets'
    BY <1>1, <1>3, <1>7, ByNewUidOwn
  <2>3. \A f \in Flags, a \in BOOLEAN : pc' = "storing" /\ job' = <<f, a>> => f = flag /\ a = add
    BY <1>2
  <2>4. pc' \notin Applying /\ calm' = calm
    BY <1>1 DEF Applying
  <2> QED
    BY ONLY <1>8, <2>1, <2>2, <2>3, <2>4 DEF TargetInv, ReachInv
<1>10. FlagsInv'
  <2>1. ASSUME calm, NEW m \in verified, NEW f \in Flags, NEW a \in BOOLEAN, <<f, a>> \in jobs,
               m \in FlagTargets(f, a)
        PROVE  <<f, a>> \in jobs'
    BY <1>2, <1>7, <2>1
  <2>2. pc' \notin LabelStages /\ ~Finished' /\ UNCHANGED <<verified, calm, original, marks>>
    BY <1>1 DEF LabelStages, Applying, Finished
  <2>3. pc \in {"repairing", "storing"} /\ FlagsInv /\ flagsFailed \subseteq flagsFailed'
    BY <1>1, <1>3 DEF RepairInv
  <2> QED
    BY ONLY <1>8, <2>1, <2>2, <2>3 DEF FlagsInv
<1> QED
  BY <1>4, <1>5, <1>6, <1>9, <1>10 DEF RepairInv

\* With the flags done, every label that is missing becomes a repair to do.
LEMMA FlagsRepairedKeeps == ASSUME Inv, [Next]_vars, FlagsRepaired PROVE RepairInv'
<1>1. /\ pc = "repairing" /\ pc' \in {"relisting", "relabelling"} /\ jobs = {}
      /\ jobs' = {l \in Labels : LabelTargets(l) # {}}
      /\ UNCHANGED <<place, located, changed, calm, original, seen, verified, refresh, broken,
                     preserved, marks, repairs, job, targets, flagsFailed, labelsFailed>>
  BY DEF FlagsRepaired, settled, mailbox, report, whereabouts, world, measured, outcome, Goto
<1>2. /\ TypeOK /\ RepairInv /\ pc \in Repairing /\ pc' \in Repairing /\ pc' \in LabelStages
  BY <1>1 DEF Inv, Repairing, LabelStages
<1>3. FreshInv' /\ BaselineInv' /\ VerifiedInv' /\ SeenInv' /\ RefreshInv' /\ PreservedInv'
  BY <1>1, <1>2, RepairFrame
<1>4. RepairKnown'
  BY <1>1, <1>2, KnownKeeps
<1>5. JobInv' /\ TargetInv' /\ ReachInv'
  BY <1>1, <1>2 DEF RepairInv, JobInv, TargetInv, ReachInv, Applying, Finished
<1>6. /\ \A m : HasBaseline(m)' <=> HasBaseline(m)
      /\ \A m : Unmistakable(m)' <=> Unmistakable(m)
      /\ \A m : LabelsNeeded(m)' = LabelsNeeded(m)
  BY <1>1, PlanKeeps
<1>7. FlagsInv'
  <2>1. ASSUME calm, NEW m \in verified, Unmistakable(m), HasBaseline(m), m \notin flagsFailed
        PROVE  marks[m] \cap Flags = original[m] \cap Flags
    BY <1>1, <1>2, <2>1 DEF RepairInv, FlagsInv
  <2>2. pc' \notin {"repairing", "storing"}
        /\ UNCHANGED <<verified, calm, original, marks, flagsFailed>>
    BY <1>1
  <2> QED
    BY ONLY <1>6, <2>1, <2>2 DEF FlagsInv
<1>8. LabelsInv'
  <2>1. ASSUME NEW m \in verified, NEW l \in LabelsNeeded(m) PROVE l \in jobs'
    <3>1. l \in Labels
      BY <1>2, <2>1, RestoreAssumption DEF LabelsNeeded, LabelsMissing, TypeOK
    <3>2. m \in LabelTargets(l)
      BY <2>1 DEF LabelTargets
    <3> QED
      BY <1>1, <3>1, <3>2
  <2>2. verified' = verified
    BY <1>1
  <2> QED
    BY ONLY <1>6, <2>1, <2>2 DEF LabelsInv
<1> QED
  BY <1>3, <1>4, <1>5, <1>7, <1>8 DEF RepairInv

LEMMA RepairingRepairs == ASSUME Inv, RepairingFlags PROVE RepairInv'
<1>0. [Next]_vars /\ TypeOK /\ RepairInv
  BY DEF Next, Handler, Inv
<1>1. ASSUME NEW flag \in Flags, NEW add \in BOOLEAN, LookForRepair(flag, add)
      PROVE  RepairInv'
  BY <1>0, <1>1, LookForRepairKeeps
<1>2. ASSUME NEW flag \in Flags, NEW add \in BOOLEAN, pc = "storing", job = <<flag, add>>
      PROVE  /\ targets \subseteq FlagTargets(flag, add)
             /\ calm => \A m \in FlagTargets(flag, add) : Unmistakable(m) => m \in targets
  BY <1>0, <1>2 DEF RepairInv, TargetInv, ReachInv
<1>3. ASSUME NEW flag \in Flags, NEW add \in BOOLEAN, StoreFlag(flag, add)
      PROVE  RepairInv'
  <2>1. /\ pc = "storing" /\ job = <<flag, add>> /\ RepairEnds(flag, add)
        /\ marks' = Remarked(targets, flag, add) /\ flagsFailed' = flagsFailed
        /\ repairs' = repairs \cup Stored(targets, flag, add) /\ preserved' = preserved
    BY <1>3 DEF StoreFlag, RepairEnds
  <2> QED
    BY <1>0, <1>2, <2>1, RepairEndsKeeps
<1>4. ASSUME NEW flag \in Flags, NEW add \in BOOLEAN, StoreRejected(flag, add)
      PROVE  RepairInv'
  <2>1. /\ pc = "storing" /\ job = <<flag, add>> /\ RepairEnds(flag, add)
        /\ marks' = Remarked({}, flag, add) /\ flagsFailed' = flagsFailed \cup targets
        /\ repairs' = repairs /\ preserved' = preserved
    BY <1>4, RemarkedNone DEF StoreRejected, RepairEnds
  <2> QED
    BY <1>0, <1>2, <2>1, RepairEndsKeeps
<1>5. ASSUME NEW flag \in Flags, NEW add \in BOOLEAN, NEW some, RepairThrows(flag, add, some)
      PROVE  RepairInv'
  <2>1. /\ pc \in {"repairing", "storing"} /\ RepairEnds(flag, add)
        /\ marks' = Remarked(some, flag, add)
        /\ flagsFailed' = flagsFailed \cup FlagTargets(flag, add)
        /\ repairs' = repairs \cup Stored(some, flag, add) /\ preserved' = preserved
    BY <1>5 DEF RepairThrows, RepairEnds
  <2>2. some \subseteq FlagTargets(flag, add)
    BY <1>2, <1>5 DEF RepairThrows
  <2> QED
    BY <1>0, <2>1, <2>2, RepairEndsKeeps
<1>6. CASE FlagsRepaired
  BY <1>0, <1>6, FlagsRepairedKeeps
<1> QED
  BY <1>1, <1>3, <1>4, <1>5, <1>6 DEF RepairingFlags
-----------------------------------------------------------------------------
(* Repairs: the labels.                                                     *)

\* What a label is dealt with for: it is there, or it has failed.
Settled(l) == \A m \in LabelTargets(l) : Unmistakable(m) =>
                l \in LabelsOf(marks, m, {l})' \/ m \in labelsFailed'

\* A step that takes no label and leaves the flags alone keeps the promises about both.
LEMMA LabelFrame ==
  ASSUME Inv, [Next]_vars, pc \in LabelStages, pc' \in LabelStages,
         UNCHANGED <<place, located, changed, calm, original, seen, verified, refresh, broken,
                     preserved, flagsFailed>>,
         labelsFailed \subseteq labelsFailed',
         \A m \in Msgs : /\ marks[m] \cap Labels \subseteq marks'[m]
                         /\ marks'[m] \cap Flags = marks[m] \cap Flags,
         calm => \A l \in jobs \ jobs' : Settled(l)
  PROVE  /\ FreshInv' /\ BaselineInv' /\ VerifiedInv' /\ SeenInv' /\ RefreshInv' /\ PreservedInv'
         /\ FlagsInv' /\ LabelsInv'
<1>1. /\ TypeOK /\ RepairInv /\ pc \in Repairing /\ pc' \in Repairing
      /\ verified \subseteq Msgs
  BY DEF Inv, TypeOK, Repairing
<1>2. FreshInv' /\ BaselineInv' /\ VerifiedInv' /\ SeenInv' /\ RefreshInv' /\ PreservedInv'
  BY <1>1, RepairFrame
<1>3. /\ \A m : HasBaseline(m)' <=> HasBaseline(m)
      /\ \A m : Unmistakable(m)' <=> Unmistakable(m)
      /\ \A m : LabelsNeeded(m)' = LabelsNeeded(m)
  BY PlanKeeps
<1>4. pc' \notin {"repairing", "storing"} /\ UNCHANGED <<verified, calm, original, flagsFailed>>
  BY DEF LabelStages, Applying
<1>5. FlagsInv'
  <2>1. ASSUME calm, NEW m \in verified, Unmistakable(m), HasBaseline(m)
        PROVE  m \in flagsFailed \/ marks'[m] \cap Flags = original[m] \cap Flags
    BY <1>1, <2>1 DEF RepairInv, FlagsInv
  <2> QED
    BY ONLY <1>3, <1>4, <2>1 DEF FlagsInv
<1>6. LabelsInv'
  <2>1. ASSUME calm, NEW m \in verified, NEW l \in LabelsNeeded(m), Unmistakable(m)
        PROVE  l \in LabelsOf(marks, m, {l})' \/ m \in labelsFailed' \/ l \in jobs'
    <3>1. l \in Labels /\ m \in LabelTargets(l)
      BY <1>1, <2>1, RestoreAssumption DEF LabelsNeeded, LabelsMissing, LabelTargets, TypeOK
    <3>2. l \in LabelsOf(marks, m, {l}) \/ m \in labelsFailed \/ l \in jobs
      BY <1>1, <2>1 DEF RepairInv, LabelsInv
    <3>3. CASE l \in LabelsOf(marks, m, {l})
      BY <3>1, <3>3, LabelsGrow
    <3>4. CASE l \in jobs
      BY <2>1, <3>1, <3>4 DEF Settled
    <3> QED
      BY <3>2, <3>3, <3>4
  <2> QED
    BY ONLY <1>3, <1>4, <2>1 DEF LabelsInv
<1> QED
  BY <1>2, <1>5, <1>6

\* A label that is over is there, or has failed, for all it was for.
LEMMA LabelEndsKeeps ==
  ASSUME Inv, [Next]_vars, pc \in LabelStages,
         NEW l, NEW failures, LabelEnds(l, failures), calm => Settled(l),
         \A m \in Msgs : /\ marks[m] \cap Labels \subseteq marks'[m]
                         /\ marks'[m] \cap Flags = marks[m] \cap Flags,
         RepairKnown'
  PROVE  RepairInv'
<1>1. /\ pc' = "relabelling" /\ jobs' = jobs \ {l} /\ job' = NoJob /\ targets' = {}
      /\ labelsFailed \subseteq labelsFailed'
      /\ UNCHANGED <<place, located, changed, calm, original, seen, verified, refresh, broken,
                     preserved, flagsFailed>>
  BY DEF LabelEnds, settled, mailbox, report, whereabouts, world, measured, Goto
<1>2. pc' \in LabelStages /\ (calm => \A k \in jobs \ jobs' : Settled(k))
  BY <1>1 DEF LabelStages
<1>3. /\ FreshInv' /\ BaselineInv' /\ VerifiedInv' /\ SeenInv' /\ RefreshInv' /\ PreservedInv'
      /\ FlagsInv' /\ LabelsInv'
  BY <1>1, <1>2, LabelFrame
<1>4. JobInv' /\ TargetInv' /\ ReachInv'
  BY <1>1 DEF Inv, RepairInv, JobInv, TargetInv, ReachInv, LabelStages, Applying, Finished
<1> QED
  BY <1>3, <1>4 DEF RepairInv

\* Steps of a label in progress that store nothing.
LEMMA LookKeeps ==
  ASSUME Inv, [Next]_vars, pc \in LabelStages, pc' \in Applying \ {"transitioning"},
         UNCHANGED <<place, located, changed, calm, original, seen, verified, refresh, broken,
                     preserved, flagsFailed, marks, repairs, jobs>>,
         labelsFailed \subseteq labelsFailed',
         job' \in jobs, targets' \subseteq LabelTargets(job'),
         calm => \A m \in LabelTargets(job') : Unmistakable(m) =>
           job' \in LabelsOf(marks, m, {job'}) \/ m \in labelsFailed' \/ m \in targets'
  PROVE  RepairInv'
<1>1. /\ pc' \in LabelStages /\ pc \in Repairing /\ jobs \subseteq Labels /\ messageId' = messageId
      /\ TypeOK /\ RepairInv
  BY GivenKeeps DEF LabelStages, Repairing, Applying, Inv, RepairInv, JobInv
<1>2. /\ FreshInv' /\ BaselineInv' /\ VerifiedInv' /\ SeenInv' /\ RefreshInv' /\ PreservedInv'
      /\ FlagsInv' /\ LabelsInv'
  BY <1>1, LabelFrame
<1>3. RepairKnown'
  <2>1. {} \subseteq LabelTargets(job') /\ repairs' \subseteq repairs \cup Stored({}, job', TRUE)
    OBVIOUS
  <2> QED
    BY <1>1, <2>1, KnownKeeps
<1>4. /\ \A m : Unmistakable(m)' <=> Unmistakable(m)
      /\ \A l : LabelTargets(l)' = LabelTargets(l)
  BY PlanKeeps
<1>5. JobInv'
  BY <1>1 DEF JobInv, Applying, Finished
<1>6. TargetInv' /\ ReachInv'
  <2>1. pc' \notin {"storing", "transitioning"}
    BY DEF Applying
  <2>2. \A m : LabelsOf(marks, m, {job})' = LabelsOf(marks, m, {job'})
    BY <1>1 DEF LabelsOf
  <2>3. LabelTargets(job)' = LabelTargets(job')
    BY <1>4 DEF LabelTargets
  <2> QED
    BY <1>4, <2>1, <2>2, <2>3 DEF TargetInv, ReachInv
<1> QED
  BY <1>2, <1>3, <1>5, <1>6 DEF RepairInv

\* What is known of a label in progress.
LEMMA InProgress ==
  ASSUME Inv, pc \in Applying
  PROVE  /\ job \in jobs /\ job \in Labels /\ pc \in LabelStages /\ pc \in Repairing
         /\ targets \subseteq LabelTargets(job) /\ LabelTargets(job) \subseteq verified
         /\ calm => \A m \in LabelTargets(job) : Unmistakable(m) =>
              \/ job \in LabelsOf(marks, m, {job})
              \/ m \in labelsFailed
              \/ m \in targets /\ pc # "transitioning"
BY TargetsVerified
   DEF Inv, RepairInv, JobInv, TargetInv, ReachInv, LabelStages, Repairing

\* A label is over and nothing has been stored in this step.
LEMMA EndsQuietly ==
  ASSUME Inv, [Next]_vars, pc \in LabelStages, NEW l, NEW failures, LabelEnds(l, failures),
         UNCHANGED <<marks, repairs>>,
         calm => \A m \in LabelTargets(l) : Unmistakable(m) =>
           l \in LabelsOf(marks, m, {l}) \/ m \in labelsFailed \cup failures
  PROVE  RepairInv'
<1>1. /\ messageId' = messageId /\ labelsFailed' = labelsFailed \cup failures
      /\ UNCHANGED <<changed, original>>
  BY DEF LabelEnds, settled, mailbox, report, measured
<1>2. calm => Settled(l)
  BY <1>1 DEF Settled, LabelsOf
<1>3. RepairKnown'
  BY <1>1, GivenKeeps DEF Inv, RepairInv, RepairKnown
<1> QED
  BY <1>2, <1>3, LabelEndsKeeps

\* The server has added the label in progress to some of the messages.
LEMMA LabelStored ==
  ASSUME Inv, [Next]_vars, pc \in Applying, NEW some, some \subseteq targets,
         marks' = Remarked(some, job, TRUE), repairs' = repairs \cup Stored(some, job, TRUE),
         UNCHANGED <<changed, original>>
  PROVE  /\ \A m \in Msgs : /\ marks[m] \cap Labels \subseteq marks'[m]
                            /\ marks'[m] \cap Flags = marks[m] \cap Flags
         /\ RepairKnown'
<1>1. job \notin Flags /\ some \subseteq LabelTargets(job) /\ pc \in Repairing
  BY InProgress, RestoreAssumption
<1>2. \A m \in Msgs : /\ marks[m] \cap Labels \subseteq marks'[m]
                      /\ marks'[m] \cap Flags = marks[m] \cap Flags
  BY <1>1, RemarkedRest
<1>3. RepairKnown'
  BY <1>1, KnownKeeps
<1> QED
  BY <1>2, <1>3

LEMMA RelistKeeps == ASSUME Inv, [Next]_vars, Relist PROVE RepairInv'
<1>1. /\ pc = "relisting" /\ pc' = "relabelling"
      /\ UNCHANGED <<place, located, changed, calm, original, seen, verified, refresh, broken,
                     preserved, marks, repairs, jobs, job, targets, labelsFailed, flagsFailed>>
  BY DEF Relist, settled, mailbox, report, whereabouts, world, work, outcome, Goto
<1>2. pc \in LabelStages /\ pc' \in LabelStages /\ pc \in Repairing
  BY <1>1 DEF LabelStages, Repairing
<1>3. /\ FreshInv' /\ BaselineInv' /\ VerifiedInv' /\ SeenInv' /\ RefreshInv' /\ PreservedInv'
      /\ FlagsInv' /\ LabelsInv'
  BY <1>1, <1>2, LabelFrame
<1>4. RepairKnown'
  BY <1>1, GivenKeeps DEF Inv, RepairInv, RepairKnown
<1>5. JobInv' /\ TargetInv' /\ ReachInv'
  BY <1>1 DEF Inv, RepairInv, JobInv, TargetInv, ReachInv, Applying, Finished
<1> QED
  BY <1>3, <1>4, <1>5 DEF RepairInv

LEMMA ApplyLabelKeeps ==
  ASSUME Inv, [Next]_vars, NEW l \in Labels, ApplyLabel(l)
  PROVE  RepairInv'
<1> DEFINE there == AtDest(LabelTargets(l))
<1>1. /\ pc = "relabelling" /\ pc' = "looking" /\ l \in jobs /\ job' = l
      /\ targets' = ByNewUid(there) /\ labelsFailed \subseteq labelsFailed'
      /\ UNCHANGED <<place, located, changed, calm, original, seen, verified, refresh, broken,
                     preserved, flagsFailed, marks, repairs, jobs>>
  BY DEF ApplyLabel, settled, mailbox, report, whereabouts, world, measured, Goto
<1>2. LabelTargets(l) \subseteq verified /\ there \subseteq LabelTargets(l)
  BY TargetsVerified, AtDestWithin
<1>3. targets' \subseteq LabelTargets(l)
  BY <1>1, <1>2, ByNewUidWithin
<1>4. ASSUME calm, NEW m \in LabelTargets(l), Unmistakable(m) PROVE m \in targets'
  <2>1. there = LabelTargets(l)
    BY <1>2, <1>4, CalmThere
  <2>2. m \in ByNewUid(LabelTargets(l))
    BY <1>2, <1>4, ByNewUidOwn
  <2> QED
    BY <1>1, <2>1, <2>2
<1>5. pc \in LabelStages /\ pc' \in Applying \ {"transitioning"}
  BY <1>1 DEF LabelStages, Applying
<1> QED
  BY <1>1, <1>3, <1>4, <1>5, LookKeeps

LEMMA LookUpRepairs ==
  ASSUME Inv, [Next]_vars, NEW m \in Msgs, NEW heard \in BOOLEAN, LookUp(m, heard)
  PROVE  RepairInv'
<1>1. /\ pc \in {"looking", "lookingAgain"} /\ pc' = pc /\ job' = job
      /\ targets' = IF heard /\ LabelsOf(marks, m, {job}) # {} THEN targets \ {m} ELSE targets
      /\ UNCHANGED <<place, located, changed, calm, original, seen, verified, refresh, broken,
                     preserved, labelsFailed, flagsFailed, marks, repairs, jobs>>
  BY DEF LookUp, settled, mailbox, report, whereabouts, world, measured, outcome
<1>2. pc \in Applying /\ pc' \in Applying \ {"transitioning"}
  BY <1>1 DEF Applying
<1>3. LabelsOf(marks, m, {job}) # {} => job \in LabelsOf(marks, m, {job})
  BY DEF LabelsOf
<1> QED
  BY <1>1, <1>2, <1>3, InProgress, LookKeeps

LEMMA LookedUpKeeps == ASSUME Inv, [Next]_vars, LookedUp PROVE RepairInv'
<1>1. pc \in {"looking", "lookingAgain"} /\ pc \in Applying /\ UNCHANGED <<marks, repairs>>
  BY DEF LookedUp, Applying
<1>2. CASE targets = {}
  BY <1>1, <1>2, InProgress, EndsQuietly DEF LookedUp
<1>3. CASE targets # {}
  <2>1. /\ pc' \in {"lookingAgain", "checking"} /\ job' = job /\ targets' = targets
        /\ UNCHANGED <<place, located, changed, calm, original, seen, verified, refresh, broken,
                       preserved, labelsFailed, flagsFailed, marks, repairs, jobs>>
    BY <1>3 DEF LookedUp, settled, mailbox, report, whereabouts, world, measured, work, outcome,
                Goto
  <2>2. pc' \in Applying \ {"transitioning"}
    BY <2>1 DEF Applying
  <2> QED
    BY <1>1, <2>1, <2>2, InProgress, LookKeeps
<1> QED
  BY <1>2, <1>3

LEMMA CheckTargetsKeeps == ASSUME Inv, [Next]_vars, CheckTargets PROVE RepairInv'
<1>1. pc = "checking" /\ pc \in Applying /\ UNCHANGED <<marks, repairs>>
  BY DEF CheckTargets, Applying
<1>2. CASE AtDest(targets) = {}
  BY <1>1, <1>2, InProgress, EndsQuietly DEF CheckTargets
<1>3. CASE AtDest(targets) # {}
  <2>1. /\ pc' = "applying" /\ job' = job /\ targets' = AtDest(targets)
        /\ labelsFailed' = labelsFailed \cup (targets \ AtDest(targets))
        /\ UNCHANGED <<place, located, changed, calm, original, seen, verified, refresh, broken,
                       preserved, flagsFailed, marks, repairs, jobs>>
    BY <1>3 DEF CheckTargets, settled, mailbox, report, whereabouts, world, measured, Goto
  <2>2. pc' \in Applying \ {"transitioning"}
    BY <2>1 DEF Applying
  <2> QED
    BY <1>1, <2>1, <2>2, AtDestWithin, InProgress, LookKeeps
<1> QED
  BY <1>2, <1>3

LEMMA MoveToLabelKeeps == ASSUME Inv, [Next]_vars, MoveToLabel PROVE RepairInv'
<1>1. /\ pc = "applying" /\ pc' = "transitioning"
      /\ marks' = Remarked(targets, job, TRUE) /\ repairs' = repairs \cup Stored(targets, job, TRUE)
      /\ UNCHANGED <<messageId, place, located, changed, calm, original, seen, verified, refresh,
                     broken, preserved, jobs, job, targets, labelsFailed, flagsFailed>>
  BY DEF MoveToLabel, settled, mailbox, report, whereabouts, world, measured, work, outcome, Goto
<1>2. pc \in Applying /\ pc' \in Applying /\ pc' \in LabelStages
  BY <1>1 DEF Applying, LabelStages
<1>3. /\ \A m \in Msgs : /\ marks[m] \cap Labels \subseteq marks'[m]
                         /\ marks'[m] \cap Flags = marks[m] \cap Flags
      /\ RepairKnown'
  BY <1>1, <1>2, LabelStored
<1>4. /\ FreshInv' /\ BaselineInv' /\ VerifiedInv' /\ SeenInv' /\ RefreshInv' /\ PreservedInv'
      /\ FlagsInv' /\ LabelsInv'
  BY <1>1, <1>2, <1>3, InProgress, LabelFrame
<1>5. JobInv' /\ TargetInv'
  <2>1. LabelTargets(job)' = LabelTargets(job)
    BY <1>1, PlanKeeps DEF LabelTargets
  <2> QED
    BY <1>1, <1>2, <2>1, InProgress
       DEF Inv, RepairInv, JobInv, TargetInv, Finished, Applying
<1>6. ASSUME calm, NEW m \in LabelTargets(job), Unmistakable(m)
      PROVE  job \in LabelsOf(marks, m, {job})' \/ m \in labelsFailed
  <2>1. m \in verified /\ targets \subseteq verified /\ verified \subseteq Msgs /\ job \in Labels
    BY <1>2, InProgress DEF Inv, TypeOK
  <2>2. CASE m \in targets
    <3>1. marks'[m] = marks[m] \cup {job}
      BY <1>1, <1>6, <2>1, <2>2, RemarkedThere
    <3>2. m \in Msgs /\ messageId[m] # NoId
      BY <1>6, <2>1, LocatedOne DEF Inv, RepairInv, VerifiedInv
    <3> QED
      BY <1>1, <3>1, <3>2 DEF LabelsOf
  <2>3. CASE job \in LabelsOf(marks, m, {job})
    BY <1>1, <1>3, <2>1, <2>3 DEF LabelsOf
  <2>4. m \in targets \/ job \in LabelsOf(marks, m, {job}) \/ m \in labelsFailed
    BY <1>2, <1>6, InProgress
  <2> QED
    BY <2>2, <2>3, <2>4
<1>7. ReachInv'
  <2>1. LabelTargets(job)' = LabelTargets(job) /\ \A m : Unmistakable(m)' <=> Unmistakable(m)
    BY <1>1, PlanKeeps DEF LabelTargets
  <2>2. \A m : job \in LabelsOf(marks, m, {job})' => job' \in LabelsOf(marks, m, {job})'
    BY <1>1
  <2>3. pc' # "storing" /\ UNCHANGED <<calm, labelsFailed>>
    BY <1>1
  <2> QED
    BY ONLY <1>6, <2>1, <2>2, <2>3 DEF ReachInv
<1> QED
  BY <1>3, <1>4, <1>5, <1>7 DEF RepairInv

LEMMA MoveToLabelFailsKeeps ==
  ASSUME Inv, [Next]_vars, NEW some, MoveToLabelFails(some)
  PROVE  RepairInv'
<1>1. /\ pc \in {"checking", "applying"} /\ some \subseteq targets
      /\ marks' = Remarked(some, job, TRUE) /\ repairs' = repairs \cup Stored(some, job, TRUE)
      /\ LabelEnds(job, targets)
  BY DEF MoveToLabelFails
<1>2. /\ pc \in Applying /\ UNCHANGED <<changed, original>>
      /\ labelsFailed' = labelsFailed \cup targets
  BY <1>1 DEF Applying, LabelEnds, settled, report, measured
<1>3. /\ \A m \in Msgs : /\ marks[m] \cap Labels \subseteq marks'[m]
                         /\ marks'[m] \cap Flags = marks[m] \cap Flags
      /\ RepairKnown'
  BY <1>1, <1>2, LabelStored
<1>4. ASSUME NEW l, NEW failures, l = job, failures = targets
      PROVE  LabelEnds(l, failures) /\ (calm => Settled(l))
  <2>1. LabelEnds(l, failures)
    BY <1>1, <1>4 DEF LabelEnds
  <2>2. ASSUME calm, NEW m \in LabelTargets(l), Unmistakable(m)
        PROVE  l \in LabelsOf(marks, m, {l})' \/ m \in labelsFailed'
    <3>1. l \in LabelsOf(marks, m, {l}) \/ m \in labelsFailed \cup targets
      BY <1>2, <1>4, <2>2, InProgress
    <3>2. l \in Labels
      BY <1>2, <1>4, InProgress
    <3> QED
      BY <1>2, <1>3, <3>1, <3>2, LabelsGrow
  <2> QED
    BY <2>1, <2>2 DEF Settled
<1> QED
  BY <1>2, <1>3, <1>4, InProgress, LabelEndsKeeps

LEMMA RelabellingRepairs == ASSUME Inv, Relabelling PROVE RepairInv'
<1>0. [Next]_vars
  BY DEF Next, Handler
<1>1. CASE Relist
  BY <1>0, <1>1, RelistKeeps
<1>2. ASSUME NEW l \in Labels, ApplyLabel(l) PROVE RepairInv'
  BY <1>0, <1>2, ApplyLabelKeeps
<1>3. ASSUME NEW l \in Labels, LabelGone(l) \/ ApplyLabelThrows(l) PROVE RepairInv'
  <2>1. pc \in LabelStages /\ LabelEnds(l, LabelTargets(l)) /\ UNCHANGED <<marks, repairs>>
    BY <1>3 DEF LabelGone, ApplyLabelThrows, LabelStages, Applying
  <2> QED
    BY <1>0, <2>1, EndsQuietly
<1>4. ASSUME NEW m \in Msgs, NEW heard \in BOOLEAN, LookUp(m, heard) PROVE RepairInv'
  BY <1>0, <1>4, LookUpRepairs
<1>5. CASE LookedUp
  BY <1>0, <1>5, LookedUpKeeps
<1>6. CASE CheckTargets
  BY <1>0, <1>6, CheckTargetsKeeps
<1>7. CASE MoveToLabel
  BY <1>0, <1>7, MoveToLabelKeeps
<1>8. ASSUME NEW some, MoveToLabelFails(some) PROVE RepairInv'
  BY <1>0, <1>8, MoveToLabelFailsKeeps
<1>9. CASE Transitioned
  <2>1. /\ pc = "transitioning" /\ pc \in Applying /\ LabelEnds(job, {})
        /\ UNCHANGED <<marks, repairs>>
    BY <1>9 DEF Transitioned, Applying
  <2> QED
    BY <1>0, <2>1, InProgress, EndsQuietly
<1> QED
  BY <1>1, <1>2, <1>3, <1>4, <1>5, <1>6, <1>7, <1>8, <1>9 DEF Relabelling
-----------------------------------------------------------------------------
(* Repairs: the end.                                                        *)

LEMMA FinishRepairs == ASSUME Inv, Finish PROVE RepairInv'
<1>1. /\ pc = "relabelling" /\ pc' = "done" /\ jobs = {}
      /\ labelsFailed \subseteq labelsFailed'
      /\ preserved' = {m \in (matched \cap verified) \ (labelsFailed' \cup flagsFailed) :
                         PreservationSource(m) = "restoreReceipt"}
      /\ UNCHANGED <<messageId, req, offer, place, located, changed, calm, original, seen, verified,
                     refresh, broken, marks, repairs, jobs, job, targets, flagsFailed>>
  BY DEF Finish, settled, mailbox, report, whereabouts, world, measured, work, Goto
<1>2. TypeOK /\ RepairInv /\ pc \in LabelStages /\ [Next]_vars
  BY <1>1 DEF Inv, LabelStages, Next, Handler
<1>3. /\ \A m : PreservationSource(m)' = PreservationSource(m)
      /\ \A m : HasBaseline(m)' <=> HasBaseline(m)
      /\ \A m : Unmistakable(m)' <=> Unmistakable(m)
      /\ \A m : LabelsNeeded(m)' = LabelsNeeded(m)
      /\ \A m, ls : LabelsOf(marks, m, ls)' = LabelsOf(marks, m, ls)
  <2>1. \A m, ls : LabelsOf(marks, m, ls)' = LabelsOf(marks, m, ls)
    BY <1>1 DEF LabelsOf
  <2> QED
    BY <1>1, <1>2, <2>1, PlanKeeps
<1>4. FreshInv' /\ JobInv' /\ BaselineInv' /\ VerifiedInv' /\ RefreshInv'
  BY <1>1, <1>2, <1>3
     DEF RepairInv, FreshInv, JobInv, BaselineInv, VerifiedInv, RefreshInv, Fresh, Early,
         Classifying, LabelStages, Applying, Finished
<1>5. SeenInv' /\ TargetInv' /\ ReachInv'
  BY <1>1, <1>2, <1>3 DEF RepairInv, SeenInv, TargetInv, ReachInv, Applying
<1>6. FlagsInv' /\ LabelsInv'
  <2>1. pc' \notin {"repairing", "storing"}
    BY <1>1
  <2>2. ASSUME calm, NEW m \in verified, Unmistakable(m), HasBaseline(m)
        PROVE  m \in flagsFailed \/ marks[m] \cap Flags = original[m] \cap Flags
    BY <1>2, <2>2 DEF RepairInv, FlagsInv
  <2>3. ASSUME calm, NEW m \in verified, NEW l \in LabelsNeeded(m), Unmistakable(m)
        PROVE  l \in LabelsOf(marks, m, {l})' \/ m \in labelsFailed' \/ l \in jobs'
    BY <1>1, <1>2, <1>3, <2>3 DEF RepairInv, LabelsInv
  <2>4. UNCHANGED <<calm, verified, flagsFailed, marks, original>>
    BY <1>1
  <2> QED
    BY ONLY <1>3, <2>1, <2>2, <2>3, <2>4 DEF FlagsInv, LabelsInv
<1>7. PreservedInv' /\ RepairKnown'
  <2>1. ~broken
    BY <1>1, <1>2 DEF RepairInv, FreshInv
  <2>2. \A m \in preserved' : m \in verified' \ (labelsFailed' \cup flagsFailed')
    BY <1>1
  <2>3. PreservedInv'
    BY <1>1, <1>2, <1>3, <2>1, <2>2 DEF PreservedInv, Finished, TypeOK
  <2> QED
    BY <1>1, <1>2, <2>3 DEF RepairInv, RepairKnown
<1> QED
  BY <1>4, <1>5, <1>6, <1>7 DEF RepairInv

LEMMA CaughtRepairs == ASSUME Inv, PostMoveCaught PROVE RepairInv'
<1>1. /\ pc' = "done" /\ pc # "done" /\ broken'
      /\ UNCHANGED <<messageId, req, offer, place, located, changed, calm, original, seen, verified,
                     preserved, marks, repairs, jobs, job, targets>>
  BY DEF PostMoveCaught, Exposed, settled, mailbox, report, whereabouts, world, measured, work, Goto
<1>2. RepairInv /\ preserved = {}
  BY <1>1 DEF Inv, RepairInv, PreservedInv, Finished
<1>3. FreshInv' /\ JobInv' /\ BaselineInv' /\ VerifiedInv' /\ RefreshInv'
  BY <1>1, <1>2
     DEF RepairInv, FreshInv, JobInv, BaselineInv, VerifiedInv, RefreshInv, Fresh, Early,
         Classifying, LabelStages, Applying, Finished
<1>4. TargetInv' /\ ReachInv' /\ FlagsInv' /\ LabelsInv' /\ PreservedInv' /\ RepairKnown'
  BY <1>1, <1>2
     DEF RepairInv, TargetInv, ReachInv, FlagsInv, LabelsInv, PreservedInv, RepairKnown, Applying,
         LabelStages, Finished
<1>5. SeenInv'
  BY <1>1, <1>2 DEF RepairInv, SeenInv, LabelsOf
<1> QED
  BY <1>3, <1>4, <1>5 DEF RepairInv

LEMMA StutterRepairs == ASSUME Inv, UNCHANGED vars PROVE RepairInv'
<1>1. UNCHANGED <<messageId, place, pc, req, offer, todo, located, changed, calm, original, seen,
                  verified, jobs, job, targets, labelsFailed, flagsFailed, refresh, broken,
                  preserved, marks, repairs>>
  BY DEF vars, relocationVars, restoreVars, world, measured, work, outcome
<1>2. RepairInv
  BY DEF Inv
<1>3. /\ \A m : PreservationSource(m)' = PreservationSource(m)
      /\ \A m : HasBaseline(m)' <=> HasBaseline(m)
      /\ \A m : Unmistakable(m)' <=> Unmistakable(m)
      /\ \A m : LabelsNeeded(m)' = LabelsNeeded(m)
      /\ \A flag, add : FlagTargets(flag, add)' = FlagTargets(flag, add)
      /\ \A l : LabelTargets(l)' = LabelTargets(l)
  BY <1>1, PlanKeeps
<1>4. \A m, ls : LabelsOf(marks, m, ls)' = LabelsOf(marks, m, ls)
  BY <1>1 DEF LabelsOf
<1>5. FreshInv' /\ JobInv' /\ BaselineInv' /\ VerifiedInv' /\ RefreshInv' /\ PreservedInv'
  BY <1>1, <1>2, <1>3
     DEF RepairInv, FreshInv, JobInv, BaselineInv, VerifiedInv, RefreshInv, PreservedInv, Finished
<1>6. SeenInv' /\ RepairKnown'
  BY <1>1, <1>2, <1>3, <1>4 DEF RepairInv, SeenInv, RepairKnown
<1>7. TargetInv' /\ FlagsInv'
  BY <1>1, <1>2, <1>3 DEF RepairInv, TargetInv, FlagsInv, Finished
<1>8. ReachInv' /\ LabelsInv'
  BY <1>1, <1>2, <1>3 DEF RepairInv, ReachInv, LabelsInv, LabelsOf, LabelTargets, Finished
<1> QED
  BY <1>5, <1>6, <1>7, <1>8 DEF RepairInv
-----------------------------------------------------------------------------
(* The theorems. *)

LEMMA Initially == Init => Inv
<1> SUFFICES ASSUME Init PROVE Inv
  OBVIOUS
<1>1. RelocationInv /\ pc = "idle"
  BY RelocationInitially DEF Init, RelocationInit
<1>2. RestoreTypeOK
  <2>1. original \in [Msgs -> SUBSET Marks] /\ seen \in [Msgs -> SUBSET Marks]
    BY DEF Init
  <2>2. others \in 0 .. MaxOthers
    BY RestoreAssumption DEF Init
  <2> QED
    BY <2>1, <2>2 DEF Init, RestoreTypeOK
<1>3. TypeOK
  BY <1>1, <1>2
     DEF RelocationInv, RelocationTypeOK, WithinInv, RestoreTypeOK, TypeOK
<1>4. changed = {} /\ changed \subseteq Msgs
  BY DEF Init, RelocationInit
<1>5. FreshInv /\ JobInv /\ BaselineInv /\ VerifiedInv /\ SeenInv /\ TargetInv
  BY <1>1, <1>4
     DEF Init, FreshInv, JobInv, BaselineInv, VerifiedInv, SeenInv, TargetInv, Finished, Applying
<1>6. ReachInv /\ FlagsInv /\ LabelsInv /\ RefreshInv /\ PreservedInv /\ RepairKnown
  BY <1>1, <1>4
     DEF Init, ReachInv, FlagsInv, LabelsInv, RefreshInv, PreservedInv, RepairKnown, Finished,
         Applying, LabelStages
<1> QED
  BY <1>1, <1>3, <1>5, <1>6 DEF Inv, RepairInv

LEMMA Step == Inv /\ [Next]_vars => Inv'
<1> SUFFICES ASSUME Inv, [Next]_vars PROVE Inv'
  OBVIOUS
<1>1. TypeOK' /\ RelocationInv'
  BY TypeStep, RelocationStep
<1>2. RepairInv'
  BY UpToMoveRepairs, ComparingRepairs, RepairingRepairs, RelabellingRepairs, FinishRepairs,
     CaughtRepairs, WorldRepairs, StutterRepairs
     DEF Next, Handler, UpToMove
<1> QED
  BY <1>1, <1>2 DEF Inv

\* The inductive invariant holds throughout every restore.
THEOREM Invariance == Spec => []Inv
BY Initially, Step, PTL DEF Spec

\* Every variable keeps its type; the report speaks of messages that were matched.
THEOREM TypeCorrect == Spec => []TypeOK
<1>1. Inv => TypeOK
  BY DEF Inv
<1> QED
  BY <1>1, Invariance, PTL

\* A message reported as statePreserved has the flags and labels of its receipt.
THEOREM PreservedIntactHolds == Spec => []PreservedIntact
<1>1. Inv => PreservedIntact
  <2> SUFFICES ASSUME Inv, pc = "done", calm, NEW m \in preserved, Unmistakable(m)
               PROVE  /\ marks[m] \cap Flags = offer.receipts[m].marks \cap Flags
                      /\ offer.receipts[m].marks \cap Labels \subseteq LabelsOf(marks, m, Labels)
    BY DEF PreservedIntact
  <2>1. /\ TypeOK /\ RepairInv /\ Finished /\ PreservationSource(m) = "restoreReceipt"
        /\ m \in verified /\ m \notin labelsFailed /\ m \notin flagsFailed
        /\ m \in changed /\ m \in Msgs
    BY DEF Inv, TypeOK, RepairInv, PreservedInv
  <2>2. HasBaseline(m) /\ original[m] = offer.receipts[m].marks /\ jobs = {}
    BY <2>1 DEF HasBaseline, RepairInv, BaselineInv, JobInv
  <2>3. marks[m] \cap Flags = original[m] \cap Flags
    BY <2>1, <2>2 DEF RepairInv, FlagsInv
  <2>4. ASSUME NEW l \in original[m] \cap Labels PROVE l \in LabelsOf(marks, m, Labels)
    <3>1. CASE l \in seen[m]
      BY <2>1, <2>4, <3>1 DEF RepairInv, SeenInv
    <3>2. CASE l \notin seen[m]
      <4>1. l \in LabelsNeeded(m)
        BY <2>2, <2>4, <3>2 DEF LabelsNeeded, LabelsMissing
      <4>2. l \in LabelsOf(marks, m, {l})
        BY <2>1, <2>2, <4>1 DEF RepairInv, LabelsInv
      <4> QED
        BY <2>4, <4>2, LabelsOfType
    <3> QED
      BY <3>1, <3>2
  <2> QED
    BY <2>2, <2>3, <2>4
<1> QED
  BY <1>1, Invariance, PTL

\* An answer without partialSuccess: all is back as in the baseline, extra labels included.
THEOREM CleanIsIntactHolds == Spec => []CleanIsIntact
<1>1. Inv => CleanIsIntact
  <2> SUFFICES ASSUME Inv, pc = "done", ~req.dryRun, calm, ~PartialSuccess,
                      NEW m \in matched, Unmistakable(m), HasBaseline(m)
               PROVE  /\ m \in changed
                      /\ marks[m] \cap Flags = original[m] \cap Flags
                      /\ (original[m] \cap Labels) \cup offer.extras \subseteq
                           LabelsOf(marks, m, Labels)
    BY DEF CleanIsIntact
  <2>1. TypeOK /\ RepairInv /\ matched = changed \cup failed \cup uncertain
    BY DEF Inv, RelocationInv, SplitInv
  <2>2. m \in changed /\ Finished
    BY <2>1 DEF PartialSuccess, Finished
  <2>3. /\ m \in verified /\ m \notin labelsFailed /\ m \notin flagsFailed /\ jobs = {}
    BY <2>1, <2>2 DEF PartialSuccess, RepairInv, RefreshInv, JobInv
  <2>4. marks[m] \cap Flags = original[m] \cap Flags
    BY <2>1, <2>2, <2>3 DEF RepairInv, FlagsInv
  <2>5. ASSUME NEW l \in (original[m] \cap Labels) \cup offer.extras
        PROVE  l \in LabelsOf(marks, m, Labels)
    <3>1. l \in Labels
      BY <2>1, <2>5, RestoreAssumption DEF TypeOK
    <3>2. CASE l \in seen[m]
      BY <2>1, <2>2, <3>1, <3>2 DEF RepairInv, SeenInv
    <3>3. CASE l \notin seen[m]
      <4>1. l \in LabelsNeeded(m)
        BY <2>5, <3>3 DEF LabelsNeeded, LabelsMissing
      <4>2. l \in LabelsOf(marks, m, {l})
        BY <2>1, <2>2, <2>3, <4>1 DEF RepairInv, LabelsInv
      <4> QED
        BY <3>1, <4>2, LabelsOfType
    <3> QED
      BY <3>2, <3>3
  <2> QED
    BY <2>2, <2>4, <2>5
<1> QED
  BY <1>1, Invariance, PTL

\* Every label or flag the call has changed is justified by what was known.
THEOREM RepairKnownHolds == Spec => []RepairKnown
<1>1. Inv => RepairKnown
  BY DEF Inv, RepairInv
<1> QED
  BY <1>1, Invariance, PTL

\* A restore that throws has moved nothing.
THEOREM MoveNeverSwallowedHolds == Spec => []MoveNeverSwallowed
<1>1. Inv => MoveNeverSwallowed
  BY RestoreOnly DEF Inv, RelocationInv, ToolInv, MoveNeverSwallowed
<1> QED
  BY <1>1, Invariance, PTL
=============================================================================

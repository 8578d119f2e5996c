------------------------------ MODULE Restore ------------------------------
(***************************************************************************)
(* mail_restore_from_trash (src/src/mutations/restore.ts): the steps of    *)
(* Relocation with Trash as the source folder, then the comparison of each *)
(* message with its baseline and the repair of labels and flags.           *)
(*                                                                         *)
(* The baseline is a signed receipt of mail_trash if the caller hands one  *)
(* back and it validates; what the message shows in Trash if there is      *)
(* none; nothing if the receipt is rejected.  The move itself may change   *)
(* what a message carries: "Proton Bridge does not guarantee a mailbox     *)
(* transition is a pure, structural relocation".  Whatever fails after the *)
(* move is caught and reported.                                            *)
(***************************************************************************)
EXTENDS Relocation

CONSTANTS
  Labels, Flags,
  NoReceipt, NoJob,
  Offers,           \* receipts and wishes callers come with
  MaxOthers         \* bound: steps other clients take during the call

Marks == Labels \cup Flags
Receipts == [id : Ids, marks : SUBSET Marks, genuine : BOOLEAN]

ASSUME RestoreAssumption ==
  /\ Tools \subseteq {"restore"}
  /\ IsFiniteSet(Labels) /\ IsFiniteSet(Flags) /\ Labels \cap Flags = {}
  /\ NoReceipt \notin Receipts /\ NoJob \notin Labels \cup (Flags \X BOOLEAN)
  /\ Offers \subseteq [receipts : [Msgs -> Receipts \cup {NoReceipt}],
                       extras : SUBSET Labels, toOriginal : BOOLEAN]
  /\ MaxOthers \in Nat

VARIABLES
  marks, labelFolders,   \* the labels and flags each message has; the label folders there are
  offer,                 \* what the caller came with
  listed, labelsLeft,    \* label folders as last listed; those not yet searched
  original, seen,        \* the baseline of each message; what it showed after the move
  verified,              \* messages whose flags were read at their new uid
  jobs, job, targets,    \* repairs left to do, the one in progress, the messages it is for
  labelsFailed, flagsFailed, refresh, broken,   \* the report; broken: the catch-all was reached
  preserved,             \* the messages reported as statePreserved
  repairs,               \* <<message, mark, added>> the call has stored
  others, calm           \* steps of other clients; whether none came since the move

world == <<labelFolders, offer, others, calm>>
measured == <<listed, labelsLeft, original, seen, verified>>
work == <<jobs, job, targets>>
outcome == <<labelsFailed, flagsFailed, refresh, broken, preserved>>
restoreVars == <<marks, world, measured, work, outcome, repairs>>
vars == <<relocationVars, restoreVars>>

\* The variables of Relocation but for the stage and the loop.
settled == <<mailbox, moved, req, writeLock, found, report, whereabouts>>
-----------------------------------------------------------------------------
(***************************************************************************)
(* Receipts and baselines (validateRestoreReceipt, resolveBaselines).      *)
(***************************************************************************)
\* Mutant: a receipt is good for any message.
ReceiptValidAnyMessage(r, m) == req.secret /\ r.genuine /\ messageId[m] # NoId

ReceiptValid(r, m) == req.secret /\ r.genuine /\ messageId[m] # NoId /\ r.id = messageId[m]

PreservationSource(m) ==
  IF offer.receipts[m] = NoReceipt THEN "trashSnapshot"
  ELSE IF ReceiptValid(offer.receipts[m], m) THEN "restoreReceipt" ELSE "unavailable"

HasBaseline(m) == PreservationSource(m) # "unavailable"

\* What repair has to do, by what was measured after the move.
FlagTargets(flag, add) ==
  {m \in verified : HasBaseline(m) /\ flag \in (IF add THEN original[m] \ seen[m]
                                                       ELSE seen[m] \ original[m])}
LabelsMissing(m) == IF HasBaseline(m) THEN (original[m] \cap Labels) \ seen[m] ELSE {}
LabelsNeeded(m) == LabelsMissing(m) \cup offer.extras
LabelTargets(l) == {m \in verified : l \in LabelsNeeded(m)}

\* Reports are kept by new uid: of two messages with the same one, one is reported.
ByNewUid(ms) == {CHOOSE m \in ms : located[m] = u : u \in {located[m] : m \in ms}}
AtDest(ms) == {m \in ms : located[m] # NoUid /\ place[located[m]] = "dest"}
Remarked(ms, x, add) ==
  [k \in Msgs |-> IF k \in {located[m] : m \in AtDest(ms)}
                    THEN IF add THEN marks[k] \cup {x} ELSE marks[k] \ {x}
                    ELSE marks[k]]
Stored(ms, x, add) == {<<located[m], x, add>> : m \in AtDest(ms)}

Init ==
  /\ RelocationInit
  /\ marks \in [Msgs -> SUBSET Marks]
  /\ labelFolders = Labels
  /\ offer \in Offers
  /\ listed = {} /\ labelsLeft = {}
  /\ original = [m \in Msgs |-> {}] /\ seen = original
  /\ verified = {}
  /\ jobs = {} /\ job = NoJob /\ targets = {}
  /\ labelsFailed = {} /\ flagsFailed = {} /\ refresh = FALSE /\ broken = FALSE
  /\ preserved = {}
  /\ repairs = {}
  /\ others = 0 /\ calm = TRUE
-----------------------------------------------------------------------------
(***************************************************************************)
(* Before the move.                                                        *)
(***************************************************************************)
\* Extra labels must exist, and the original folder is for one message at a time.
ListFolders ==
  /\ List
  /\ offer.extras \subseteq labelFolders
  /\ offer.toOriginal => Cardinality(req.uids) = 1
  /\ listed' = labelFolders
  /\ UNCHANGED <<marks, world, labelsLeft, original, seen, verified, work, outcome, repairs>>

ResolveMeasuring ==
  /\ Resolve
  /\ original' = [m \in Msgs |-> IF m \in matched' THEN marks[m] \cap Flags ELSE {}]
  /\ labelsLeft' = IF Identified(matched') = {} THEN {} ELSE listed
  /\ UNCHANGED <<marks, world, listed, seen, verified, work, outcome, repairs>>

\* One search for each Message-ID; those not in heard are refused, and find nothing.
SearchLabel(l, heard) ==
  /\ pc = "labelling"
  /\ l \in labelsLeft \cap labelFolders
  /\ labelsLeft' = labelsLeft \ {l}
  /\ original' = [m \in Msgs |-> original[m] \cup IF m \in matched /\ messageId[m] \in heard
                                                    THEN LabelsOf(marks, m, {l}) ELSE {}]
  /\ UNCHANGED <<relocationVars, marks, world, listed, seen, verified, work, outcome, repairs>>

ResolveBaselines ==
  /\ pc = "labelling" /\ labelsLeft = {}
  /\ original' = [m \in Msgs |-> CASE PreservationSource(m) = "trashSnapshot" -> original[m]
                                   [] PreservationSource(m) = "restoreReceipt" -> offer.receipts[m].marks
                                   [] OTHER -> {}]
  /\ Goto(IF offer.toOriginal /\ \E m \in matched : PreservationSource(m) # "restoreReceipt"
            THEN "thrown" ELSE IF req.dryRun THEN "done" ELSE "locking")
  /\ UNCHANGED <<settled, todo, marks, world, listed, labelsLeft, seen, verified, work, outcome,
                 repairs>>

\* The move changes what the moved messages carry in any way.
MovesWithSideEffects ==
  /\ \/ \E map \in [Msgs -> Msgs \cup {NoUid}] : MoveSucceeds(map)
     \/ \E uids \in SUBSET Msgs : MoveThrows(uids)
  /\ \E mk \in [moved' \ moved -> SUBSET Marks] :
       marks' = [m \in Msgs |-> IF m \in moved' \ moved THEN mk[m] ELSE marks[m]]
  /\ UNCHANGED <<world, measured, work, outcome, repairs>>
-----------------------------------------------------------------------------
(***************************************************************************)
(* After the move: the new uids are looked up as in Relocation, then       *)
(* labels and flags are read again.                                        *)
(***************************************************************************)
\* Mutant: an unknown new uid is not worth a refresh.
CompareSilently ==
  /\ Reconciled
  /\ labelsLeft' = IF Identified(changed) = {} THEN {} ELSE listed
  /\ UNCHANGED <<marks, world, listed, original, seen, verified, work, outcome, repairs>>

Compare ==
  /\ Reconciled
  /\ refresh' = \E m \in changed : located[m] = NoUid
  /\ labelsLeft' = IF Identified(changed) = {} THEN {} ELSE listed
  /\ UNCHANGED <<marks, world, listed, original, seen, verified, work, labelsFailed, flagsFailed,
                 broken, preserved, repairs>>

SearchLabelAgain(l, heard) ==
  /\ pc = "comparing"
  /\ l \in labelsLeft \cap labelFolders
  /\ labelsLeft' = labelsLeft \ {l}
  /\ seen' = [m \in Msgs |-> seen[m] \cup IF m \in changed /\ messageId[m] \in heard
                                            THEN LabelsOf(marks, m, {l}) ELSE {}]
  /\ UNCHANGED <<relocationVars, marks, world, listed, original, verified, work, outcome, repairs>>

LabelsCompared ==
  /\ pc = "comparing" /\ labelsLeft = {}
  /\ todo' = {m \in changed : located[m] # NoUid}
  /\ Goto("checkingFlags")
  /\ UNCHANGED <<settled, restoreVars>>

CheckFlags(m) ==
  /\ pc = "checkingFlags"
  /\ m \in todo
  /\ todo' = todo \ {m}
  /\ \/ /\ m \in AtDest({m})
        /\ verified' = verified \cup {m}
        /\ seen' = [seen EXCEPT ![m] = @ \cup (marks[located[m]] \cap Flags)]
        /\ UNCHANGED refresh
     \/ /\ m \notin AtDest({m})
        /\ refresh' = TRUE
        /\ UNCHANGED <<verified, seen>>
  /\ UNCHANGED <<settled, pc, marks, world, listed, labelsLeft, original, work, labelsFailed,
                 flagsFailed, broken, preserved, repairs>>

FlagsChecked ==
  /\ pc = "checkingFlags" /\ todo = {}
  /\ jobs' = {g \in Flags \X BOOLEAN : FlagTargets(g[1], g[2]) # {}}
  /\ Goto("repairing")
  /\ UNCHANGED <<settled, todo, marks, world, measured, job, targets, outcome, repairs>>
-----------------------------------------------------------------------------
(***************************************************************************)
(* repairFlag: for one flag and one direction, look once more which        *)
(* messages are there, then store.                                         *)
(***************************************************************************)
LookForRepair(flag, add) ==
  LET there == AtDest(FlagTargets(flag, add)) IN
  /\ pc = "repairing" /\ <<flag, add>> \in jobs
  /\ flagsFailed' = flagsFailed \cup ByNewUid(FlagTargets(flag, add) \ there)
  /\ targets' = ByNewUid(there)
  /\ IF there = {} THEN jobs' = jobs \ {<<flag, add>>} /\ UNCHANGED <<pc, job>>
                   ELSE job' = <<flag, add>> /\ Goto("storing") /\ UNCHANGED jobs
  /\ UNCHANGED <<settled, todo, marks, world, measured, labelsFailed, refresh, broken, preserved,
                 repairs>>

\* What a repair of the flags leaves when it is over: the next one may begin.
RepairEnds(flag, add) ==
  /\ jobs' = jobs \ {<<flag, add>>} /\ job' = NoJob /\ targets' = {}
  /\ Goto("repairing")
  /\ UNCHANGED <<settled, todo, world, measured, labelsFailed, refresh, broken, preserved>>

StoreFlag(flag, add) ==
  /\ pc = "storing" /\ job = <<flag, add>>
  /\ marks' = Remarked(targets, flag, add)
  /\ repairs' = repairs \cup Stored(targets, flag, add)
  /\ RepairEnds(flag, add)
  /\ UNCHANGED flagsFailed

\* Mutant: a refused STORE counts as done.
StoreRejectedIgnored(flag, add) ==
  /\ pc = "storing" /\ job = <<flag, add>>
  /\ RepairEnds(flag, add)
  /\ UNCHANGED <<marks, flagsFailed, repairs>>

StoreRejected(flag, add) ==
  /\ pc = "storing" /\ job = <<flag, add>>
  /\ flagsFailed' = flagsFailed \cup targets
  /\ RepairEnds(flag, add)
  /\ UNCHANGED <<marks, repairs>>

\* The fetch or the STORE throws; the server may have stored some.
RepairThrows(flag, add, some) ==
  /\ \/ pc = "repairing" /\ <<flag, add>> \in jobs /\ some = {}
     \/ pc = "storing" /\ job = <<flag, add>> /\ some \subseteq targets
  /\ flagsFailed' = flagsFailed \cup FlagTargets(flag, add)
  /\ marks' = Remarked(some, flag, add)
  /\ repairs' = repairs \cup Stored(some, flag, add)
  /\ RepairEnds(flag, add)

FlagsRepaired ==
  /\ pc = "repairing" /\ jobs = {}
  /\ jobs' = {l \in Labels : LabelTargets(l) # {}}
  /\ Goto(IF jobs' = {} THEN "relabelling" ELSE "relisting")
  /\ UNCHANGED <<settled, todo, marks, world, measured, job, targets, outcome, repairs>>
-----------------------------------------------------------------------------
(***************************************************************************)
(* Labels: list the folders once more, then applyLabel for each label, on  *)
(* the new uids.                                                           *)
(***************************************************************************)
Relist ==
  /\ pc = "relisting"
  /\ listed' = labelFolders
  /\ Goto("relabelling")
  /\ UNCHANGED <<settled, todo, marks, world, labelsLeft, original, seen, verified, work, outcome,
                 repairs>>

\* What a label leaves when it is dealt with, and whom it failed for.
LabelEnds(l, failures) ==
  /\ jobs' = jobs \ {l} /\ job' = NoJob /\ targets' = {} /\ todo' = {}
  /\ labelsFailed' = labelsFailed \cup failures
  /\ Goto("relabelling")
  /\ UNCHANGED <<settled, world, measured, flagsFailed, refresh, broken, preserved>>

LabelGone(l) ==
  /\ pc = "relabelling"
  /\ l \in jobs \ listed
  /\ LabelEnds(l, LabelTargets(l))
  /\ UNCHANGED <<marks, repairs>>

\* applyLabel lists and resolves.
ApplyLabel(l) ==
  LET there == AtDest(LabelTargets(l)) IN
  /\ pc = "relabelling"
  /\ l \in jobs \cap listed \cap labelFolders
  /\ job' = l
  /\ labelsFailed' = labelsFailed \cup ByNewUid(LabelTargets(l) \ there)
  /\ targets' = ByNewUid(there) /\ todo' = targets'
  /\ Goto("looking")
  /\ UNCHANGED <<settled, marks, world, measured, jobs, flagsFailed, refresh, broken, preserved,
                 repairs>>

\* A message that already has the label is skipped, which counts as restored; one whose
\* search is refused is labelled again.
LookUp(m, heard) ==
  /\ pc \in {"looking", "lookingAgain"}
  /\ m \in todo /\ job \in labelFolders
  /\ todo' = todo \ {m}
  /\ targets' = IF heard /\ LabelsOf(marks, m, {job}) # {} THEN targets \ {m} ELSE targets
  /\ UNCHANGED <<settled, pc, marks, world, measured, jobs, job, outcome, repairs>>

LookedUp ==
  /\ pc \in {"looking", "lookingAgain"} /\ todo = {}
  /\ IF targets = {} THEN LabelEnds(job, {})
     ELSE /\ IF pc = "looking" THEN todo' = targets /\ Goto("lookingAgain")
                               ELSE UNCHANGED todo /\ Goto("checking")
          /\ UNCHANGED <<settled, world, measured, work, outcome>>
  /\ UNCHANGED <<marks, repairs>>

\* Under the write lock: which messages are still there.
CheckTargets ==
  /\ pc = "checking"
  /\ IF AtDest(targets) = {} THEN LabelEnds(job, targets)
     ELSE /\ labelsFailed' = labelsFailed \cup (targets \ AtDest(targets))
          /\ targets' = AtDest(targets)
          /\ Goto("applying")
          /\ UNCHANGED <<settled, todo, world, measured, jobs, job, flagsFailed, refresh, broken,
                         preserved>>
  /\ UNCHANGED <<marks, repairs>>

MoveToLabel ==
  /\ pc = "applying" /\ job \in labelFolders
  /\ marks' = Remarked(targets, job, TRUE)
  /\ repairs' = repairs \cup Stored(targets, job, TRUE)
  /\ Goto("transitioning")
  /\ UNCHANGED <<settled, todo, world, measured, work, outcome>>

\* The check or the move throws, or the move is refused: errors for what was left to label.
MoveToLabelFails(some) ==
  /\ \/ pc \in {"checking", "applying"} /\ some = {}
     \/ pc = "applying" /\ some \subseteq targets /\ job \in labelFolders
  /\ marks' = Remarked(some, job, TRUE)
  /\ repairs' = repairs \cup Stored(some, job, TRUE)
  /\ LabelEnds(job, targets)

\* The copies in the label folder are looked up; the restore does not use what is found.
Transitioned ==
  /\ pc = "transitioning"
  /\ LabelEnds(job, {})
  /\ UNCHANGED <<marks, repairs>>

\* applyLabel throws: the label failed for everyone, even if it has been applied.
ApplyLabelThrows(l) ==
  /\ \/ pc = "relabelling" /\ l \in jobs \cap listed
     \/ pc \in {"looking", "lookingAgain", "checking", "transitioning"} /\ l = job
  /\ LabelEnds(l, LabelTargets(l))
  /\ UNCHANGED <<marks, repairs>>
-----------------------------------------------------------------------------
(***************************************************************************)
(* The end.                                                                *)
(***************************************************************************)
\* Mutant: the new uid need not have been verified.
FinishUnverified ==
  /\ pc = "relabelling" /\ jobs = {}
  /\ labelsFailed' = labelsFailed \cup {m \in changed \ verified : LabelsNeeded(m) # {}}
  /\ preserved' = {m \in matched \ (labelsFailed' \cup flagsFailed) :
                     PreservationSource(m) = "restoreReceipt"}
  /\ Goto("done")
  /\ UNCHANGED <<settled, todo, marks, world, measured, work, flagsFailed, refresh, broken, repairs>>

Finish ==
  /\ pc = "relabelling" /\ jobs = {}
  /\ labelsFailed' = labelsFailed \cup {m \in changed \ verified : LabelsNeeded(m) # {}}
  /\ preserved' = {m \in (matched \cap verified) \ (labelsFailed' \cup flagsFailed) :
                     PreservationSource(m) = "restoreReceipt"}
  /\ Goto("done")
  /\ UNCHANGED <<settled, todo, marks, world, measured, work, flagsFailed, refresh, broken, repairs>>

\* Where a command may throw with no catch nearer than the last one.
Exposed ==
  \/ pc = "reconciling" /\ todo # {}
  \/ pc = "comparing" /\ labelsLeft # {}
  \/ pc = "checkingFlags" /\ todo # {}
  \/ pc = "repairing" /\ jobs # {}
  \/ pc = "relisting"

\* Mutant: the exception leaves the handler.
PostMoveThrows ==
  /\ Exposed
  /\ Goto("thrown")
  /\ UNCHANGED <<settled, todo, restoreVars>>

\* The catch-all: every changed message is an error; what was repaired so far is not listed.
PostMoveCaught ==
  /\ Exposed
  /\ broken' = TRUE /\ refresh' = TRUE
  /\ labelsFailed' = {} /\ flagsFailed' = {}
  /\ Goto("done")
  /\ UNCHANGED <<settled, todo, marks, world, measured, work, preserved, repairs>>

\* partialSuccess (finalizeLiveResult).
PartialSuccess ==
  \/ failed # {} \/ uncertain # {} \/ broken
  \/ labelsFailed # {} \/ flagsFailed # {} \/ refresh
-----------------------------------------------------------------------------
(***************************************************************************)
(* Other clients and Proton Bridge, while the call runs.                   *)
(***************************************************************************)
BeforeMove == pc \in {"listing", "resolving", "labelling", "locking", "revalidating", "moving"}
Elsewhere ==
  /\ Running /\ others < MaxOthers
  /\ others' = others + 1
  /\ calm' = (calm /\ BeforeMove)
  /\ UNCHANGED <<offer, measured, work, outcome, repairs>>

Remark(m, x) ==
  /\ Elsewhere
  /\ marks' = [marks EXCEPT ![m] = IF x \in @ THEN @ \ {x} ELSE @ \cup ({x} \cap (Flags \cup labelFolders))]
  /\ UNCHANGED <<relocationVars, labelFolders>>

DeleteLabel(l) ==
  /\ Elsewhere
  /\ labelFolders' = labelFolders \ {l}
  /\ marks' = [m \in Msgs |-> marks[m] \ {l}]
  /\ UNCHANGED relocationVars

MoveElsewhere(m, to) ==
  /\ OtherClient(m, to)
  /\ Elsewhere
  /\ UNCHANGED <<marks, labelFolders>>
-----------------------------------------------------------------------------
Relocating ==
  \/ Start \/ Fails \/ Lock \/ Revalidate \/ MoveRejected
  \/ \E m \in Msgs, heard \in BOOLEAN :
       SearchSource(m, heard) \/ SearchDest(m, heard) \/ SearchById(m, heard)
  \/ \E m \in Msgs : VerifyMapped(m)
  \/ SourceSearched \/ SearchFails \/ Classified

Comparing ==
  \/ Compare \/ LabelsCompared \/ FlagsChecked
  \/ \E l \in Labels, heard \in SUBSET Ids : SearchLabelAgain(l, heard)
  \/ \E m \in Msgs : CheckFlags(m)

RepairingFlags ==
  \/ \E flag \in Flags, add \in BOOLEAN :
       \/ LookForRepair(flag, add) \/ StoreFlag(flag, add) \/ StoreRejected(flag, add)
       \/ \E some \in SUBSET Msgs : RepairThrows(flag, add, some)
  \/ FlagsRepaired

Relabelling ==
  \/ Relist \/ LookedUp \/ CheckTargets \/ MoveToLabel \/ Transitioned
  \/ \E l \in Labels : LabelGone(l) \/ ApplyLabel(l) \/ ApplyLabelThrows(l)
  \/ \E m \in Msgs, heard \in BOOLEAN : LookUp(m, heard)
  \/ \E some \in SUBSET Msgs : MoveToLabelFails(some)

Handler ==
  \/ Relocating /\ UNCHANGED restoreVars
  \/ ListFolders \/ ResolveMeasuring \/ ResolveBaselines \/ MovesWithSideEffects
  \/ \E l \in Labels, heard \in SUBSET Ids : SearchLabel(l, heard)
  \/ Comparing \/ RepairingFlags \/ Relabelling
  \/ Finish \/ PostMoveCaught

World ==
  \/ \E m \in Msgs, x \in Marks : Remark(m, x)
  \/ \E l \in Labels : DeleteLabel(l)
  \/ \E m \in Msgs, to \in Places : MoveElsewhere(m, to)

Next == Handler \/ World

Spec == Init /\ [][Next]_vars

\* Every command is answered or fails, except a wait for a lock the call itself holds.
LiveSpec == Spec /\ WF_vars(~Waiting /\ Handler)
-----------------------------------------------------------------------------
TypeOK ==
  /\ messageId \in [Msgs -> Ids \cup {NoId}]
  /\ place \in [Msgs -> Places] /\ moved \subseteq Msgs
  /\ pc \in Stages /\ req \in Requests /\ writeLock \in BOOLEAN
  /\ todo \subseteq Msgs /\ found \subseteq Msgs
  /\ matched \subseteq Msgs /\ missing \subseteq Msgs
  /\ changed \subseteq matched /\ failed \subseteq matched /\ uncertain \subseteq matched
  /\ uidMap \in [Msgs -> Msgs \cup {NoUid}] /\ located \in [Msgs -> Msgs \cup {NoUid}]
  /\ marks \in [Msgs -> SUBSET Marks] /\ labelFolders \subseteq Labels /\ offer \in Offers
  /\ listed \subseteq Labels /\ labelsLeft \subseteq Labels
  /\ original \in [Msgs -> SUBSET Marks] /\ seen \in [Msgs -> SUBSET Marks]
  /\ verified \subseteq changed /\ preserved \subseteq verified
  /\ jobs \subseteq Labels \cup (Flags \X BOOLEAN)
  /\ job \in jobs \cup {NoJob} /\ targets \subseteq verified
  /\ labelsFailed \subseteq changed /\ flagsFailed \subseteq verified
  /\ refresh \in BOOLEAN /\ broken \in BOOLEAN
  /\ repairs \subseteq Msgs \X Marks \X BOOLEAN
  /\ others \in 0 .. MaxOthers /\ calm \in BOOLEAN

\* No other message carries the Message-ID of m.
Unmistakable(m) == \A k \in Msgs \ {m} : messageId[k] = messageId[m] => messageId[m] = NoId

(***************************************************************************)
(* statePreserved keeps its word: unless someone else has touched the      *)
(* mailbox since the move, the message has the flags of its receipt, and   *)
(* all its labels (restore.ts:136-144).  With two copies of one Message-ID *)
(* it cannot be told which one was repaired.                               *)
(***************************************************************************)
PreservedIntact ==
  pc = "done" /\ calm =>
    \A m \in preserved : Unmistakable(m) =>
      /\ marks[m] \cap Flags = offer.receipts[m].marks \cap Flags
      /\ offer.receipts[m].marks \cap Labels \subseteq LabelsOf(marks, m, Labels)

(***************************************************************************)
(* A live answer without partialSuccess means that every message is back   *)
(* with the flags and labels of its baseline and the extra labels asked    *)
(* for (restore.ts:180-187), where there is a baseline.                    *)
(***************************************************************************)
CleanIsIntact ==
  pc = "done" /\ ~req.dryRun /\ calm /\ ~PartialSuccess =>
    \A m \in matched : Unmistakable(m) /\ HasBaseline(m) =>
      /\ m \in changed
      /\ marks[m] \cap Flags = original[m] \cap Flags
      /\ (original[m] \cap Labels) \cup offer.extras \subseteq LabelsOf(marks, m, Labels)

(***************************************************************************)
(* Repair is limited to known state: what the call has added to or taken   *)
(* from a message is justified by a message with its Message-ID that was   *)
(* moved, by the receipt for it (genuine, and of that Message-ID), by what *)
(* it showed in Trash if there is no receipt, or by an extra label         *)
(* (SECURITY.md, "Repair is limited to known pre-move state").             *)
(***************************************************************************)
RepairKnown ==
  \A r \in repairs : \E m \in changed :
    /\ messageId[m] = messageId[r[1]]
    /\ \/ r[3] /\ r[2] \in offer.extras
       \/ /\ offer.receipts[m] = NoReceipt
          /\ r[3] = (r[2] \in original[m])
       \/ /\ offer.receipts[m] # NoReceipt
          /\ offer.receipts[m].genuine /\ offer.receipts[m].id = messageId[m]
          /\ r[3] = (r[2] \in offer.receipts[m].marks)

(***************************************************************************)
(* "An already-successful move is never swallowed by a later failure": a   *)
(* restore that throws has moved nothing (SECURITY.md:303).                *)
(***************************************************************************)
MoveNeverSwallowed == pc = "thrown" => moved = {}

(***************************************************************************)
(* Every restore answers, whatever fails, except one whose move threw and  *)
(* which waits for its own lock from then on (restore.ts:628).             *)
(***************************************************************************)
CallAnswers == pc = "listing" ~> (pc \in {"done", "thrown"} \/ []Waiting)

(***************************************************************************)
(* partialSuccess is "False only when the move completed, every            *)
(* preservable flag and every original/extra label ended up exactly as     *)
(* intended" (restore.ts:183-187): what a caller's genuine receipt asks    *)
(* for is what was intended.                                               *)
(***************************************************************************)
CleanMeansAsIntended ==
  pc = "done" /\ ~req.dryRun /\ calm /\ ~PartialSuccess =>
    \A m \in matched : LET r == offer.receipts[m] IN
      (r # NoReceipt /\ r.genuine /\ r.id = messageId[m]) =>
        r.marks \cap Labels \subseteq LabelsOf(marks, m, Labels)
=============================================================================

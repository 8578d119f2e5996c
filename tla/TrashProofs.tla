---------------------------- MODULE TrashProofs ----------------------------
(***************************************************************************)
(* Proofs about Trash, for any messages, Message-IDs, labels, flags and    *)
(* requests, any map of new uids the server answers with, and any steps of *)
(* other clients; on top of RelocationProofs.                              *)
(***************************************************************************)
EXTENDS Trash, RelocationProofs

-----------------------------------------------------------------------------
(* The inductive invariant: what RelocationProofs keeps, one part about     *)
(* refused searches, and three about what is measured.                     *)

\* Once the uids have been looked at under the write lock, the messages the call
\* goes on with were in the source folder while they were measured.
Held == pc \in {"moving", "classifySource", "classifyDest", "remeasuring", "reconciling", "issuing"}

\* A message in the source folder shows what it has shown all the time, and
\* nothing it has never shown.
ShownInv ==
  \A m \in Msgs : place[m] = "source" =>
    steady[m] \subseteq Shown(marks, m) /\ Shown(marks, m) \subseteq ever[m]

\* What was measured lies between the two, but for the labels still to be searched
\* and those whose search was refused.
MeasuredInv ==
  /\ \A m \in matched : place[m] = "source" \/ Held =>
       /\ steady[m] \ unheard[m] \subseteq original[m] \cup labelsLeft
       /\ original[m] \subseteq ever[m]
  /\ req.tool = "trash" /\ pc \notin {"labelling", "done", "thrown"} => labelsLeft = {}

\* What a receipt names lies between the two as well.
ReceiptInv ==
  \A m \in Msgs : receipt[m] # NoReceipt =>
    steady[m] \ unheard[m] \subseteq receipt[m].marks /\ receipt[m].marks \subseteq ever[m]

\* What the search of the source folder did not find, and what is reported as changed,
\* has left that folder, unless the search was refused.
RefusedInv ==
  /\ pc = "classifySource" =>
       \A m \in Identified(matched) \ (todo \cup found) : place[m] = "source" => m \in refused
  /\ pc = "classifyDest" => \A m \in todo : place[m] = "source" => m \in refused
  /\ \A m \in changed : place[m] = "source" => m \in refused

Inv == TypeOK /\ RelocationInv /\ RefusedInv /\ ShownInv /\ MeasuredInv /\ ReceiptInv
-----------------------------------------------------------------------------
(* Steps of Relocation. *)

LEMMA RelocationStep == ASSUME Inv, [Next]_vars PROVE RelocationInv'
<1>0. RelocationInv
  BY DEF Inv
<1>1. CASE UNCHANGED relocationVars
  BY <1>0, <1>1, UnchangedKeeps
<1>2. CASE Relocating
  BY <1>0, <1>2, StageKeeps, RevalidateKeeps, RefusalKeeps, MoveSucceedsKeeps, MoveThrowsKeeps,
     SourceSearchedKeeps, SearchDestKeeps, SearchFailsKeeps, ClassifiedKeeps, LookUpKeeps,
     ReconciledKeeps
     DEF Relocating
<1>3. CASE ResolveMeasuring
  BY <1>0, <1>3, ResolveKeeps DEF ResolveMeasuring
<1>4. CASE LabelsSearched
  BY <1>0, <1>4, LabelledKeeps DEF LabelsSearched, Goto
<1>5. ASSUME Remeasure \/ Issued \/ \E m \in Msgs : Issue(m)
      PROVE  RelocationInv'
  <2>1. todo \subseteq changed /\ req.tool = "trash" /\ pc \in Late
    BY <1>0, <1>5
       DEF Remeasure, Issued, Issue, RelocationInv, SplitInv, ToolInv, Late, Early, Classifying,
           Stages
  <2> QED
    BY <1>0, <1>5, <2>1, LateKeeps
       DEF Remeasure, Issued, Issue, Goto, Late, Early, Classifying, Stages
<1>6. ASSUME NEW m \in Msgs, NEW to \in Places, OtherClient(m, to) PROVE RelocationInv'
  BY <1>0, <1>6, OtherClientKeeps
<1>7. ASSUME NEW m \in Msgs, NEW heard \in BOOLEAN, SearchSourceHeard(m, heard)
      PROVE  RelocationInv'
  BY <1>0, <1>7, SearchSourceKeeps DEF SearchSourceHeard
<1> QED
  BY <1>1, <1>2, <1>3, <1>4, <1>5, <1>6, <1>7
     DEF Next, Handler, World, SearchLabel, Remark, vars, relocationVars
-----------------------------------------------------------------------------
(* Types. *)

LEMMA ShownType ==
  ASSUME NEW mk \in [Msgs -> SUBSET Marks], NEW m \in Msgs
  PROVE  Shown(mk, m) \subseteq Marks
BY DEF Shown, LabelsOf, Marks

LEMMA InitInv == Init => Inv
<1> SUFFICES ASSUME Init PROVE Inv
  OBVIOUS
<1> USE DEF Init
<1>1. RelocationInv
  BY RelocationInitially
<1>2. TypeOK
  BY <1>1, ShownType DEF TypeOK, RelocationInv, RelocationTypeOK, Marks
<1>3. RefusedInv /\ ShownInv /\ MeasuredInv /\ ReceiptInv
  BY DEF RefusedInv, ShownInv, MeasuredInv, ReceiptInv, RelocationInit, Held
<1> QED
  BY <1>1, <1>2, <1>3 DEF Inv

LEMMA TypeStep == ASSUME Inv, [Next]_vars PROVE TypeOK'
<1> USE DEF Inv
<1>0. RelocationTypeOK'
  BY RelocationStep DEF RelocationInv
<1>1. CASE UNCHANGED <<markVars, measured>>
  BY <1>0, <1>1 DEF TypeOK, RelocationTypeOK, markVars, measured
<1>2. CASE ResolveMeasuring
  BY <1>0, <1>2 DEF ResolveMeasuring, TypeOK, RelocationTypeOK, markVars, Marks
<1>3. ASSUME NEW l \in Labels, NEW heard \in SUBSET Ids, SearchLabel(l, heard) PROVE TypeOK'
  <2>1. \A m \in Msgs : LabelsOf(marks, m, {l}) \subseteq Labels
    BY DEF LabelsOf
  <2>2. unheard' \in [Msgs -> SUBSET Labels]
    BY <1>3, <2>1 DEF SearchLabel, TypeOK
  <2>3. original' \in [Msgs -> SUBSET Marks]
    BY <1>3 DEF SearchLabel, TypeOK, Marks
  <2> QED
    BY <1>0, <1>3, <2>2, <2>3 DEF SearchLabel, TypeOK, RelocationTypeOK
<1>4. ASSUME NEW m \in Msgs, Issue(m) PROVE TypeOK'
  BY <1>0, <1>4 DEF Issue, TypeOK, RelocationTypeOK, mailbox, markVars, Receipts
<1>5. ASSUME NEW m \in Msgs, NEW x \in Marks, Remark(m, x) PROVE TypeOK'
  <2>1. marks' \in [Msgs -> SUBSET Marks]
    BY <1>5 DEF Remark, TypeOK
  <2>2. \A k \in Msgs : Shown(marks', k) \subseteq Marks
    BY <2>1, ShownType
  <2>3. steady' \in [Msgs -> SUBSET Marks] /\ ever' \in [Msgs -> SUBSET Marks]
    BY <1>5, <2>2 DEF Remark, TypeOK
  <2> QED
    BY <1>0, <1>5, <2>1, <2>3 DEF Remark, TypeOK, RelocationTypeOK, measured
<1>6. ASSUME NEW m \in Msgs, NEW heard \in BOOLEAN, SearchSourceHeard(m, heard) PROVE TypeOK'
  BY <1>0, <1>6
     DEF SearchSourceHeard, Namesakes, Identified, TypeOK, RelocationTypeOK, measured
<1> QED
  BY <1>1, <1>2, <1>3, <1>4, <1>5, <1>6
     DEF Next, Handler, World, LabelsSearched, Remeasure, Issued, vars
-----------------------------------------------------------------------------
(* What was shown, measured and signed. *)

\* The messages and marks are the same but for those of the other clients.
LEMMA StillKeeps ==
  ASSUME Inv, [Next]_vars
  PROVE  /\ messageId' = messageId
         /\ \A m \in Msgs : place'[m] = "source" => place[m] = "source"
<1> USE DEF Inv, TypeOK, mailbox
<1>1. ASSUME NEW uids, Relocate(uids)
      PROVE  \A m \in Msgs : place'[m] = "source" => place[m] = "source"
  BY <1>1 DEF Relocate
<1>2. CASE Relocating
  BY <1>1, <1>2
     DEF Relocating, Start, List, Fails, Lock, Revalidate, RevalidateFails, MoveSucceeds,
         MoveRejected, MoveThrows, MoveThrowsPlain, SearchDest, SourceSearched, SearchFails,
         Classified, VerifyMapped, SearchById, Reconciled
<1>3. ASSUME NEW m \in Msgs, NEW to \in Places, OtherClient(m, to)
      PROVE  /\ messageId' = messageId
             /\ \A k \in Msgs : place'[k] = "source" => place[k] = "source"
  BY <1>3 DEF OtherClient
<1> QED
  BY <1>2, <1>3
     DEF Next, Handler, World, ResolveMeasuring, Resolve, SearchLabel, SearchSourceHeard,
         SearchSource, LabelsSearched, Remeasure, Issue, Issued, Remark, relocationVars, vars

\* Only a search of the source folder changes what was refused.
LEMMA RefusedStep == ASSUME Inv, [Next]_vars PROVE RefusedInv'
<1> USE DEF Inv, mailbox, report
<1>0. \A m \in Msgs : place'[m] = "source" => place[m] = "source"
  BY StillKeeps
<1>1. ASSUME UNCHANGED <<pc, todo, found, matched, messageId, changed, refused>>
      PROVE  RefusedInv'
  BY <1>0, <1>1 DEF RefusedInv, TypeOK, Identified
<1>2. ASSUME NEW m \in Msgs, NEW heard \in BOOLEAN, SearchSourceHeard(m, heard)
      PROVE  RefusedInv'
  <2>1. InSource(messageId[m]) = {} => \A k \in Namesakes(m) : place[k] # "source"
    BY DEF InSource, Namesakes, Identified, TypeOK
  <2>2. m \in Namesakes(m) /\ changed = {}
    BY <1>2 DEF SearchSourceHeard, SearchSource, Namesakes, RelocationInv, SplitInv
  <2> QED
    BY <1>2, <2>1, <2>2 DEF SearchSourceHeard, SearchSource, RefusedInv, Identified
<1>3. CASE Relocating /\ UNCHANGED refused
  <2>1. CASE Start \/ List \/ Fails \/ Lock \/ Revalidate \/ RevalidateFails \/ MoveRejected
    BY <1>0, <1>3, <2>1
       DEF Start, List, Fails, Lock, Revalidate, RevalidateFails, MoveRejected, RefusedInv, TypeOK,
           Goto
  <2>2. ASSUME NEW map \in [Msgs -> Msgs \cup {NoUid}], MoveSucceeds(map) PROVE RefusedInv'
    <3>1. \A m \in matched : place'[m] # "source"
      BY <2>2, RelocateLeaves DEF MoveSucceeds
    <3> QED
      BY <2>2, <3>1 DEF MoveSucceeds, AfterMove, RefusedInv, Goto
  <2>3. ASSUME NEW uids \in SUBSET Msgs, MoveThrows(uids) \/ MoveThrowsPlain(uids)
        PROVE  RefusedInv'
    BY <1>0, <1>3, <2>3 DEF MoveThrows, MoveThrowsPlain, RefusedInv, TypeOK, Goto, Identified
  <2>4. ASSUME NEW m \in Msgs, NEW heard \in BOOLEAN, SearchDest(m, heard) PROVE RefusedInv'
    BY <1>3, <2>4 DEF SearchDest, RefusedInv
  <2>5. CASE SourceSearched \/ SearchFails \/ Classified
    BY <1>3, <2>5
       DEF SourceSearched, SearchFails, Classified, AfterMove, RefusedInv, Goto, Identified
  <2>6. ASSUME NEW m \in Msgs, NEW heard \in BOOLEAN, VerifyMapped(m) \/ SearchById(m, heard)
        PROVE  RefusedInv'
    BY <1>3, <2>6 DEF VerifyMapped, SearchById, RefusedInv
  <2>7. CASE Reconciled
    BY <1>3, <2>7 DEF Reconciled, AfterReconcile, RefusedInv, Goto
  <2> QED
    BY <1>3, <2>1, <2>2, <2>3, <2>4, <2>5, <2>6, <2>7 DEF Relocating
<1>4. CASE ResolveMeasuring \/ LabelsSearched \/ Remeasure \/ Issued \/ \E m \in Msgs : Issue(m)
  BY <1>0, <1>4
     DEF ResolveMeasuring, Resolve, AfterResolve, LabelsSearched, Remeasure, Issued, Issue,
         RefusedInv, TypeOK, Goto, markVars, Requests
<1>5. ASSUME NEW m \in Msgs, NEW to \in Places, OtherClient(m, to), UNCHANGED refused
      PROVE  RefusedInv'
  BY <1>1, <1>5 DEF OtherClient
<1> QED
  BY <1>1, <1>2, <1>3, <1>4, <1>5
     DEF Next, Handler, World, SearchLabel, Remark, markVars, relocationVars, vars

LEMMA RemarkShows ==
  ASSUME Inv, NEW m \in Msgs, NEW x, Remark(m, x), NEW k \in Msgs
  PROVE  /\ place[k] = "source" => steady'[k] = steady[k] \cap Shown(marks', k)
                                   /\ ever'[k] = ever[k] \cup Shown(marks', k)
         /\ place[k] # "source" => steady'[k] = steady[k] /\ ever'[k] = ever[k]
BY DEF Remark

LEMMA ShownStep == ASSUME Inv, [Next]_vars PROVE ShownInv'
<1>0. /\ messageId' = messageId
      /\ \A m \in Msgs : place'[m] = "source" => place[m] = "source"
  BY StillKeeps
<1>1. CASE UNCHANGED <<marks, steady, ever>>
  BY <1>0, <1>1 DEF Inv, ShownInv, Shown, LabelsOf
<1>2. ASSUME NEW m \in Msgs, NEW x \in Marks, Remark(m, x) PROVE ShownInv'
  <2>1. \A k \in Msgs : Shown(marks, k)' = Shown(marks', k)
    BY <1>0 DEF Shown, LabelsOf
  <2> QED
    BY <1>0, <1>2, <2>1, RemarkShows DEF ShownInv
<1> QED
  BY <1>1, <1>2
     DEF Next, Handler, World, ResolveMeasuring, SearchLabel, SearchSourceHeard, LabelsSearched,
         Remeasure, Issue, Issued, markVars, vars

LEMMA ShownLabel ==
  ASSUME NEW m \in Msgs, NEW l \in Labels
  PROVE  l \in Shown(marks, m) <=> l \in LabelsOf(marks, m, {l})
BY TrashAssumption DEF Shown, LabelsOf

LEMMA MeasuredStep == ASSUME Inv, [Next]_vars PROVE MeasuredInv'
<1> USE DEF Inv
<1>0. /\ \A m \in Msgs : place'[m] = "source" => place[m] = "source"
      /\ matched \subseteq Msgs
  BY StillKeeps DEF TypeOK
<1>1. CASE UNCHANGED <<matched, pc, req, measured>> /\ UNCHANGED markVars
  BY <1>0, <1>1 DEF MeasuredInv, Held, measured, markVars
<1>2. CASE Relocating /\ UNCHANGED <<markVars, measured>>
  <2> USE DEF Goto, Held, measured, markVars
  <2>1. CASE Revalidate
    BY <1>0, <1>2, <2>1 DEF Revalidate, Present, MeasuredInv
  <2>2. CASE Start \/ List \/ Fails \/ Lock \/ RevalidateFails
    BY <1>0, <1>2, <2>2
       DEF Start, List, Fails, Lock, RevalidateFails, MeasuredInv, report
  <2>3. CASE (Held /\ pc # "issuing") /\ UNCHANGED <<matched, req>>
    BY <1>0, <1>2, <2>3 DEF MeasuredInv
  <2> QED
    BY <1>2, <2>1, <2>2, <2>3
       DEF Relocating, MoveSucceeds, MoveRejected, MoveThrows, MoveThrowsPlain, SearchDest,
           SourceSearched, SearchFails, Classified, VerifyMapped, SearchById, Reconciled, report
<1>3. CASE ResolveMeasuring
  <2>1. /\ matched' = Present(req.uids) /\ UNCHANGED <<markVars, req, mailbox>>
        /\ original' = [m \in Msgs |-> IF m \in matched' THEN marks[m] \cap Flags ELSE {}]
        /\ labelsLeft' = IF Identified(matched') = {} THEN {} ELSE Labels
        /\ pc' \in {"labelling", "done"} \/ req.tool # "trash"
    BY <1>3 DEF ResolveMeasuring, Resolve, AfterResolve, Guarded, Goto
  <2>2. pc' \in {"labelling", "done", "locking"} /\ matched' \subseteq Msgs
    BY <1>0, <1>3, RelocationStep
       DEF ResolveMeasuring, Resolve, AfterResolve, Goto, RelocationInv, RelocationTypeOK
  <2>3. ASSUME NEW m \in matched'
        PROVE  /\ steady[m] \subseteq original'[m] \cup labelsLeft'
               /\ original'[m] \subseteq ever[m]
    <3>1. /\ place[m] = "source" /\ m \in Msgs
          /\ original'[m] = marks[m] \cap Flags
          /\ messageId[m] # NoId => labelsLeft' = Labels
      BY <2>1, <2>2, <2>3, StillKeeps DEF Present, Identified
    <3>2. steady[m] \subseteq Shown(marks, m) /\ Shown(marks, m) \subseteq ever[m]
      BY <3>1 DEF ShownInv
    <3> QED
      BY <3>1, <3>2 DEF Shown, LabelsOf
  <2> QED
    BY <2>1, <2>2, <2>3 DEF MeasuredInv, Held, markVars
<1>4. ASSUME NEW l \in Labels, NEW heard \in SUBSET Ids, SearchLabel(l, heard)
      PROVE  MeasuredInv'
  <2>1. ASSUME NEW m \in matched, place[m] = "source"
        PROVE  /\ steady[m] \ unheard'[m] \subseteq original'[m] \cup labelsLeft'
               /\ original'[m] \subseteq ever[m]
    <3>1. /\ steady[m] \ unheard[m] \subseteq original[m] \cup labelsLeft
          /\ original[m] \subseteq ever[m]
      BY <2>1 DEF MeasuredInv
    <3>2. steady[m] \subseteq Shown(marks, m) /\ Shown(marks, m) \subseteq ever[m]
      BY <1>0, <2>1 DEF ShownInv
    <3>3. /\ l \in Shown(marks, m) <=> l \in LabelsOf(marks, m, {l})
          /\ labelsLeft' = labelsLeft \ {l}
          /\ original'[m] = IF messageId[m] \in heard /\ l \in LabelsOf(marks, m, {l})
                              THEN original[m] \cup {l} ELSE original[m]
          /\ unheard'[m] = IF messageId[m] \notin heard
                             THEN unheard[m] \cup LabelsOf(marks, m, {l}) ELSE unheard[m]
      BY <1>0, <1>4, <2>1, ShownLabel DEF SearchLabel, TypeOK
    <3> QED
      BY <3>1, <3>2, <3>3
  <2> QED
    BY <1>4, <2>1 DEF SearchLabel, MeasuredInv, Held, relocationVars
<1>5. CASE LabelsSearched
  BY <1>0, <1>5 DEF LabelsSearched, MeasuredInv, Held, Goto, mailbox, report, measured, markVars
<1>6. CASE Remeasure \/ Issued \/ \E m \in Msgs : Issue(m)
  BY <1>0, <1>6
     DEF Remeasure, Issued, Issue, MeasuredInv, Held, Goto, mailbox, report, measured, markVars
<1>7. ASSUME NEW m \in Msgs, NEW x \in Marks, Remark(m, x) PROVE MeasuredInv'
  <2>1. \A k \in Msgs : steady'[k] \subseteq steady[k] /\ ever[k] \subseteq ever'[k]
    BY <1>7, RemarkShows
  <2> QED
    BY <1>0, <1>7, <2>1 DEF Remark, MeasuredInv, Held, relocationVars, measured
<1>8. ASSUME NEW m \in Msgs, NEW heard \in BOOLEAN, SearchSourceHeard(m, heard)
      PROVE  MeasuredInv'
  BY <1>0, <1>8
     DEF SearchSourceHeard, SearchSource, MeasuredInv, Held, mailbox, report, measured
<1> QED
  BY <1>1, <1>2, <1>3, <1>4, <1>5, <1>6, <1>7, <1>8
     DEF Next, Handler, World, OtherClient, report, vars, relocationVars

LEMMA ReceiptStep == ASSUME Inv, [Next]_vars PROVE ReceiptInv'
<1> USE DEF Inv
<1>1. CASE UNCHANGED <<steady, ever, unheard, receipt>>
  BY <1>1 DEF ReceiptInv
<1>2. ASSUME NEW m \in Msgs, Issue(m) PROVE ReceiptInv'
  <2>1. m \in matched /\ req.tool = "trash"
    BY <1>2
       DEF Issue, RelocationInv, SplitInv, WithinInv, ToolInv, Late, Early, Classifying, Stages
  <2>2. steady[m] \ unheard[m] \subseteq original[m] /\ original[m] \subseteq ever[m]
    BY <1>2, <2>1 DEF Issue, MeasuredInv, Held
  <2>3. /\ receipt' = [receipt EXCEPT ![m] = receipt'[m]]
        /\ receipt'[m] # NoReceipt => receipt'[m].marks = original[m]
    BY <1>2 DEF Issue, TypeOK
  <2> QED
    BY <1>2, <2>2, <2>3 DEF Issue, ReceiptInv, TypeOK, markVars
<1>3. ASSUME NEW m \in Msgs, NEW x \in Marks, Remark(m, x) PROVE ReceiptInv'
  <2>1. \A k \in Msgs : steady'[k] \subseteq steady[k] /\ ever[k] \subseteq ever'[k]
    BY <1>3, RemarkShows
  <2> QED
    BY <1>3, <2>1 DEF Remark, ReceiptInv, measured
<1>4. ASSUME NEW l \in Labels, NEW heard \in SUBSET Ids, SearchLabel(l, heard)
      PROVE  ReceiptInv'
  <2>1. \A k \in Msgs : unheard[k] \subseteq unheard'[k]
    BY <1>4 DEF SearchLabel
  <2> QED
    BY <1>4, <2>1 DEF SearchLabel, ReceiptInv
<1> QED
  BY <1>1, <1>2, <1>3, <1>4
     DEF Next, Handler, World, ResolveMeasuring, SearchSourceHeard, LabelsSearched, Remeasure,
         Issued, markVars, measured, vars

\* The inductive invariant holds of every trash and every plain move.
THEOREM Invariance == Spec => []Inv
<1>1. Inv /\ [Next]_vars => Inv'
  BY TypeStep, RelocationStep, RefusedStep, ShownStep, MeasuredStep, ReceiptStep DEF Inv
<1> QED
  BY <1>1, InitInv, PTL DEF Spec
-----------------------------------------------------------------------------
(* The properties. *)

\* The call never leaves the types: a receipt carries a Message-ID, marks the
\* message may have, and nothing else.
THEOREM TypeCorrect == Spec => []TypeOK
<1>1. Inv => TypeOK
  BY DEF Inv
<1> QED
  BY <1>1, Invariance, PTL

\* What mail_trash or mail_move calls moved is not in the source folder, even after
\* a move that threw, unless the search for it there was refused and a namesake was
\* what the destination showed (classifyUncertainMove).
THEOREM ChangedLeftSourceHolds == Spec => []ChangedLeftSource
<1>1. Inv => ChangedLeftSource
  BY DEF Inv, RefusedInv, RelocationInv, LeftInv, ChangedLeftSource
<1> QED
  BY <1>1, Invariance, PTL

\* What mail_trash calls not moved was not moved, but for the two cases the
\* search by Message-ID cannot tell apart (classifyUncertainMove).
THEOREM FailedUnmovedHolds == Spec => []FailedUnmoved
<1>1. Inv => FailedUnmoved
  BY DEF Inv, RelocationInv, BackInv, Guarded, FailedUnmoved
<1> QED
  BY <1>1, Invariance, PTL

\* An answer leaves out none of the uids the live call was left with, whatever
\* threw on the way (trashMessages, moveMessagesCore).
THEOREM AccountedHolds == Spec => []Accounted
<1>1. Inv => Accounted
  BY DEF Inv, RelocationInv, SplitInv, Accounted
<1> QED
  BY <1>1, Invariance, PTL

\* A reported new uid is that of a message with the same Message-ID, for any
\* map the server answers with (reconcileResultingUid).
THEOREM LocatedIsSameHolds == Spec => []LocatedIsSame
<1>1. Inv => LocatedIsSame
  BY DEF Inv, RelocationInv, LocatedInv, LocatedIsSame
<1> QED
  BY <1>1, Invariance, PTL

\* A restore receipt is about the message before it was trashed, for any changes
\* other clients and Bridge make at any time; it leaves out a label the message kept
\* only if the search for that label was refused (trashMessages, resolveLabelMembership).
THEOREM ReceiptPreTrashHolds == Spec => []ReceiptPreTrash
<1>1. Inv => ReceiptPreTrash
  BY DEF Inv, ReceiptInv, ReceiptPreTrash
<1> QED
  BY <1>1, Invariance, PTL
=============================================================================

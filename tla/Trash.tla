------------------------------- MODULE Trash -------------------------------
(***************************************************************************)
(* mail_trash (src/src/mutations/trash.ts), and the plain mail_move: the   *)
(* steps of Relocation, and for a trashed message the labels and flags     *)
(* measured before the move and signed into a restore receipt.             *)
(*                                                                         *)
(* Labels are mailboxes of their own: a message has one if that mailbox    *)
(* holds a copy with its Message-ID.  Flags belong to one message.  Other  *)
(* clients change both at any time, and Proton Bridge drops labels of      *)
(* messages in Trash ("Async label loss").                                 *)
(***************************************************************************)
EXTENDS Relocation

CONSTANTS Labels, Flags, NoReceipt

ASSUME TrashAssumption ==
  /\ Tools \subseteq {"move", "trash"}
  /\ IsFiniteSet(Labels)
  /\ Labels \cap Flags = {}
  /\ NoReceipt \notin [id : Ids, marks : SUBSET (Labels \cup Flags)]

VARIABLES
  marks,            \* the labels and flags each message has
  steady, ever,     \* what it showed all the time, and ever, while in the source folder
  refused,          \* messages a search of the source folder would have found, but was refused
  unheard,          \* labels of each message a search would have found, but was refused
  labelsLeft,       \* label folders not yet searched
  original,         \* what the call has measured before the move
  receipt           \* the restore receipts issued

markVars == <<marks, steady, ever, refused, unheard>>
measured == <<labelsLeft, original, receipt>>
vars == <<relocationVars, markVars, measured>>
-----------------------------------------------------------------------------
Marks == Labels \cup Flags
Receipts == [id : Ids, marks : SUBSET Marks]

Shown(mk, m) == LabelsOf(mk, m, Labels) \cup (mk[m] \cap Flags)

Init ==
  /\ RelocationInit
  /\ marks \in [Msgs -> SUBSET Marks]
  /\ steady = [m \in Msgs |-> Shown(marks, m)]
  /\ ever = steady
  /\ refused = {} /\ unheard = [m \in Msgs |-> {}]
  /\ labelsLeft = {}
  /\ original = [m \in Msgs |-> {}]
  /\ receipt = [m \in Msgs |-> NoReceipt]
-----------------------------------------------------------------------------
\* Flags come with the fetch that resolves the uids; then each label folder is searched.
ResolveMeasuring ==
  /\ Resolve
  /\ original' = [m \in Msgs |-> IF m \in matched' THEN marks[m] \cap Flags ELSE {}]
  /\ labelsLeft' = IF Identified(matched') = {} THEN {} ELSE Labels
  /\ UNCHANGED <<markVars, receipt>>

\* One search for each Message-ID.  Those not in heard are refused: as if the label had
\* no such message.
SearchLabel(l, heard) ==
  /\ pc = "labelling"
  /\ l \in labelsLeft
  /\ labelsLeft' = labelsLeft \ {l}
  /\ original' = [m \in Msgs |-> IF m \in matched /\ messageId[m] \in heard
                                        /\ l \in LabelsOf(marks, m, {l})
                                   THEN original[m] \cup {l} ELSE original[m]]
  /\ unheard' = [m \in Msgs |-> IF m \in matched /\ messageId[m] \notin heard
                                  THEN unheard[m] \cup LabelsOf(marks, m, {l}) ELSE unheard[m]]
  /\ UNCHANGED <<relocationVars, marks, steady, ever, refused, receipt>>

LabelsSearched ==
  /\ pc = "labelling" /\ labelsLeft = {}
  /\ Goto(IF req.dryRun THEN "done" ELSE "locking")
  /\ UNCHANGED <<mailbox, moved, req, writeLock, todo, found, report, whereabouts,
                 markVars, measured>>

\* The search of the source folder, and whether it missed what is there.
SearchSourceHeard(m, heard) ==
  /\ SearchSource(m, heard)
  /\ refused' = IF heard \/ InSource(messageId[m]) = {} THEN refused \ Namesakes(m)
                                                       ELSE refused \cup Namesakes(m)
  /\ UNCHANGED <<marks, steady, ever, unheard, measured>>

\* Labels are measured again; the answer shows them, nothing else uses them.
Remeasure ==
  /\ pc = "remeasuring"
  /\ Goto("reconciling")
  /\ UNCHANGED <<mailbox, moved, req, writeLock, todo, found, report, whereabouts,
                 markVars, measured>>

\* Mutant: every message that moved gets a receipt.
IssueUnidentified(m) ==
  /\ pc = "issuing"
  /\ m \in todo
  /\ todo' = todo \ {m}
  /\ receipt' = [receipt EXCEPT ![m] =
       IF req.secret THEN [id |-> messageId[m], marks |-> original[m]] ELSE NoReceipt]
  /\ UNCHANGED <<mailbox, moved, pc, req, writeLock, found, report, whereabouts, markVars,
                 labelsLeft, original>>

\* The flags are fetched again, and a receipt is signed over what was measured
\* before the move, for a message whose new uid is known.  (The code signs each
\* receipt before it looks for the next uid; nothing it signs changes meanwhile.)
Issue(m) ==
  /\ pc = "issuing"
  /\ m \in todo
  /\ todo' = todo \ {m}
  /\ receipt' = [receipt EXCEPT ![m] =
       IF req.secret /\ messageId[m] # NoId /\ located[m] # NoUid
         THEN [id |-> messageId[m], marks |-> original[m]] ELSE NoReceipt]
  /\ UNCHANGED <<mailbox, moved, pc, req, writeLock, found, report, whereabouts, markVars,
                 labelsLeft, original>>

Issued ==
  /\ pc = "issuing" /\ todo = {}
  /\ Goto("done")
  /\ UNCHANGED <<mailbox, moved, req, writeLock, todo, found, report, whereabouts,
                 markVars, measured>>

\* Another client, or Bridge, gives message m a label or flag, or takes it away.
Remark(m, x) ==
  /\ Running
  /\ marks' = [marks EXCEPT ![m] = IF x \in @ THEN @ \ {x} ELSE @ \cup {x}]
  /\ steady' = [k \in Msgs |-> IF place[k] = "source" THEN steady[k] \cap Shown(marks', k)
                               ELSE steady[k]]
  /\ ever' = [k \in Msgs |-> IF place[k] = "source" THEN ever[k] \cup Shown(marks', k)
                             ELSE ever[k]]
  /\ UNCHANGED <<relocationVars, refused, unheard, measured>>
-----------------------------------------------------------------------------
\* The steps of Relocation that measure nothing.
Relocating ==
  \/ Start \/ List \/ Fails \/ Lock \/ Revalidate \/ RevalidateFails
  \/ \E map \in [Msgs -> Msgs \cup {NoUid}] : MoveSucceeds(map)
  \/ MoveRejected
  \/ \E uids \in SUBSET Msgs : MoveThrows(uids) \/ MoveThrowsPlain(uids)
  \/ \E m \in Msgs, heard \in BOOLEAN : SearchDest(m, heard) \/ SearchById(m, heard)
  \/ SourceSearched \/ SearchFails \/ Classified
  \/ \E m \in Msgs : VerifyMapped(m)
  \/ Reconciled

Handler ==
  \/ Relocating /\ UNCHANGED <<markVars, measured>>
  \/ ResolveMeasuring
  \/ \E l \in Labels, heard \in SUBSET Ids : SearchLabel(l, heard)
  \/ \E m \in Msgs, heard \in BOOLEAN : SearchSourceHeard(m, heard)
  \/ LabelsSearched \/ Remeasure
  \/ \E m \in Msgs : Issue(m)
  \/ Issued

World ==
  \/ \E m \in Msgs, to \in Places : OtherClient(m, to) /\ UNCHANGED <<markVars, measured>>
  \/ \E m \in Msgs, x \in Marks : Remark(m, x)

Next == Handler \/ World

Spec == Init /\ [][Next]_vars

(***************************************************************************)
(* Every command is answered or fails, except one that waits for a lock    *)
(* its own call holds: no one else would release it.  (A library that      *)
(* rejects the waiting lock when the connection closes is a step that may  *)
(* happen, not one that must.)                                             *)
(***************************************************************************)
LiveSpec == Spec /\ WF_vars(~Waiting /\ Handler)
-----------------------------------------------------------------------------
TypeOK ==
  /\ messageId \in [Msgs -> Ids \cup {NoId}]
  /\ place \in [Msgs -> Places]
  /\ moved \subseteq Msgs
  /\ pc \in Stages /\ req \in Requests /\ writeLock \in BOOLEAN
  /\ todo \subseteq Msgs /\ found \subseteq Msgs
  /\ matched \subseteq Msgs /\ missing \subseteq Msgs
  /\ changed \subseteq Msgs /\ failed \subseteq Msgs /\ uncertain \subseteq Msgs
  /\ uidMap \in [Msgs -> Msgs \cup {NoUid}] /\ located \in [Msgs -> Msgs \cup {NoUid}]
  /\ marks \in [Msgs -> SUBSET Marks]
  /\ steady \in [Msgs -> SUBSET Marks] /\ ever \in [Msgs -> SUBSET Marks]
  /\ refused \subseteq Msgs /\ unheard \in [Msgs -> SUBSET Labels]
  /\ labelsLeft \subseteq Labels
  /\ original \in [Msgs -> SUBSET Marks]
  /\ receipt \in [Msgs -> Receipts \cup {NoReceipt}]

(***************************************************************************)
(* A uid reported as changed is no longer in the source folder             *)
(* (uncertain-move.ts:18, "absent from source ... Safe to treat as         *)
(* moved"), but for one case: the move threw, the server refused to search *)
(* the source folder for it, which the code takes for absent, and another  *)
(* message with its Message-ID was the one found in the destination.       *)
(***************************************************************************)
ChangedLeftSource ==
  \A m \in changed : place[m] = "source" =>
    m \in refused /\ \E k \in Msgs \ {m} : messageId[k] = messageId[m]

(***************************************************************************)
(* A message mail_trash reports as not moved was not moved, unless another *)
(* message carries its Message-ID or another client has put it back        *)
(* (uncertain-move.ts:20, "no double-move risk").                          *)
(***************************************************************************)
FailedUnmoved ==
  req.tool = "trash" =>
    \A m \in failed \cap moved :
      \/ place[m] = "returned"
      \/ \E k \in Msgs \ {m} : messageId[k] = messageId[m]

(***************************************************************************)
(* Every uid a live call was left with is accounted for when it answers:   *)
(* changed, failed or uncertain, whatever threw on the way.                *)
(***************************************************************************)
Accounted ==
  pc = "done" /\ ~req.dryRun => matched = changed \cup failed \cup uncertain

(***************************************************************************)
(* A new uid that is reported belongs to a message with the Message-ID of  *)
(* the one that was moved, whatever map the server sent                    *)
(* (reconcileResultingUid, "never a guess").                               *)
(***************************************************************************)
LocatedIsSame ==
  \A m \in Msgs : located[m] # NoUid => messageId[located[m]] = messageId[m]

(***************************************************************************)
(* A restore receipt names every label and flag the message kept while it  *)
(* was in the source folder, and none it never showed there: what Bridge   *)
(* drops from a message in Trash never gets into a receipt, even when      *)
(* another client trashed the message first (trash.ts:97-106).  Only a     *)
(* label whose search the server refused may be left out                   *)
(* (label-membership.ts:57).                                               *)
(***************************************************************************)
ReceiptPreTrash ==
  \A m \in Msgs : receipt[m] # NoReceipt =>
    /\ steady[m] \ unheard[m] \subseteq receipt[m].marks
    /\ receipt[m].marks \subseteq ever[m]

(***************************************************************************)
(* Every call answers, whatever fails, except one whose move threw and     *)
(* which waits for its own lock from then on (trash.ts:258).               *)
(***************************************************************************)
CallAnswers == pc = "listing" ~> (pc \in {"done", "thrown"} \/ []Waiting)

(***************************************************************************)
(* "A messageMove that throws is never assumed to be a clean failure or a  *)
(* clean success": it is classified and the call answers                   *)
(* (SECURITY.md:300).                                                      *)
(***************************************************************************)
ThrownMoveClassified == pc = "classifySource" ~> pc = "done" \/ changed # {}

(***************************************************************************)
(* "Partial failures are reported, not thrown away" (README.md:383): a     *)
(* call that leaves by an exception has moved nothing.                     *)
(***************************************************************************)
PartialFailureReported == pc = "thrown" => moved = {}
=============================================================================

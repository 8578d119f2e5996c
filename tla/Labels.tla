------------------------------- MODULE Labels -------------------------------
(***************************************************************************)
(* The tools that change messages where they are: mail_apply_label and     *)
(* mail_remove_label (src/src/mutations/labels.ts), mail_mark_read and     *)
(* mail_mark_unread (read-state.ts), and mail_delete_permanently, whose    *)
(* live path is closed (permanent-delete.ts).                              *)
(*                                                                         *)
(* A label is a mailbox with uids of its own.  Moving a message into it    *)
(* labels the message and leaves it where it is; moving it out of there    *)
(* into a folder takes the label away and puts the message into that       *)
(* folder, under a new uid (README.md:596-610).  The call finds "the same  *)
(* message" in the label mailbox by its Message-ID.  Every await is a step *)
(* of its own; between two of them other clients act.                      *)
(***************************************************************************)
EXTENDS Mailboxes

CONSTANTS
  Ids, NoId,        \* Message-ID header values; a message without one
  Headers           \* the ways Message-IDs are given to messages

VARIABLES
  messageId,        \* never changes
  place,            \* "source": in the folder of the call, under the uid callers know
  labelUid,         \* its uid in the label mailbox, 0 if it does not carry the label
  nextLabelUid, seen,
  writeLock, todo,  \* the write lock the call holds; what is left of its loop
  chosen, aim,      \* the messages to change; the label uid found for each
  matched, missing, skipped, changed, failed,   \* the result, by uid
  shown,            \* whether each message had what is asked for, since the last look began
  deaf,             \* messages whose last look missed a label: the server refused the search
  touched,          \* the messages the server has changed for this call
  vanished          \* those chosen that had left the folder when the write lock was taken

messages == <<messageId, place, labelUid, nextLabelUid, seen>>
report == <<matched, missing, skipped, changed, failed>>
plan == <<writeLock, todo, chosen, aim>>
history == <<shown, deaf, touched, vanished>>
vars == <<mailboxVars, messages, report, plan, history>>
-----------------------------------------------------------------------------
Places == {"source", "renewed", "elsewhere", "gone"}
Labelling == {"apply", "remove"}

ASSUME LabelAssumption == NoId \notin Ids /\ Headers \subseteq [Msgs -> Ids \cup {NoId}]

TheLabel == Label(req.name)
LabelStands == Listed(tree, TheLabel)
Present(uids) == {m \in uids : place[m] = "source"}
Identified(uids) == {m \in uids : messageId[m] # NoId}
Namesakes(m) == {k \in Identified(Msgs) : messageId[k] = messageId[m]}
Smallest(S) == CHOOSE n \in S : \A k \in S : n <= k

\* What the call sees of m when uids are those in the label mailbox and sn the messages seen.
Has(uids, sn, m) ==
  IF req.tool \in Labelling THEN \E k \in Namesakes(m) : uids[k] # 0 ELSE m \in sn
Asked == req.tool \in {"apply", "read"}
Look0 == [m \in Msgs |-> {Has(labelUid, seen, m)}]

Init ==
  /\ MailboxInit
  /\ messageId \in Headers
  /\ place \in [Msgs -> {"source", "elsewhere"}]
  /\ labelUid \in {f \in [Msgs -> 0..Cardinality(Msgs)] :
                     \A m, k \in Msgs : f[m] = f[k] => m = k \/ f[m] = 0}
  /\ nextLabelUid = Cardinality(Msgs) + 1
  /\ seen \in SUBSET Msgs
  /\ writeLock = FALSE /\ todo = {} /\ chosen = {} /\ aim = [m \in Msgs |-> 0]
  /\ matched = {} /\ missing = {} /\ skipped = {} /\ changed = {} /\ failed = {}
  /\ shown = [m \in Msgs |-> {}] /\ deaf = {} /\ touched = {} /\ vanished = {}
-----------------------------------------------------------------------------
\* The folder is there, and the label; mail_delete_permanently takes only Trash.
FoldersStand(listing, r) ==
  CASE r.tool = "delete" -> r.source = Special(listing, "trash")
    [] r.tool \in Labelling -> Selectable(listing, r.source) /\ Selectable(listing, Label(r.name))
    [] OTHER -> Selectable(listing, r.source)

ListInPlace ==
  /\ pc = "listing" /\ req.tool \in InPlace
  /\ listed' = tree
  /\ Goto(IF FoldersStand(tree, req) THEN "resolving" ELSE "thrown")
  /\ shown' = Look0
  /\ UNCHANGED <<tree, req, target, answer, made, others, messages, report, plan,
                 deaf, touched, vanished>>

\* Mutant: what the server sends is believed to be what was asked for.
ResolveUnfiltered ==
  /\ pc = "resolving"
  /\ matched' = Present(Msgs) /\ missing' = req.uids \ matched'
  /\ IF req.tool \in Labelling
       THEN todo' = matched' /\ Goto("looking") /\ UNCHANGED <<skipped, chosen>>
       ELSE /\ skipped' = {m \in matched' : (m \in seen) = Asked}
            /\ chosen' = matched' \ skipped'
            /\ Goto(IF req.tool = "delete" \/ req.dryRun \/ chosen' = {} THEN "done" ELSE "locking")
            /\ UNCHANGED todo
  /\ UNCHANGED <<tree, listed, req, target, answer, made, others, messages, changed, failed,
                 writeLock, aim, history>>

\* The messages that exist; of these, mail_mark_read and mail_mark_unread skip the
\* ones already so.  A delete ends here: a preview, or refused by the closed gate.
Resolve ==
  /\ pc = "resolving"
  /\ matched' = Present(req.uids) /\ missing' = req.uids \ matched'
  /\ CASE req.tool \in Labelling ->
            todo' = matched' /\ Goto("looking") /\ UNCHANGED <<skipped, chosen>>
       [] req.tool = "delete" -> Goto("done") /\ UNCHANGED <<todo, skipped, chosen>>
       [] OTHER -> /\ skipped' = {m \in matched' : (m \in seen) = Asked}
                   /\ chosen' = matched' \ skipped'
                   /\ Goto(IF req.dryRun \/ chosen' = {} THEN "done" ELSE "locking")
                   /\ UNCHANGED todo
  /\ UNCHANGED <<tree, listed, req, target, answer, made, others, messages, changed, failed,
                 writeLock, aim, history>>
-----------------------------------------------------------------------------
(***************************************************************************)
(* findInLabelMailbox: the first uid a search by Message-ID finds in the   *)
(* label mailbox, under a read lock on it.  mail_apply_label looks twice.  *)
(* A search the server refuses does not throw: the client's search()       *)
(* answers false, and nothing is found.                                    *)
(***************************************************************************)
InLabel(m) == {labelUid[k] : k \in Namesakes(m)} \ {0}
CanLook(m) ==
  pc \in {"looking", "lookingAgain"} /\ m \in todo
    /\ (m \in Identified(Msgs) => LabelStands /\ ~writeLock)

\* What the search finds.
FoundIn(m, heard) == IF heard THEN InLabel(m) ELSE {}

\* Mutant: the second look is taken but not used.
LookOnce(m, heard) ==
  /\ CanLook(m)
  /\ todo' = todo \ {m}
  /\ LET wanted == (FoundIn(m, heard) # {}) = (req.tool = "remove") IN
       IF wanted \/ pc = "lookingAgain" THEN chosen' = chosen \cup {m} /\ UNCHANGED skipped
                                        ELSE skipped' = skipped \cup {m} /\ UNCHANGED chosen
  /\ aim' = [aim EXCEPT ![m] = IF FoundIn(m, heard) = {} THEN 0 ELSE Smallest(InLabel(m))]
  /\ deaf' = IF FoundIn(m, heard) = InLabel(m) THEN deaf \ {m} ELSE deaf \cup {m}
  /\ UNCHANGED <<mailboxVars, messages, matched, missing, changed, failed, writeLock, shown,
                 touched, vanished>>

Look(m, heard) ==
  /\ CanLook(m)
  /\ todo' = todo \ {m}
  /\ IF (FoundIn(m, heard) # {}) = (req.tool = "remove")
       THEN chosen' = chosen \cup {m} /\ UNCHANGED skipped
       ELSE chosen' = chosen \ {m} /\ skipped' = skipped \cup {m}
  /\ aim' = [aim EXCEPT ![m] = IF FoundIn(m, heard) = {} THEN 0 ELSE Smallest(InLabel(m))]
  /\ deaf' = IF FoundIn(m, heard) = InLabel(m) THEN deaf \ {m} ELSE deaf \cup {m}
  /\ UNCHANGED <<mailboxVars, messages, matched, missing, changed, failed, writeLock, shown,
                 touched, vanished>>

Looked ==
  /\ pc \in {"looking", "lookingAgain"} /\ todo = {}
  /\ IF chosen = {} \/ req.dryRun THEN Goto("done") /\ UNCHANGED <<todo, shown>>
     ELSE IF req.tool = "apply" /\ pc = "looking"
       THEN /\ Goto("lookingAgain") /\ todo' = chosen
            /\ shown' = [m \in Msgs |-> IF m \in chosen THEN Look0[m] ELSE shown[m]]
       ELSE Goto("locking") /\ UNCHANGED <<todo, shown>>
  /\ UNCHANGED <<tree, listed, req, target, answer, made, others, messages, report,
                 writeLock, chosen, aim, deaf, touched, vanished>>
-----------------------------------------------------------------------------
(***************************************************************************)
(* The write lock is on the mailbox the change is made in: the label       *)
(* mailbox for mail_remove_label, the folder otherwise.  Under it the call *)
(* looks again whether the uids it is to change are still there.           *)
(***************************************************************************)
Lock ==
  /\ pc = "locking"
  /\ req.tool = "remove" => LabelStands
  /\ writeLock' = TRUE
  /\ Goto("revalidating")
  /\ UNCHANGED <<tree, listed, req, target, answer, made, others, messages, report, todo,
                 chosen, aim, history>>

StillThere(m) ==
  IF req.tool = "remove" THEN \E k \in Msgs : labelUid[k] = aim[m] ELSE place[m] = "source"

\* Mutant: what the read lock showed is trusted.
RevalidateSkipped ==
  /\ pc = "revalidating"
  /\ vanished' = chosen \ Present(chosen)
  /\ Goto("mutating")
  /\ UNCHANGED <<tree, listed, req, target, answer, made, others, messages, report, plan,
                 shown, deaf, touched>>

Revalidate ==
  /\ pc = "revalidating"
  /\ vanished' = chosen \ Present(chosen)
  /\ LET stale == {m \in chosen : ~StillThere(m)} IN
       /\ matched' = matched \ stale /\ missing' = missing \cup stale
       /\ IF stale = chosen THEN Goto("done") /\ writeLock' = FALSE
                            ELSE Goto("mutating") /\ UNCHANGED writeLock
  /\ UNCHANGED <<tree, listed, req, target, answer, made, others, messages, skipped, changed,
                 failed, todo, chosen, aim, shown, deaf, touched>>

Targets == chosen \cap matched
Reached(uids) ==
  IF req.tool = "remove" THEN {k \in Msgs : \E m \in uids : labelUid[k] = aim[m]}
                         ELSE Present(uids)

\* What the server does for the messages a command names.
Change(uids) ==
  LET hit == Reached(uids)
      new == {m \in hit : labelUid[m] = 0}
  IN
  /\ touched' = touched \cup hit
  /\ CASE req.tool = "apply" ->
            /\ \E f \in [new -> nextLabelUid..(nextLabelUid + Cardinality(new) - 1)] :
                 /\ \A m, k \in new : f[m] = f[k] => m = k
                 /\ labelUid' = [m \in Msgs |-> IF m \in new THEN f[m] ELSE labelUid[m]]
            /\ nextLabelUid' = nextLabelUid + Cardinality(new)
            /\ UNCHANGED <<place, seen>>
       [] req.tool = "remove" ->
            /\ labelUid' = [m \in Msgs |-> IF m \in hit THEN 0 ELSE labelUid[m]]
            /\ place' = [m \in Msgs |-> IF m \in hit THEN "renewed" ELSE place[m]]
            /\ UNCHANGED <<nextLabelUid, seen>>
       [] OTHER -> /\ seen' = IF req.tool = "read" THEN seen \cup hit ELSE seen \ hit
                   /\ UNCHANGED <<place, labelUid, nextLabelUid>>

\* Mutant: the new uids are looked up before the lock is released.
ChangeSucceedsLocked ==
  /\ pc = "mutating"
  /\ req.tool = "apply" => LabelStands
  /\ Change(Targets)
  /\ changed' = Targets
  /\ IF req.tool \in Labelling THEN Goto("reconciling") /\ todo' = Identified(Targets)
                               ELSE Goto("done") /\ UNCHANGED todo
  /\ UNCHANGED <<tree, listed, req, target, answer, made, others, messageId, matched, missing,
                 skipped, failed, writeLock, chosen, aim, shown, deaf, vanished>>

\* messageMove or messageFlagsAdd/Remove; the new uids are looked for after the lock.
ChangeSucceeds ==
  /\ pc = "mutating"
  /\ req.tool = "apply" => LabelStands
  /\ Change(Targets)
  /\ changed' = Targets
  /\ writeLock' = FALSE
  /\ IF req.tool \in Labelling THEN Goto("reconciling") /\ todo' = Identified(Targets)
                               ELSE Goto("done") /\ UNCHANGED todo
  /\ UNCHANGED <<tree, listed, req, target, answer, made, others, messageId, matched, missing,
                 skipped, failed, chosen, aim, shown, deaf, vanished>>

ChangeRejected ==
  /\ pc = "mutating"
  /\ failed' = Targets
  /\ writeLock' = FALSE
  /\ Goto("done")
  /\ UNCHANGED <<tree, listed, req, target, answer, made, others, messages, matched, missing,
                 skipped, changed, todo, chosen, aim, history>>

\* Mutant: only what was confirmed gone is reported.
ChangeThrowsSilently(uids) ==
  /\ pc = "mutating" /\ uids \subseteq Targets
  /\ IF uids = {} THEN UNCHANGED <<messages, touched>>
                  ELSE Change(uids) /\ UNCHANGED messageId
  /\ writeLock' = FALSE
  /\ Goto("done")
  /\ UNCHANGED <<tree, listed, req, target, answer, made, others, report, todo, chosen, aim,
                 shown, deaf, vanished>>

\* An exception here, or while the uids are looked at again, is an error for every
\* message chosen, those already found missing included.
ChangeThrows(uids) ==
  /\ pc = "mutating" /\ uids \subseteq Targets
  /\ IF uids = {} THEN UNCHANGED <<messages, touched>>
                  ELSE /\ req.tool = "apply" => LabelStands
                       /\ Change(uids) /\ UNCHANGED messageId
  /\ failed' = chosen
  /\ writeLock' = FALSE
  /\ Goto("done")
  /\ UNCHANGED <<tree, listed, req, target, answer, made, others, matched, missing, skipped,
                 changed, todo, chosen, aim, shown, deaf, vanished>>

RevalidateThrows ==
  /\ pc = "revalidating"
  /\ failed' = chosen
  /\ writeLock' = FALSE
  /\ Goto("done")
  /\ UNCHANGED <<tree, listed, req, target, answer, made, others, messages, matched, missing,
                 skipped, changed, todo, chosen, aim, history>>

\* reconcileResultingUid (see Relocation, which models what it finds), in the label
\* mailbox for mail_apply_label and in the folder for mail_remove_label.
Reconcile(m) ==
  /\ pc = "reconciling" /\ m \in todo /\ ~writeLock
  /\ req.tool = "apply" => LabelStands
  /\ todo' = todo \ {m}
  /\ UNCHANGED <<mailboxVars, messages, report, writeLock, chosen, aim, history>>

Reconciled ==
  /\ pc = "reconciling" /\ todo = {}
  /\ Goto("done")
  /\ UNCHANGED <<tree, listed, req, target, answer, made, others, messages, report, plan, history>>

\* A command outside the catch fails, or a mailbox is gone: the call throws.
Fails ==
  /\ pc \in {"resolving", "looking", "lookingAgain", "locking", "reconciling"}
  /\ Goto("thrown")
  /\ writeLock' = FALSE
  /\ UNCHANGED <<tree, listed, req, target, answer, made, others, messages, report, todo,
                 chosen, aim, history>>
-----------------------------------------------------------------------------
(***************************************************************************)
(* Other clients move, delete, label, unlabel and read messages, and       *)
(* delete the label.                                                       *)
(***************************************************************************)
Witness == shown' = [m \in Msgs |-> shown[m] \cup {Has(labelUid', seen', m)}]
Meddling == Act /\ req.tool \in InPlace

OtherMoves(m, to) ==
  /\ Meddling
  /\ \/ place[m] \in {"source", "renewed"} /\ to \in {"elsewhere", "gone"}
     \/ place[m] = "elsewhere" /\ to \in {"renewed", "gone"}
  /\ place' = [place EXCEPT ![m] = to]
  /\ labelUid' = IF to = "gone" THEN [labelUid EXCEPT ![m] = 0] ELSE labelUid
  /\ UNCHANGED <<messageId, nextLabelUid, seen>>

OtherLabels(m) ==
  /\ Meddling /\ req.tool \in Labelling
  /\ LabelStands /\ place[m] # "gone"
  /\ IF labelUid[m] = 0
       THEN /\ labelUid' = [labelUid EXCEPT ![m] = nextLabelUid]
            /\ nextLabelUid' = nextLabelUid + 1
       ELSE labelUid' = [labelUid EXCEPT ![m] = 0] /\ UNCHANGED nextLabelUid
  /\ UNCHANGED <<messageId, place, seen>>

OtherReads(m) ==
  /\ Meddling /\ req.tool \in {"read", "unread"}
  /\ place[m] # "gone"
  /\ seen' = IF m \in seen THEN seen \ {m} ELSE seen \cup {m}
  /\ UNCHANGED <<messageId, place, labelUid, nextLabelUid>>

OthersOnMessages ==
  /\ \/ \E m \in Msgs, to \in Places : OtherMoves(m, to)
     \/ \E m \in Msgs : OtherLabels(m)
     \/ \E m \in Msgs : OtherReads(m)
  /\ Witness
  /\ UNCHANGED <<tree, listed, pc, req, target, answer, made, report, plan, deaf, touched,
                 vanished>>

LabelDeleted ==
  /\ Meddling /\ req.tool \in Labelling
  /\ OtherDeletes(TheLabel)
  /\ labelUid' = [m \in Msgs |-> 0]
  /\ UNCHANGED <<messageId, place, nextLabelUid, seen>>
  /\ Witness
  /\ UNCHANGED <<report, plan, deaf, touched, vanished>>

OthersOnMailboxes ==
  /\ req.tool \in Creating
  /\ \E path \in Customs : OtherCreates(path) \/ OtherDeletes(path)
-----------------------------------------------------------------------------
Listings ==
  \/ Start \/ ListToCreate \/ ListToRoute \/ ListFails
  \/ CreateAnswered \/ CreateThrows

Handler ==
  \/ Listings /\ UNCHANGED <<messages, report, plan, history>>
  \/ ListInPlace \/ Resolve
  \/ \E m \in Msgs, heard \in BOOLEAN : Look(m, heard)
  \/ Looked \/ Lock \/ Revalidate \/ RevalidateThrows
  \/ ChangeSucceeds \/ ChangeRejected
  \/ \E uids \in SUBSET Msgs : ChangeThrows(uids)
  \/ \E m \in Msgs : Reconcile(m)
  \/ Reconciled \/ Fails

World ==
  \/ OthersOnMessages \/ LabelDeleted
  \/ OthersOnMailboxes /\ UNCHANGED <<messages, report, plan, history>>

Next == Handler \/ World

Spec == Init /\ [][Next]_vars

(***************************************************************************)
(* Every command is answered or fails.  A lock that waits for one the same *)
(* call holds is never given.                                              *)
(***************************************************************************)
Waiting == writeLock /\ todo # {} /\ pc \in {"looking", "lookingAgain", "reconciling"}

LiveSpec == Spec /\ WF_vars(~Waiting /\ Handler)
-----------------------------------------------------------------------------
TypeOK ==
  /\ \A i \in DOMAIN tree : tree[i] \in [path : Paths, use : Roles \cup {"none"},
                                         selectable : BOOLEAN]
  /\ pc \in Stages /\ req \in Inputs /\ answer \in Answers
  /\ target \in Paths \cup {NoPath} /\ made \subseteq Paths /\ others \in 0..MaxOthers
  /\ messageId \in Headers /\ place \in [Msgs -> Places]
  /\ labelUid \in [Msgs -> Nat] /\ \A m \in Msgs : labelUid[m] < nextLabelUid
  /\ \A m, k \in Msgs : labelUid[m] = labelUid[k] => m = k \/ labelUid[m] = 0
  /\ seen \subseteq Msgs
  /\ writeLock \in BOOLEAN /\ writeLock = (pc \in {"revalidating", "mutating"})
  /\ todo \subseteq matched /\ chosen \subseteq Msgs /\ aim \in [Msgs -> Nat]
  /\ matched \subseteq Msgs /\ missing \subseteq Msgs /\ skipped \subseteq Msgs
  /\ changed \subseteq Msgs /\ failed \subseteq Msgs
  /\ shown \in [Msgs -> SUBSET BOOLEAN]
  /\ deaf \subseteq Msgs /\ touched \subseteq Msgs /\ vanished \subseteq Msgs

(***************************************************************************)
(* "Only explicit UIDs you provide are affected" (tools/remove-label.ts:28 *)
(* and the other tools), whatever the server sends; a dry run and a delete *)
(* affect none.  For mail_remove_label this holds up to the Message-ID:    *)
(* it may take the label from another message with the same one.           *)
(***************************************************************************)
OnlyNamed ==
  touched \subseteq IF req.dryRun \/ req.tool = "delete" THEN {}
                    ELSE IF req.tool = "remove" THEN UNION {Namesakes(m) : m \in req.uids}
                    ELSE req.uids

(***************************************************************************)
(* A uid reported as changed was changed: the label copy a removal found   *)
(* is gone; otherwise the message was there under the write lock, and the  *)
(* server changed it unless it left after that (README.md:375-379).        *)
(***************************************************************************)
ChangedHolds ==
  \A m \in changed :
    IF req.tool = "remove" THEN \A k \in Msgs : labelUid[k] # aim[m]
    ELSE m \notin vanished /\ (m \in touched \/ place[m] # "source")

(***************************************************************************)
(* Every uid named is accounted for, whatever failed on the way            *)
(* (README.md:383): it is matched or missing, not both, and a live call    *)
(* says of each one matched that it was skipped, changed or an error, one  *)
(* of the three.  A missing uid may be an error as well, but only where an *)
(* exception under the write lock is blamed on every uid the call had      *)
(* chosen (labels.ts:175, 297).                                            *)
(***************************************************************************)
Accounted ==
  pc = "done" /\ req.tool \in InPlace =>
    /\ matched \cup missing = req.uids /\ matched \cap missing = {}
    /\ ~req.dryRun /\ req.tool # "delete" =>
         /\ matched = changed \cup skipped \cup (failed \cap matched)
         /\ changed \cap skipped = {} /\ (changed \cup skipped) \cap failed = {}
         /\ failed \subseteq matched \/ failed = chosen

(***************************************************************************)
(* A message skipped had what was asked for, and a message changed lacked  *)
(* it, at some time since the last look at it began: a label that another  *)
(* client applied before the second look is not reported as applied by     *)
(* this call (labels.ts:124-128).  A look whose search the server refused  *)
(* sees no label (labels.ts:69-70): only then is a labelled message        *)
(* skipped by mail_remove_label, or applied a label it had.                *)
(***************************************************************************)
ReportedAsSeen ==
  /\ \A m \in skipped : Asked \in shown[m] \/ (req.tool = "remove" /\ m \in deaf)
  /\ \A m \in changed : (~Asked) \in shown[m] \/ (req.tool = "apply" /\ m \in deaf)

(***************************************************************************)
(* Every call answers, whichever of its commands fail and whatever is      *)
(* deleted under it.                                                       *)
(***************************************************************************)
CallAnswers == pc = "listing" ~> pc \in {"done", "thrown"}

(***************************************************************************)
(* "Label operations apply the same re-check to every mailbox involved     *)
(* (source folder and the Labels/<label> mailbox)": a message that has     *)
(* left the folder when the write lock is taken is "simply never touched"  *)
(* (README.md:378-381).                                                    *)
(***************************************************************************)
EveryMailboxRechecked == touched \cap vanished = {}
=============================================================================

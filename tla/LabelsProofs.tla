---------------------------- MODULE LabelsProofs ----------------------------
(***************************************************************************)
(* Proofs about Labels, for any messages, Message-IDs, listings and        *)
(* requests and any number of steps of other clients; on top of            *)
(* MailboxesProofs.                                                        *)
(***************************************************************************)
EXTENDS Labels, MailboxesProofs, FiniteSetTheorems

-----------------------------------------------------------------------------
(* The inductive invariant. *)

Unread == {"idle", "listing", "creating", "resolving"}
Ended == {"done", "thrown"}

MessageTypeOK ==
  /\ messageId \in Headers /\ place \in [Msgs -> Places]
  /\ labelUid \in [Msgs -> Nat] /\ nextLabelUid \in Nat \ {0}
  /\ \A m \in Msgs : labelUid[m] < nextLabelUid
  /\ \A m, k \in Msgs : labelUid[m] = labelUid[k] => m = k \/ labelUid[m] = 0
  /\ seen \subseteq Msgs /\ todo \subseteq matched
  /\ writeLock \in BOOLEAN /\ aim \in [Msgs -> Nat]
  /\ shown \in [Msgs -> SUBSET BOOLEAN]
  /\ deaf \subseteq Msgs /\ touched \subseteq Msgs /\ vanished \subseteq Msgs

\* Which tool is at which stage; the lock is held for the change only.
ToolInv ==
  /\ pc \notin {"idle", "listing", "creating"} \cup Ended => req.tool \in InPlace
  /\ pc \in {"looking", "lookingAgain", "reconciling"} => req.tool \in Labelling
  /\ pc = "lookingAgain" => req.tool = "apply"
  /\ pc \in {"lookingAgain", "locking", "revalidating", "mutating", "reconciling"} =>
       ~req.dryRun /\ req.tool # "delete"
  /\ writeLock <=> pc \in {"revalidating", "mutating"}

\* What the call was given is what it splits, into missing, skipped and chosen.
SplitInv ==
  /\ pc \in Unread \/ req.tool \notin InPlace =>
       /\ matched = {} /\ missing = {} /\ skipped = {} /\ chosen = {} /\ todo = {}
       /\ touched = {}
  /\ matched \cup missing \subseteq req.uids /\ matched \cap missing = {}
  /\ pc \notin Unread \cup {"thrown"} /\ req.tool \in InPlace => matched \cup missing = req.uids
  /\ skipped \subseteq matched /\ chosen \subseteq req.uids \ skipped
  /\ pc \notin {"mutating", "reconciling"} \cup Ended => chosen \subseteq matched
  /\ pc = "looking" =>
       /\ matched = todo \cup chosen \cup skipped
       /\ todo \cap (chosen \cup skipped) = {}
  /\ pc = "lookingAgain" => todo \subseteq chosen
  /\ pc \in {"locking", "revalidating", "mutating"} => todo = {}
  /\ pc \in {"lookingAgain", "locking", "revalidating", "mutating", "reconciling"} =>
       matched \subseteq chosen \cup skipped

\* The report is about what was chosen.
ReportInv ==
  /\ pc \notin {"reconciling"} \cup Ended => changed = {} /\ failed = {}
  /\ changed \subseteq Targets /\ failed \subseteq chosen /\ changed \cap failed = {}
  /\ pc = "reconciling" => changed = Targets /\ failed = {}

\* A label uid found is that of a message with the Message-ID, and is never given again.
AimInv ==
  /\ \A m \in Msgs : aim[m] < nextLabelUid
  /\ \A m, k \in Msgs : aim[m] # 0 /\ labelUid[k] = aim[m] => k \in Namesakes(m)
  /\ req.tool = "remove" => \A m \in chosen : aim[m] # 0

\* A message that had left the folder under the lock is not to be changed there.
VanishedInv == pc = "mutating" /\ req.tool # "remove" => matched \cap vanished = {}

\* What the call would see of a message now is among what it may have seen; where it saw
\* something else, the server had refused the search.
Had(m, had) == IF had THEN TRUE \in shown[m] ELSE FALSE \in shown[m]
ShownInv ==
  /\ pc \in {"resolving", "looking", "lookingAgain"} =>
       \A m \in Msgs : Had(m, Has(labelUid, seen, m))
  /\ \A m \in skipped : Had(m, Asked) \/ (req.tool = "remove" /\ m \in deaf)
  /\ \A m \in changed : Had(m, ~Asked) \/ (req.tool = "apply" /\ m \in deaf)
  /\ \A m \in chosen : \/ pc \in {"lookingAgain", "thrown"} /\ m \in todo
                       \/ Had(m, ~Asked)
                       \/ (req.tool = "apply" /\ m \in deaf)

LabelInv ==
  /\ MessageTypeOK /\ ToolInv /\ SplitInv /\ ReportInv /\ AimInv /\ VanishedInv /\ ShownInv
  /\ OnlyNamed /\ ChangedHolds /\ Accounted

Inv == MailboxInv /\ LabelInv
-----------------------------------------------------------------------------
(* Facts about the state, and what a step keeps by leaving alone what it is about. *)

LEMMA RequestType ==
  ASSUME MailboxInv
  PROVE  req.uids \subseteq Msgs /\ req.tool \in Creating \cup Routing \cup InPlace
BY MailboxAssumption DEF MailboxInv, MailboxTypeOK, Requests

LEMMA HeaderType ==
  ASSUME LabelInv
  PROVE  messageId \in [Msgs -> Ids \cup {NoId}]
BY LabelAssumption DEF LabelInv, MessageTypeOK

LEMMA ReportType ==
  ASSUME MailboxInv, LabelInv
  PROVE  /\ matched \subseteq Msgs /\ missing \subseteq Msgs /\ skipped \subseteq Msgs
         /\ chosen \subseteq Msgs /\ todo \subseteq Msgs /\ changed \subseteq Msgs
         /\ failed \subseteq Msgs
BY RequestType DEF LabelInv, SplitInv, ReportInv, MessageTypeOK, Targets

LEMMA SameTargets ==
  ASSUME LabelInv, UNCHANGED <<req, messages, chosen, aim, touched>>
  PROVE  AimInv' /\ OnlyNamed'
BY DEF LabelInv, AimInv, OnlyNamed, Namesakes, Identified, messages

LEMMA SameChanges ==
  ASSUME LabelInv, UNCHANGED <<req, messages, aim, touched, vanished, changed>>
  PROVE  ChangedHolds'
BY DEF LabelInv, ChangedHolds, messages

\* What the call would see of a message depends on the messages alone.
LEMMA SameSight ==
  ASSUME UNCHANGED <<req, messages>>, NEW m \in Msgs
  PROVE  Has(labelUid, seen, m)' <=> Has(labelUid, seen, m)
BY DEF Has, Namesakes, Identified, messages

LEMMA SightType == ASSUME NEW uids, NEW sn, NEW m PROVE Has(uids, sn, m) \in BOOLEAN
<1>1. CASE req.tool \in Labelling
  <2>1. Has(uids, sn, m) = \E k \in Namesakes(m) : uids[k] # 0
    BY <1>1 DEF Has
  <2> QED
    BY <2>1
<1>2. CASE req.tool \notin Labelling
  <2>1. Has(uids, sn, m) = (m \in sn)
    BY <1>2 DEF Has
  <2> QED
    BY <2>1
<1> QED
  BY <1>1, <1>2

\* What the call sees now it may have seen, if that is where its look began.
LEMMA SightSeen ==
  ASSUME NEW m, shown'[m] = {Has(labelUid, seen, m)},
         Has(labelUid, seen, m)' <=> Has(labelUid, seen, m)
  PROVE  Had(m, Has(labelUid, seen, m))'
<1>1. CASE Has(labelUid, seen, m)
  <2>1. Has(labelUid, seen, m) = TRUE
    BY <1>1, SightType
  <2> QED
    BY <1>1, <2>1 DEF Had
<1>2. CASE ~Has(labelUid, seen, m)
  <2>1. Has(labelUid, seen, m) = FALSE
    BY <1>2, SightType
  <2> QED
    BY <1>2, <2>1 DEF Had
<1> QED
  BY <1>1, <1>2

LEMMA LabelStutter == ASSUME LabelInv, UNCHANGED vars PROVE LabelInv'
<1> USE DEF vars, mailboxVars, report, plan, history
<1>1. AimInv' /\ OnlyNamed' /\ ChangedHolds'
  BY SameTargets, SameChanges
<1>2. ShownInv'
  BY SameSight DEF LabelInv, ShownInv, Had, Asked
<1> QED
  BY <1>1, <1>2 DEF messages, LabelInv, MessageTypeOK, ToolInv, SplitInv, ReportInv, VanishedInv,
     Targets, Accounted

LEMMA LabelInitially == Init => LabelInv
<1> SUFFICES ASSUME Init PROVE LabelInv
  OBVIOUS
<1> USE DEF Init, MailboxInit
<1>1. Cardinality(Msgs) \in Nat
  BY FS_CardinalityType, MailboxAssumption
<1>2. MessageTypeOK
  <2>1. labelUid \in [Msgs -> Nat] /\ \A m \in Msgs : labelUid[m] <= Cardinality(Msgs)
    BY <1>1
  <2>2. \A m, k \in Msgs : labelUid[m] = labelUid[k] => m = k \/ labelUid[m] = 0
    OBVIOUS
  <2>3. place \in [Msgs -> Places] /\ shown \in [Msgs -> SUBSET BOOLEAN]
    BY DEF Places
  <2>4. nextLabelUid \in Nat \ {0} /\ \A m \in Msgs : labelUid[m] < nextLabelUid
    BY <1>1, <2>1
  <2>5. /\ messageId \in Headers /\ seen \subseteq Msgs /\ todo \subseteq matched
        /\ writeLock \in BOOLEAN /\ aim \in [Msgs -> Nat]
        /\ deaf \subseteq Msgs /\ touched \subseteq Msgs /\ vanished \subseteq Msgs
    OBVIOUS
  <2> QED
    BY ONLY <2>1, <2>2, <2>3, <2>4, <2>5 DEF MessageTypeOK
<1>3. ToolInv /\ SplitInv /\ VanishedInv /\ OnlyNamed /\ ChangedHolds /\ Accounted
  BY MailboxAssumption DEF ToolInv, SplitInv, VanishedInv, OnlyNamed, ChangedHolds, Accounted,
     Unread, Ended
<1>4. ReportInv /\ ShownInv
  BY DEF ReportInv, ShownInv, Targets, Unread, Ended
<1>5. AimInv
  BY <1>1 DEF AimInv
<1> QED
  BY <1>2, <1>3, <1>4, <1>5 DEF LabelInv
-----------------------------------------------------------------------------
(* The steps that change no message. *)

LEMMA ListingsKeep ==
  ASSUME MailboxInv, LabelInv, Listings, UNCHANGED <<messages, report, plan, history>>
  PROVE  LabelInv'
<1> USE DEF report, plan, history
<1>1. /\ UNCHANGED req /\ pc \in {"idle", "listing", "creating"}
      /\ pc' \in {"listing", "creating", "done", "thrown"}
      /\ pc' \in {"done", "creating"} => req.tool \notin InPlace
  BY DEF Listings, Start, ListToCreate, ListToRoute, ListFails, CreateAnswered, CreateThrows, Goto,
         MailboxInv, CreationInv, Decided, InPlace, Creating, Routing
<1>2. AimInv' /\ OnlyNamed' /\ ChangedHolds'
  BY <1>1, SameTargets, SameChanges
<1>3. MessageTypeOK'
  BY DEF messages, LabelInv, MessageTypeOK
<1>4. ToolInv' /\ SplitInv' /\ ReportInv' /\ VanishedInv'
  BY <1>1 DEF LabelInv, ToolInv, SplitInv, ReportInv, VanishedInv, Targets, Unread, Ended
<1>5. ShownInv' /\ Accounted'
  BY <1>1 DEF LabelInv, ShownInv, Had, Asked, Accounted, SplitInv, ReportInv, Targets, Unread
<1> QED
  BY <1>2, <1>3, <1>4, <1>5 DEF LabelInv

LEMMA ListInPlaceKeeps == ASSUME MailboxInv, LabelInv, ListInPlace PROVE LabelInv'
<1> USE DEF report, plan
<1>1. /\ pc = "listing" /\ pc' \in {"resolving", "thrown"} /\ req.tool \in InPlace
      /\ shown' = Look0
      /\ UNCHANGED <<req, messages, report, plan, deaf, touched, vanished>>
  BY DEF ListInPlace, Goto
<1>2. AimInv' /\ OnlyNamed' /\ ChangedHolds'
  BY <1>1, SameTargets, SameChanges
<1>3. shown' \in [Msgs -> SUBSET BOOLEAN]
  BY <1>1, SightType DEF Look0
<1>4. MessageTypeOK'
  BY <1>1, <1>3 DEF messages, LabelInv, MessageTypeOK
<1>5. ToolInv' /\ SplitInv' /\ ReportInv' /\ VanishedInv' /\ Accounted'
  BY <1>1 DEF LabelInv, ToolInv, SplitInv, ReportInv, VanishedInv, Accounted, Targets, Unread,
     Ended
<1>6. ShownInv'
  <2>1. \A m \in Msgs : Had(m, Has(labelUid, seen, m))'
    <3> SUFFICES ASSUME NEW m \in Msgs PROVE Had(m, Has(labelUid, seen, m))'
      OBVIOUS
    <3>1. shown'[m] = {Has(labelUid, seen, m)} /\ (Has(labelUid, seen, m)' <=> Has(labelUid, seen, m))
      BY <1>1, SameSight DEF Look0
    <3> QED
      BY <3>1, SightSeen
  <2>2. skipped' = {} /\ chosen' = {} /\ changed' = {}
    BY <1>1 DEF LabelInv, SplitInv, ReportInv, Unread, Ended
  <2> QED
    BY <2>1, <2>2 DEF ShownInv
<1> QED
  BY <1>2, <1>4, <1>5, <1>6 DEF LabelInv

LEMMA LockKeeps == ASSUME MailboxInv, LabelInv, Lock PROVE LabelInv'
<1> USE DEF report, history
<1>1. /\ pc = "locking" /\ pc' = "revalidating" /\ writeLock' = TRUE
      /\ UNCHANGED <<req, messages, report, todo, chosen, aim, history>>
  BY DEF Lock, Goto
<1>2. AimInv' /\ OnlyNamed' /\ ChangedHolds'
  BY <1>1, SameTargets, SameChanges
<1>3. MessageTypeOK' /\ ToolInv' /\ SplitInv' /\ ReportInv' /\ VanishedInv' /\ Accounted'
  BY <1>1 DEF messages, LabelInv, MessageTypeOK, ToolInv, SplitInv, ReportInv, VanishedInv,
     Accounted, Targets, Unread, Ended
<1>4. ShownInv'
  BY <1>1 DEF LabelInv, ShownInv, Had, Asked
<1> QED
  BY <1>2, <1>3, <1>4 DEF LabelInv

\* A command outside the catch fails: nothing that was done is undone.
LEMMA FailsKeeps == ASSUME MailboxInv, LabelInv, Fails PROVE LabelInv'
<1> USE DEF report, history
<1>1. /\ pc \notin Ended /\ pc' = "thrown" /\ writeLock' = FALSE
      /\ UNCHANGED <<req, messages, report, todo, chosen, aim, history>>
  BY DEF Fails, Goto, Ended
<1>2. AimInv' /\ OnlyNamed' /\ ChangedHolds'
  BY <1>1, SameTargets, SameChanges
<1>3. MessageTypeOK' /\ ToolInv' /\ SplitInv' /\ ReportInv' /\ VanishedInv' /\ Accounted'
  BY <1>1 DEF messages, LabelInv, MessageTypeOK, ToolInv, SplitInv, ReportInv, VanishedInv,
     Accounted, Targets, Unread, Ended
<1>4. ShownInv'
  BY <1>1 DEF LabelInv, ShownInv, Had, Asked
<1> QED
  BY <1>2, <1>3, <1>4 DEF LabelInv

LEMMA ReconcileKeeps ==
  ASSUME MailboxInv, LabelInv, Reconciled \/ \E m \in Msgs : Reconcile(m)
  PROVE  LabelInv'
<1> USE DEF report, history, plan, mailboxVars
<1>1. /\ pc = "reconciling" /\ pc' \in {"reconciling", "done"} /\ todo' \subseteq todo
      /\ UNCHANGED <<req, messages, report, writeLock, chosen, aim, history>>
  BY DEF Reconciled, Reconcile, Goto
<1>2. AimInv' /\ OnlyNamed' /\ ChangedHolds'
  BY <1>1, SameTargets, SameChanges
<1>3. MessageTypeOK' /\ ToolInv' /\ SplitInv' /\ ReportInv' /\ VanishedInv'
  BY <1>1 DEF messages, LabelInv, MessageTypeOK, ToolInv, SplitInv, ReportInv, VanishedInv,
     Targets, Unread, Ended
<1>4. Accounted'
  BY <1>1 DEF LabelInv, SplitInv, ReportInv, Accounted, Targets, Unread, Ended
<1>5. ShownInv'
  BY <1>1 DEF LabelInv, ShownInv, Had, Asked
<1> QED
  BY <1>2, <1>3, <1>4, <1>5 DEF LabelInv
-----------------------------------------------------------------------------
(* What exists, and the look in the label mailbox. *)

LEMMA ResolveKeeps == ASSUME MailboxInv, LabelInv, Resolve PROVE LabelInv'
<1> USE DEF history, LabelInv
<1>1. /\ pc = "resolving" /\ req.tool \in InPlace
      /\ matched' = Present(req.uids) /\ missing' = req.uids \ matched'
      /\ UNCHANGED <<req, messages, changed, failed, writeLock, aim, history>>
  BY DEF Resolve, ToolInv, Unread, Ended
<1>2. /\ matched = {} /\ missing = {} /\ skipped = {} /\ chosen = {} /\ todo = {}
      /\ changed = {} /\ failed = {} /\ touched = {} /\ writeLock = FALSE
      /\ \A m \in Msgs : Had(m, Has(labelUid, seen, m))
  BY <1>1 DEF SplitInv, ReportInv, ToolInv, ShownInv, MessageTypeOK, Unread, Ended
<1>3. /\ matched' \subseteq req.uids /\ matched' \subseteq Msgs
      /\ matched' \cup missing' = req.uids /\ matched' \cap missing' = {}
  BY <1>1, RequestType DEF Present
<1>4. OnlyNamed' /\ ChangedHolds'
  BY <1>1, <1>2 DEF OnlyNamed, ChangedHolds
<1>5. CASE req.tool \in Labelling
  <2>1. /\ pc' = "looking" /\ todo' = matched' /\ skipped' = {} /\ chosen' = {}
    BY <1>2, <1>5 DEF Resolve, Goto, Labelling
  <2>2. AimInv'
    BY <1>1, <2>1 DEF AimInv, Namesakes, Identified, messages
  <2>3. MessageTypeOK' /\ ToolInv' /\ VanishedInv'
    BY <1>1, <1>2, <1>5, <2>1
       DEF messages, MessageTypeOK, ToolInv, VanishedInv, Ended
  <2>4. SplitInv' /\ ReportInv' /\ Accounted'
    BY <1>1, <1>2, <1>3, <2>1 DEF SplitInv, ReportInv, Accounted, Targets, Unread, Ended
  <2>5. ShownInv'
    BY <1>1, <1>2, <2>1, SameSight DEF ShownInv, Had
  <2> QED
    BY <1>4, <2>2, <2>3, <2>4, <2>5
<1>6. CASE req.tool = "delete"
  <2>1. /\ pc' = "done" /\ todo' = {} /\ skipped' = {} /\ chosen' = {}
    BY <1>2, <1>6 DEF Resolve, Goto, Labelling
  <2>2. AimInv'
    BY <1>1, <2>1 DEF AimInv, Namesakes, Identified, messages
  <2>3. MessageTypeOK' /\ ToolInv' /\ VanishedInv'
    BY <1>1, <1>2, <2>1 DEF messages, MessageTypeOK, ToolInv, VanishedInv, Ended
  <2>4. SplitInv' /\ ReportInv' /\ Accounted' /\ ShownInv'
    BY <1>1, <1>2, <1>3, <1>6, <2>1
       DEF SplitInv, ReportInv, Accounted, ShownInv, Targets, Unread, Ended
  <2> QED
    BY <1>4, <2>2, <2>3, <2>4
<1>7. CASE req.tool \notin Labelling \cup {"delete"}
  <2>1. /\ skipped' = {m \in matched' : (m \in seen) = Asked} /\ chosen' = matched' \ skipped'
        /\ pc' = IF req.dryRun \/ chosen' = {} THEN "done" ELSE "locking"
        /\ todo' = {}
    BY <1>2, <1>7 DEF Resolve, Goto
  <2>2. AimInv'
    BY <1>1, <1>7, <2>1 DEF AimInv, Namesakes, Identified, messages, Labelling
  <2>3. MessageTypeOK' /\ ToolInv' /\ VanishedInv'
    BY <1>1, <1>2, <1>7, <2>1 DEF messages, MessageTypeOK, ToolInv, VanishedInv, Ended
  <2>4. SplitInv' /\ ReportInv' /\ Accounted'
    BY <1>1, <1>2, <1>3, <1>7, <2>1
       DEF SplitInv, ReportInv, Accounted, Targets, Unread, Ended
  <2>5. \A m \in Msgs : IF m \in seen THEN TRUE \in shown[m] ELSE FALSE \in shown[m]
    BY <1>2, <1>7 DEF Had, Has
  <2>6. /\ \A m \in skipped' : Had(m, Asked)'
        /\ \A m \in chosen' : Had(m, ~Asked)'
    <3>1. CASE Asked
      <4>1. Asked' /\ skipped' = matched' \cap seen /\ chosen' = matched' \ seen
        BY <1>1, <2>1, <3>1 DEF Asked
      <4> QED
        BY <1>1, <1>3, <2>5, <4>1 DEF Had
    <3>2. CASE ~Asked
      <4>1. ~Asked' /\ skipped' = matched' \ seen /\ chosen' = matched' \cap seen
        BY <1>1, <2>1, <3>2 DEF Asked
      <4> QED
        BY <1>1, <1>3, <2>5, <4>1 DEF Had
    <3> QED
      BY <3>1, <3>2
  <2>7. ShownInv'
    BY <1>1, <1>2, <2>1, <2>6 DEF ShownInv
  <2> QED
    BY <1>4, <2>2, <2>3, <2>4, <2>7
<1> QED
  BY <1>5, <1>6, <1>7

LEMMA LookedKeeps == ASSUME MailboxInv, LabelInv, Looked PROVE LabelInv'
<1> USE DEF report, LabelInv
<1>1. /\ pc \in {"looking", "lookingAgain"} /\ todo = {} /\ req.tool \in Labelling
      /\ UNCHANGED <<req, messages, report, writeLock, chosen, aim, deaf, touched, vanished>>
  BY DEF Looked, ToolInv
<1>2. AimInv' /\ OnlyNamed' /\ ChangedHolds'
  BY <1>1, SameTargets, SameChanges
<1>3. /\ changed = {} /\ failed = {} /\ chosen \subseteq matched
      /\ matched \subseteq chosen \cup skipped /\ writeLock = FALSE
      /\ matched \cup missing = req.uids
  BY <1>1 DEF ReportInv, SplitInv, ToolInv, MessageTypeOK, Ended, Labelling, InPlace, Unread
<1>4. CASE /\ pc' = "done"
           /\ chosen = {} \/ req.dryRun
           /\ UNCHANGED <<todo, shown>>
  <2>1. MessageTypeOK' /\ ToolInv' /\ SplitInv' /\ ReportInv' /\ VanishedInv' /\ Accounted'
    BY <1>1, <1>3, <1>4
       DEF messages, MessageTypeOK, ToolInv, SplitInv, ReportInv, VanishedInv, Accounted,
           Targets, Unread, Ended
  <2>2. ShownInv'
    BY <1>1, <1>4 DEF ShownInv, Had, Asked
  <2> QED
    BY <1>2, <2>1, <2>2
<1>5. CASE /\ pc' = "lookingAgain" /\ req.tool = "apply" /\ ~req.dryRun /\ todo' = chosen
           /\ shown' = [m \in Msgs |-> IF m \in chosen THEN Look0[m] ELSE shown[m]]
  <2>1. shown' \in [Msgs -> SUBSET BOOLEAN]
    BY <1>5, SightType DEF MessageTypeOK, Look0
  <2>2. MessageTypeOK'
    BY <1>1, <1>3, <1>5, <2>1 DEF messages, MessageTypeOK
  <2>3. ToolInv' /\ SplitInv' /\ ReportInv' /\ VanishedInv' /\ Accounted'
    BY <1>1, <1>3, <1>5
       DEF ToolInv, SplitInv, ReportInv, VanishedInv, Accounted, Targets, Unread, Ended, Labelling,
           InPlace
  <2>4. ASSUME NEW m \in Msgs PROVE Had(m, Has(labelUid, seen, m))'
    <3>1. CASE m \notin chosen
      BY <1>1, <1>5, <3>1, SameSight DEF ShownInv, Had
    <3>2. CASE m \in chosen
      <4>1. shown'[m] = {Has(labelUid, seen, m)}
        BY <1>5, <3>2 DEF Look0
      <4> QED
        BY <1>1, <4>1, SameSight, SightSeen
    <3> QED
      BY <3>1, <3>2
  <2>5. chosen \cap skipped = {} /\ skipped \subseteq Msgs
    BY ReportType DEF SplitInv
  <2>6. \A m \in skipped' : Had(m, Asked)' \/ (req'.tool = "remove" /\ m \in deaf')
    BY <1>1, <1>5, <2>5 DEF ShownInv, Had, Asked
  <2>7. ShownInv'
    BY <1>1, <1>3, <1>5, <2>4, <2>6 DEF ShownInv
  <2> QED
    BY <1>2, <2>2, <2>3, <2>7
<1>6. CASE /\ pc' = "locking" /\ ~req.dryRun
           /\ req.tool = "remove" \/ pc = "lookingAgain"
           /\ UNCHANGED <<todo, shown>>
  <2>1. MessageTypeOK' /\ ToolInv' /\ SplitInv' /\ ReportInv' /\ VanishedInv' /\ Accounted'
    BY <1>1, <1>3, <1>6
       DEF messages, MessageTypeOK, ToolInv, SplitInv, ReportInv, VanishedInv, Accounted,
           Targets, Unread, Ended, Labelling, InPlace
  <2>2. ShownInv'
    BY <1>1, <1>6 DEF ShownInv, Had, Asked
  <2> QED
    BY <1>2, <2>1, <2>2
<1> QED
  BY <1>1, <1>4, <1>5, <1>6 DEF Looked, Goto, Labelling

\* The label uid found is that of a message with the Message-ID.
LEMMA FoundInLabel ==
  ASSUME LabelInv, NEW m \in Msgs, InLabel(m) # {}
  PROVE  /\ Smallest(InLabel(m)) \in Nat \ {0} /\ Smallest(InLabel(m)) < nextLabelUid
         /\ \E k \in Namesakes(m) : labelUid[k] = Smallest(InLabel(m))
<1>1. Namesakes(m) \subseteq Msgs
  BY DEF Namesakes, Identified
<1>2. \A k \in Msgs : labelUid[k] \in Nat /\ labelUid[k] < nextLabelUid
  BY DEF LabelInv, MessageTypeOK
<1>3. InLabel(m) \subseteq Nat \ {0}
  BY <1>1, <1>2 DEF InLabel
<1>4. \E n \in InLabel(m) : \A k \in InLabel(m) : n <= k
  BY <1>3, Least
<1>5. Smallest(InLabel(m)) \in InLabel(m)
  BY <1>4 DEF Smallest
<1>6. PICK k \in Namesakes(m) : labelUid[k] = Smallest(InLabel(m))
  BY <1>5 DEF InLabel
<1> QED
  BY <1>1, <1>2, <1>3, <1>5, <1>6

LEMMA SightInLabel ==
  ASSUME LabelInv, NEW m \in Msgs, req.tool \in Labelling
  PROVE  Has(labelUid, seen, m) <=> InLabel(m) # {}
BY DEF Has, InLabel

\* A search the server refuses finds nothing; then a label that is there is missed.
LEMMA LookKeeps ==
  ASSUME MailboxInv, LabelInv, NEW m \in Msgs, NEW heard \in BOOLEAN, Look(m, heard)
  PROVE  LabelInv'
<1> USE DEF LabelInv, mailboxVars
<1> DEFINE found == FoundIn(m, heard) # {}
<1>1. /\ pc \in {"looking", "lookingAgain"} /\ m \in todo /\ todo' = todo \ {m}
      /\ aim' = [aim EXCEPT ![m] = IF found THEN Smallest(InLabel(m)) ELSE 0]
      /\ UNCHANGED <<pc, req, messages, matched, missing, changed, failed, writeLock, shown,
                     touched, vanished>>
  BY DEF Look, CanLook
<1>10. found <=> heard /\ InLabel(m) # {}
  BY DEF FoundIn
<1>11. /\ deaf' \subseteq Msgs /\ \A j \in Msgs \ {m} : j \in deaf' <=> j \in deaf
       /\ ~found /\ InLabel(m) # {} => m \in deaf'
  <2>1. deaf' = IF FoundIn(m, heard) = InLabel(m) THEN deaf \ {m} ELSE deaf \cup {m}
    BY DEF Look
  <2> QED
    BY <2>1 DEF MessageTypeOK
<1>2. /\ req.tool \in Labelling /\ req.tool \in InPlace /\ (pc = "lookingAgain" => req.tool = "apply")
      /\ changed = {} /\ failed = {} /\ todo \subseteq matched /\ matched \subseteq req.uids
      /\ Had(m, Has(labelUid, seen, m))
  BY <1>1 DEF ToolInv, ReportInv, SplitInv, MessageTypeOK, ShownInv, Ended, Labelling, InPlace
<1>3. OnlyNamed' /\ ChangedHolds' /\ Accounted' /\ VanishedInv' /\ ToolInv'
  BY <1>1, <1>2 DEF OnlyNamed, ChangedHolds, Accounted, VanishedInv, ToolInv, Namesakes, Identified,
     messages
<1>4. /\ aim' \in [Msgs -> Nat] /\ aim'[m] < nextLabelUid
      /\ \A j \in Msgs \ {m} : aim'[j] = aim[j]
      /\ aim'[m] # 0 <=> found
      /\ aim'[m] # 0 => \E k \in Namesakes(m) : labelUid[k] = aim'[m]
  <2> HIDE DEF found
  <2>1. CASE found
    BY <1>1, <1>10, <2>1, FoundInLabel DEF MessageTypeOK
  <2>2. CASE ~found
    BY <1>1, <2>2 DEF MessageTypeOK
  <2> QED
    BY <2>1, <2>2
<1>5. MessageTypeOK'
  BY <1>1, <1>4, <1>11 DEF MessageTypeOK, messages
<1>6. \/ found = (req.tool = "remove") /\ chosen' = chosen \cup {m} /\ skipped' = skipped
      \/ /\ found # (req.tool = "remove")
         /\ chosen' = chosen \ {m} /\ skipped' = skipped \cup {m}
  BY DEF Look
<1> HIDE DEF found
<1>7. SplitInv' /\ ReportInv'
  BY <1>1, <1>2, <1>6 DEF SplitInv, ReportInv, Targets, Unread, Ended
<1>8. AimInv'
  <2>1. \A j \in Msgs : aim'[j] < nextLabelUid'
    BY <1>1, <1>4 DEF AimInv, messages
  <2>2. \A j, k \in Msgs : aim'[j] # 0 /\ labelUid[k] = aim'[j] => k \in Namesakes(j)
    <3>1. \A k \in Msgs : aim'[m] # 0 /\ labelUid[k] = aim'[m] => k \in Namesakes(m)
      BY <1>4 DEF MessageTypeOK, Namesakes, Identified
    <3> QED
      BY <1>4, <3>1 DEF AimInv
  <2>3. \A j \in Msgs : Namesakes(j)' = Namesakes(j)
    BY <1>1 DEF Namesakes, Identified, messages
  <2>4. req.tool = "remove" => \A j \in chosen' : aim'[j] # 0
    BY <1>4, <1>6, ReportType DEF AimInv
  <2> QED
    BY <1>1, <2>1, <2>2, <2>3, <2>4 DEF AimInv, messages
<1>9. ShownInv'
  <2>1. \A j \in Msgs : Had(j, Has(labelUid, seen, j))'
    BY <1>1, SameSight DEF ShownInv, Had
  <2>2. IF InLabel(m) # {} THEN TRUE \in shown[m] ELSE FALSE \in shown[m]
    BY <1>2, SightInLabel DEF Had
  <2>3. /\ m \in skipped' => Had(m, Asked)' \/ (req.tool = "remove" /\ m \in deaf')
        /\ m \in chosen' => Had(m, ~Asked)' \/ (req.tool = "apply" /\ m \in deaf')
    BY <1>1, <1>2, <1>6, <1>10, <1>11, <2>2 DEF Had, Asked, Labelling, SplitInv
  <2>4. /\ \A j \in skipped' : Had(j, Asked)' \/ (req.tool = "remove" /\ j \in deaf')
        /\ \A j \in chosen' : \/ pc' \in {"lookingAgain", "thrown"} /\ j \in todo'
                              \/ Had(j, ~Asked)'
                              \/ (req.tool = "apply" /\ j \in deaf')
    BY <1>1, <1>6, <1>11, <2>3, ReportType DEF ShownInv, Had, Asked
  <2> QED
    BY <1>1, <1>2, <2>1, <2>4 DEF ShownInv
<1> QED
  BY <1>3, <1>5, <1>7, <1>8, <1>9
-----------------------------------------------------------------------------
(* The change, under the write lock. *)

LEMMA LockedType ==
  ASSUME MailboxInv, LabelInv, pc \in {"revalidating", "mutating"}
  PROVE  /\ req.tool \in InPlace \ {"delete"} /\ ~req.dryRun /\ todo = {}
         /\ changed = {} /\ failed = {} /\ writeLock = TRUE
         /\ matched \subseteq chosen \cup skipped /\ matched \cup missing = req.uids
         /\ \A m \in chosen : Had(m, ~Asked) \/ (req.tool = "apply" /\ m \in deaf)
BY DEF LabelInv, ToolInv, SplitInv, ReportInv, ShownInv, MessageTypeOK, Unread, Ended

LEMMA RevalidateKeeps == ASSUME MailboxInv, LabelInv, Revalidate PROVE LabelInv'
<1> USE DEF LabelInv
<1> DEFINE stale == {m \in chosen : ~StillThere(m)}
<1>1. /\ pc = "revalidating" /\ vanished' = chosen \ Present(chosen)
      /\ matched' = matched \ stale /\ missing' = missing \cup stale
      /\ \/ stale = chosen /\ pc' = "done" /\ writeLock' = FALSE
         \/ pc' = "mutating" /\ writeLock' = TRUE
      /\ UNCHANGED <<req, messages, skipped, changed, failed, todo, chosen, aim, shown, deaf,
                     touched>>
  BY LockedType DEF Revalidate, Goto
<1>2. chosen \subseteq matched /\ stale \subseteq chosen
  BY <1>1 DEF SplitInv, Ended
<1>3. AimInv' /\ OnlyNamed'
  BY <1>1, SameTargets
<1>4. ChangedHolds' /\ ToolInv'
  BY <1>1, LockedType DEF ChangedHolds, ToolInv, Ended
<1>5. MessageTypeOK'
  BY <1>1, LockedType, ReportType DEF messages, MessageTypeOK
<1>6. SplitInv'
  <2> HIDE DEF stale
  <2>1. /\ matched' \cup missing' = req.uids /\ matched' \cap missing' = {}
        /\ skipped \subseteq matched' /\ matched' \subseteq chosen \cup skipped
    BY <1>1, <1>2, LockedType DEF SplitInv
  <2> QED
    BY <1>1, <2>1, LockedType DEF SplitInv, Unread, Ended
<1>7. ReportInv'
  BY <1>1, LockedType DEF ReportInv, Targets
<1>8. VanishedInv'
  BY <1>1, <1>2, ReportType DEF VanishedInv, StillThere, Present, SplitInv
<1>9. ShownInv' /\ Accounted'
  <2> HIDE DEF stale
  <2>1. ShownInv'
    BY <1>1, LockedType DEF ShownInv, Had, Asked
  <2>2. pc' = "done" => matched' = skipped
    BY <1>1, <1>2, LockedType DEF SplitInv
  <2>3. Accounted'
    BY <1>1, <1>6, <2>2, LockedType DEF Accounted, SplitInv, Unread
  <2> QED
    BY <2>1, <2>3
<1> QED
  BY <1>3, <1>4, <1>5, <1>6, <1>7, <1>8, <1>9

LEMMA RevalidateThrowsKeeps ==
  ASSUME MailboxInv, LabelInv, RevalidateThrows \/ ChangeRejected
  PROVE  LabelInv'
<1> USE DEF LabelInv, history
<1>1. /\ pc \in {"revalidating", "mutating"} /\ pc' = "done" /\ writeLock' = FALSE
      /\ failed' = chosen \/ failed' = Targets
      /\ UNCHANGED <<req, messages, matched, missing, skipped, changed, todo, chosen, aim, history>>
  BY DEF RevalidateThrows, ChangeRejected, Goto
<1>2. AimInv' /\ OnlyNamed' /\ ChangedHolds'
  BY <1>1, SameTargets, SameChanges
<1>3. MessageTypeOK' /\ ToolInv' /\ SplitInv' /\ VanishedInv'
  BY <1>1, LockedType DEF messages, MessageTypeOK, ToolInv, SplitInv, VanishedInv, Unread, Ended
<1>4. ReportInv' /\ ShownInv'
  BY <1>1, LockedType DEF ReportInv, ShownInv, Targets, Had, Asked, Unread, Ended
<1>5. Accounted'
  BY <1>1, LockedType DEF Accounted, SplitInv, Targets
<1> QED
  BY <1>2, <1>3, <1>4, <1>5

\* New uids in the label mailbox are above all those given before, one for each message.
LEMMA NewUids ==
  ASSUME LabelInv, NEW new, new \subseteq Msgs, \A m \in new : labelUid[m] = 0,
         NEW f \in [new -> nextLabelUid..(nextLabelUid + Cardinality(new) - 1)],
         \A m, k \in new : f[m] = f[k] => m = k,
         NEW uids, uids = [m \in Msgs |-> IF m \in new THEN f[m] ELSE labelUid[m]]
  PROVE  LET next == nextLabelUid + Cardinality(new) IN
         /\ uids \in [Msgs -> Nat] /\ next \in Nat \ {0} /\ nextLabelUid <= next
         /\ \A m \in Msgs : uids[m] < next
         /\ \A m, k \in Msgs : uids[m] = uids[k] => m = k \/ uids[m] = 0
         /\ \A m \in Msgs : uids[m] # labelUid[m] => uids[m] >= nextLabelUid
<1> DEFINE next == nextLabelUid + Cardinality(new)
<1>1. Cardinality(new) \in Nat
  BY MailboxAssumption, FS_Subset, FS_CardinalityType
<1>2. /\ nextLabelUid \in Nat \ {0} /\ \A m \in Msgs : labelUid[m] \in Nat
      /\ \A m \in Msgs : labelUid[m] < nextLabelUid
      /\ \A m, k \in Msgs : labelUid[m] = labelUid[k] => m = k \/ labelUid[m] = 0
  BY DEF LabelInv, MessageTypeOK
<1>3. next \in Nat \ {0} /\ nextLabelUid <= next
  BY <1>1, <1>2
<1>4. \A m \in new : uids[m] = f[m] /\ f[m] \in Nat /\ nextLabelUid <= f[m] /\ f[m] < next
  BY <1>1, <1>2
<1>5. \A m \in Msgs \ new : uids[m] = labelUid[m]
  OBVIOUS
<1>6. \A m \in Msgs : uids[m] \in Nat /\ uids[m] < next
  BY <1>2, <1>3, <1>4, <1>5
<1>7. uids \in [Msgs -> Nat]
  BY <1>6
<1> HIDE DEF next
<1>8. \A m \in Msgs : uids[m] # labelUid[m] => uids[m] >= nextLabelUid
  BY <1>2, <1>4, <1>5
<1>9. ASSUME NEW m \in Msgs, NEW k \in Msgs, uids[m] = uids[k]
      PROVE  m = k \/ uids[m] = 0
  <2>1. CASE m \in new /\ k \in new
    BY <1>4, <1>9, <2>1
  <2>2. CASE m \notin new /\ k \notin new
    BY <1>2, <1>5, <1>9, <2>2
  <2>3. CASE m \in new /\ k \notin new
    <3>1. uids[m] >= nextLabelUid /\ uids[k] < nextLabelUid /\ uids[m] \in Nat
      BY <1>2, <1>4, <1>5, <2>3
    <3> QED
      BY <1>2, <1>9, <3>1
  <2>4. CASE m \notin new /\ k \in new
    <3>1. uids[k] >= nextLabelUid /\ uids[m] < nextLabelUid /\ uids[m] \in Nat
      BY <1>2, <1>4, <1>5, <2>4
    <3> QED
      BY <1>2, <1>9, <3>1
  <2> QED
    BY <2>1, <2>2, <2>3, <2>4
<1> QED
  BY <1>3, <1>6, <1>7, <1>8, <1>9 DEF next

\* What the server does when the uids of some of the messages to change are sent.
LEMMA ChangeIsRight ==
  ASSUME MailboxInv, LabelInv, pc = "mutating", NEW uids, uids \subseteq Targets, Change(uids)
  PROVE  /\ place' \in [Msgs -> Places] /\ labelUid' \in [Msgs -> Nat]
         /\ nextLabelUid' \in Nat \ {0} /\ nextLabelUid <= nextLabelUid'
         /\ \A m \in Msgs : labelUid'[m] < nextLabelUid'
         /\ \A m, k \in Msgs : labelUid'[m] = labelUid'[k] => m = k \/ labelUid'[m] = 0
         /\ \A m \in Msgs : labelUid'[m] \in {0, labelUid[m]} \/ labelUid'[m] >= nextLabelUid
         /\ seen' \subseteq Msgs /\ touched' \subseteq Msgs
         /\ IF req.tool = "remove"
              THEN /\ touched' \subseteq touched \cup UNION {Namesakes(m) : m \in uids}
                   /\ \A m \in uids, k \in Msgs : labelUid'[k] # aim[m]
              ELSE /\ touched' = touched \cup Present(uids) /\ place' = place
<1> DEFINE hit == Reached(uids)
           new == {m \in hit : labelUid[m] = 0}
<1>1. /\ touched' = touched \cup hit /\ touched \subseteq Msgs /\ seen \subseteq Msgs
      /\ labelUid \in [Msgs -> Nat] /\ nextLabelUid \in Nat \ {0} /\ place \in [Msgs -> Places]
      /\ \A m \in Msgs : labelUid[m] < nextLabelUid
      /\ \A m, k \in Msgs : labelUid[m] = labelUid[k] => m = k \/ labelUid[m] = 0
  BY DEF Change, LabelInv, MessageTypeOK
<1>2. uids \subseteq Msgs /\ uids \subseteq chosen /\ hit \subseteq Msgs
  BY ReportType DEF Targets, Reached, Present
<1>3. CASE req.tool = "apply"
  <2>1. PICK f \in [new -> nextLabelUid..(nextLabelUid + Cardinality(new) - 1)] :
          /\ \A m, k \in new : f[m] = f[k] => m = k
          /\ labelUid' = [m \in Msgs |-> IF m \in new THEN f[m] ELSE labelUid[m]]
    BY <1>3 DEF Change
  <2>2. /\ nextLabelUid' = nextLabelUid + Cardinality(new) /\ UNCHANGED <<place, seen>>
        /\ hit = Present(uids)
    BY <1>3 DEF Change, Reached
  <2>3. new \subseteq Msgs /\ \A m \in new : labelUid[m] = 0
    BY <1>2
  <2> HIDE DEF new, hit
  <2>4. /\ labelUid' \in [Msgs -> Nat]
        /\ nextLabelUid' \in Nat \ {0} /\ nextLabelUid <= nextLabelUid'
        /\ \A m \in Msgs : labelUid'[m] < nextLabelUid'
        /\ \A m, k \in Msgs : labelUid'[m] = labelUid'[k] => m = k \/ labelUid'[m] = 0
        /\ \A m \in Msgs : labelUid'[m] # labelUid[m] => labelUid'[m] >= nextLabelUid
    BY <2>1, <2>2, <2>3, NewUids
  <2> QED
    BY <1>1, <1>2, <1>3, <2>2, <2>4
<1>4. CASE req.tool = "remove"
  <2>1. /\ labelUid' = [m \in Msgs |-> IF m \in hit THEN 0 ELSE labelUid[m]]
        /\ place' = [m \in Msgs |-> IF m \in hit THEN "renewed" ELSE place[m]]
        /\ UNCHANGED <<nextLabelUid, seen>>
        /\ hit = {k \in Msgs : \E m \in uids : labelUid[k] = aim[m]}
    BY <1>4 DEF Change, Reached
  <2>2. \A m \in uids : aim[m] # 0
    BY <1>2, <1>4 DEF LabelInv, AimInv
  <2> HIDE DEF hit
  <2>3. \A m \in uids, k \in Msgs : labelUid'[k] # aim[m]
    BY <1>2, <2>1, <2>2
  <2>4. hit \subseteq UNION {Namesakes(m) : m \in uids}
    <3> SUFFICES ASSUME NEW k \in hit PROVE \E m \in uids : k \in Namesakes(m)
      OBVIOUS
    <3>1. PICK m \in uids : labelUid[k] = aim[m] /\ k \in Msgs
      BY <2>1
    <3> QED
      BY <1>2, <2>2, <3>1 DEF LabelInv, AimInv
  <2>5. place' \in [Msgs -> Places]
    BY <1>1, <2>1 DEF Places
  <2>6. /\ labelUid' \in [Msgs -> Nat]
        /\ \A m \in Msgs : labelUid'[m] < nextLabelUid' /\ labelUid'[m] \in {0, labelUid[m]}
        /\ \A m, k \in Msgs : labelUid'[m] = labelUid'[k] => m = k \/ labelUid'[m] = 0
    BY <1>1, <2>1
  <2> QED
    BY <1>1, <1>2, <1>4, <2>1, <2>3, <2>4, <2>5, <2>6
<1>5. CASE req.tool \notin {"apply", "remove"}
  <2>1. /\ seen' = (IF req.tool = "read" THEN seen \cup hit ELSE seen \ hit)
        /\ UNCHANGED <<place, labelUid, nextLabelUid>> /\ hit = Present(uids)
    BY <1>5 DEF Change, Reached
  <2> HIDE DEF hit
  <2> QED
    BY <1>1, <1>2, <1>5, <2>1
<1> QED
  BY <1>3, <1>4, <1>5

\* A label uid found before is given to no message later.
LEMMA AimKeeps ==
  ASSUME MailboxInv, LabelInv, UNCHANGED <<req, messageId, aim, chosen>>,
         labelUid' \in [Msgs -> Nat], nextLabelUid' \in Nat, nextLabelUid <= nextLabelUid',
         \A m \in Msgs : labelUid'[m] \in {0, labelUid[m]} \/ labelUid'[m] >= nextLabelUid
  PROVE  AimInv'
<1>1. \A m \in Msgs : aim[m] \in Nat /\ aim[m] < nextLabelUid /\ nextLabelUid \in Nat
  BY DEF LabelInv, MessageTypeOK, AimInv
<1>2. \A m \in Msgs : aim[m] < nextLabelUid'
  BY <1>1
<1>3. \A m \in Msgs : Namesakes(m)' = Namesakes(m)
  BY DEF Namesakes, Identified
<1>4. \A m, k \in Msgs : aim[m] # 0 /\ labelUid'[k] = aim[m] => labelUid[k] = aim[m]
  BY <1>1
<1> QED
  BY <1>2, <1>3, <1>4 DEF LabelInv, AimInv

\* The end of every change: what it did, and a report that is about its targets.
LEMMA ChangeKeeps ==
  ASSUME MailboxInv, LabelInv, pc = "mutating", NEW uids, uids \subseteq Targets, Change(uids),
         UNCHANGED <<req, messageId, matched, missing, skipped, chosen, aim, shown, deaf,
                     vanished>>,
         writeLock' = FALSE, todo' \subseteq Targets,
         \/ /\ pc' = "reconciling" /\ req.tool \in Labelling
            /\ uids = Targets /\ changed' = Targets /\ failed' = failed
         \/ /\ pc' = "done" /\ uids = Targets /\ changed' = Targets /\ failed' = failed
         \/ pc' = "done" /\ changed' = changed /\ failed' = chosen
  PROVE  LabelInv'
<1> USE DEF LabelInv
<1>1. /\ place' \in [Msgs -> Places] /\ labelUid' \in [Msgs -> Nat]
      /\ nextLabelUid' \in Nat \ {0} /\ nextLabelUid <= nextLabelUid'
      /\ \A m \in Msgs : labelUid'[m] < nextLabelUid'
      /\ \A m, k \in Msgs : labelUid'[m] = labelUid'[k] => m = k \/ labelUid'[m] = 0
      /\ \A m \in Msgs : labelUid'[m] \in {0, labelUid[m]} \/ labelUid'[m] >= nextLabelUid
      /\ seen' \subseteq Msgs /\ touched' \subseteq Msgs
  BY ChangeIsRight
<1>2. IF req.tool = "remove"
        THEN /\ touched' \subseteq touched \cup UNION {Namesakes(m) : m \in uids}
             /\ \A m \in uids, k \in Msgs : labelUid'[k] # aim[m]
        ELSE touched' = touched \cup Present(uids) /\ place' = place
  BY ChangeIsRight
<1>3. uids \subseteq chosen /\ chosen \subseteq Msgs /\ chosen \subseteq req.uids
  BY ReportType DEF Targets, SplitInv
<1>4. AimInv'
  BY <1>1, AimKeeps
<1>5. MessageTypeOK'
  BY <1>1 DEF MessageTypeOK, Targets
<1>6. ToolInv' /\ VanishedInv'
  BY LockedType DEF ToolInv, VanishedInv, Ended
<1>7. SplitInv' /\ ReportInv'
  BY LockedType DEF SplitInv, ReportInv, Targets, Unread, Ended
<1>8. OnlyNamed'
  <2>1. CASE req.tool = "remove"
    <3>1. UNION {Namesakes(m) : m \in uids} \subseteq UNION {Namesakes(m) : m \in req.uids}
      BY <1>3
    <3>2. UNION {Namesakes(m) : m \in req.uids}' = UNION {Namesakes(m) : m \in req.uids}
      BY DEF Namesakes, Identified
    <3> QED
      BY <1>2, <2>1, <3>1, <3>2, LockedType DEF OnlyNamed
  <2>2. CASE req.tool # "remove"
    BY <1>2, <1>3, <2>2, LockedType DEF OnlyNamed, Present
  <2> QED
    BY <2>1, <2>2
<1>9. ChangedHolds'
  <2>1. changed' \subseteq uids
    BY LockedType
  <2>2. CASE req.tool = "remove"
    BY <1>2, <2>1, <2>2 DEF ChangedHolds
  <2>3. CASE req.tool # "remove"
    <3>1. \A m \in uids : m \notin vanished
      BY <2>3 DEF VanishedInv, Targets
    <3> QED
      BY <1>2, <1>3, <2>1, <2>3, <3>1 DEF ChangedHolds, Present
  <2> QED
    BY <2>2, <2>3
<1>10. ShownInv'
  <2>1. changed' \subseteq chosen
    BY LockedType DEF Targets
  <2> QED
    BY <2>1, LockedType DEF ShownInv, Had, Asked
<1>11. Accounted'
  BY LockedType DEF Accounted, SplitInv, Targets
<1> QED
  BY <1>4, <1>5, <1>6, <1>7, <1>8, <1>9, <1>10, <1>11

LEMMA ChangeSucceedsKeeps == ASSUME MailboxInv, LabelInv, ChangeSucceeds PROVE LabelInv'
<1>1. /\ pc = "mutating" /\ Change(Targets) /\ changed' = Targets /\ writeLock' = FALSE
      /\ UNCHANGED <<req, messageId, matched, missing, skipped, failed, chosen, aim, shown, deaf,
                     vanished>>
      /\ \/ req.tool \in Labelling /\ pc' = "reconciling" /\ todo' = Identified(Targets)
         \/ pc' = "done" /\ todo' = todo
  BY DEF ChangeSucceeds, Goto
<1>2. todo' \subseteq Targets
  BY <1>1, LockedType DEF Identified
<1> QED
  BY <1>1, <1>2, ChangeKeeps

\* The command throws: it may have reached any of the messages it names, or none.
LEMMA ChangeThrowsKeeps ==
  ASSUME MailboxInv, LabelInv, NEW uids, ChangeThrows(uids)
  PROVE  LabelInv'
<1>1. /\ pc = "mutating" /\ uids \subseteq Targets /\ pc' = "done" /\ writeLock' = FALSE
      /\ failed' = chosen
      /\ UNCHANGED <<req, matched, missing, skipped, changed, todo, chosen, aim, shown, deaf,
                     vanished>>
  BY DEF ChangeThrows, Goto
<1>2. CASE uids # {}
  <2>1. Change(uids) /\ UNCHANGED messageId
    BY <1>2 DEF ChangeThrows
  <2>2. todo' \subseteq Targets
    BY <1>1, LockedType
  <2> QED
    BY <1>1, <2>1, <2>2, ChangeKeeps
<1>3. CASE uids = {}
  <2> USE DEF LabelInv
  <2>1. UNCHANGED <<messages, touched>>
    BY <1>3 DEF ChangeThrows
  <2>2. AimInv' /\ OnlyNamed' /\ ChangedHolds'
    BY <1>1, <2>1, SameTargets, SameChanges
  <2>3. MessageTypeOK' /\ ToolInv' /\ SplitInv' /\ VanishedInv'
    BY <1>1, <2>1, LockedType
       DEF messages, MessageTypeOK, ToolInv, SplitInv, VanishedInv, Unread, Ended
  <2>4. ReportInv' /\ ShownInv' /\ Accounted'
    BY <1>1, LockedType
       DEF ReportInv, ShownInv, Accounted, SplitInv, Targets, Had, Asked, Unread, Ended
  <2> QED
    BY <2>2, <2>3, <2>4
<1> QED
  BY <1>2, <1>3
-----------------------------------------------------------------------------
(* Other clients. *)

\* What they do to the messages is seen, and gives no message a label uid found before.
LEMMA OthersKeep ==
  ASSUME MailboxInv, LabelInv, Witness,
         UNCHANGED <<pc, req, messageId, report, plan, deaf, touched, vanished>>,
         place' \in [Msgs -> Places], \A m \in Msgs : place'[m] = "source" => place[m] = "source",
         labelUid' \in [Msgs -> Nat], nextLabelUid' \in Nat, nextLabelUid <= nextLabelUid',
         \A m \in Msgs : labelUid'[m] < nextLabelUid',
         \A m, k \in Msgs : labelUid'[m] = labelUid'[k] => m = k \/ labelUid'[m] = 0,
         \A m \in Msgs : labelUid'[m] \in {0, labelUid[m]} \/ labelUid'[m] >= nextLabelUid,
         seen' \subseteq Msgs
  PROVE  LabelInv'
<1> USE DEF LabelInv, report, plan
<1>1. \A m \in Msgs : shown'[m] = shown[m] \cup {Has(labelUid', seen', m)}
  BY DEF Witness
<1>2. shown' \in [Msgs -> SUBSET BOOLEAN]
  BY SightType DEF Witness, MessageTypeOK
<1>3. MessageTypeOK'
  BY <1>2 DEF MessageTypeOK
<1>4. AimInv'
  BY AimKeeps DEF MessageTypeOK
<1>5. ToolInv' /\ SplitInv' /\ ReportInv' /\ VanishedInv' /\ Accounted'
  BY DEF ToolInv, SplitInv, ReportInv, VanishedInv, Accounted, Targets
<1>6. OnlyNamed'
  BY DEF OnlyNamed, Namesakes, Identified
<1>7. ChangedHolds'
  <2>1. CASE req.tool = "remove"
    <3> SUFFICES ASSUME NEW m \in changed, NEW k \in Msgs PROVE labelUid'[k] # aim[m]
      BY <2>1 DEF ChangedHolds
    <3>1. m \in chosen /\ m \in Msgs
      BY ReportType DEF ReportInv, Targets
    <3>2. aim[m] # 0 /\ aim[m] \in Nat /\ aim[m] < nextLabelUid /\ labelUid[k] # aim[m]
      BY <2>1, <3>1 DEF AimInv, MessageTypeOK, ChangedHolds
    <3> QED
      BY <3>2 DEF MessageTypeOK
  <2>2. CASE req.tool # "remove"
    BY <2>2, ReportType DEF ChangedHolds
  <2> QED
    BY <2>1, <2>2
<1>8. ShownInv'
  <2>1. \A m \in Msgs : Has(labelUid, seen, m)' <=> Has(labelUid', seen', m)
    BY DEF Has, Namesakes, Identified
  <2>2. ASSUME NEW m \in Msgs PROVE Had(m, Has(labelUid, seen, m))'
    <3>1. CASE Has(labelUid', seen', m)
      <4>1. Has(labelUid', seen', m) = TRUE
        BY <3>1, SightType
      <4> QED
        BY <1>1, <2>1, <3>1, <4>1 DEF Had
    <3>2. CASE ~Has(labelUid', seen', m)
      <4>1. Has(labelUid', seen', m) = FALSE
        BY <3>2, SightType
      <4> QED
        BY <1>1, <2>1, <3>2, <4>1 DEF Had
    <3> QED
      BY <3>1, <3>2
  <2>3. \A m \in Msgs : shown[m] \subseteq shown'[m]
    BY <1>1
  <2> QED
    BY <2>2, <2>3, ReportType DEF ShownInv, Had, Asked
<1> QED
  BY <1>3, <1>4, <1>5, <1>6, <1>7, <1>8

LEMMA MessageType ==
  ASSUME LabelInv
  PROVE  /\ place \in [Msgs -> Places] /\ labelUid \in [Msgs -> Nat] /\ seen \subseteq Msgs
         /\ nextLabelUid \in Nat \ {0} /\ \A m \in Msgs : labelUid[m] < nextLabelUid
         /\ \A m, k \in Msgs : labelUid[m] = labelUid[k] => m = k \/ labelUid[m] = 0
BY DEF LabelInv, MessageTypeOK

LEMMA OthersOnMessagesKeep ==
  ASSUME MailboxInv, LabelInv, OthersOnMessages
  PROVE  MailboxInv' /\ LabelInv'
<1>1. /\ Witness /\ Act
      /\ UNCHANGED <<tree, listed, pc, req, target, answer, made, report, plan, deaf, touched,
                     vanished>>
  BY DEF OthersOnMessages, OtherMoves, OtherLabels, OtherReads, Meddling
<1>2. MailboxInv'
  <2>1. others' \in 0..MaxOthers
    BY <1>1, MailboxAssumption DEF Act, MailboxInv, MailboxTypeOK
  <2> QED
    BY <1>1, <2>1
       DEF MailboxInv, MailboxTypeOK, ListingInv, CreationInv, Decided, CreatedHere, TargetByRole
<1>3. CASE \E m \in Msgs, to \in Places : OtherMoves(m, to)
  <2>1. PICK m \in Msgs, to \in Places : OtherMoves(m, to)
    BY <1>3
  <2>2. /\ UNCHANGED <<messageId, nextLabelUid, seen>>
        /\ place' = [place EXCEPT ![m] = to] /\ to # "source"
        /\ labelUid' \in {labelUid, [labelUid EXCEPT ![m] = 0]}
    BY <2>1 DEF OtherMoves
  <2>3. /\ place' \in [Msgs -> Places]
        /\ \A k \in Msgs : place'[k] = "source" => place[k] = "source"
        /\ labelUid' \in [Msgs -> Nat]
        /\ \A k \in Msgs : labelUid'[k] \in {0, labelUid[k]}
    BY <2>2, MessageType
  <2>4. /\ nextLabelUid' \in Nat /\ nextLabelUid <= nextLabelUid' /\ seen' \subseteq Msgs
        /\ \A k \in Msgs : labelUid'[k] < nextLabelUid'
        /\ \A j, k \in Msgs : labelUid'[j] = labelUid'[k] => j = k \/ labelUid'[j] = 0
    BY <2>2, <2>3, MessageType
  <2> QED
    BY <1>1, <1>2, <2>2, <2>3, <2>4, OthersKeep
<1>4. CASE \E m \in Msgs : OtherLabels(m)
  <2>1. PICK m \in Msgs : OtherLabels(m)
    BY <1>4
  <2>2. /\ UNCHANGED <<messageId, place, seen>>
        /\ \/ /\ labelUid' = [labelUid EXCEPT ![m] = nextLabelUid]
              /\ nextLabelUid' = nextLabelUid + 1
           \/ labelUid' = [labelUid EXCEPT ![m] = 0] /\ UNCHANGED nextLabelUid
    BY <2>1 DEF OtherLabels
  <2>3. /\ place' \in [Msgs -> Places] /\ seen' \subseteq Msgs
        /\ \A k \in Msgs : place'[k] = "source" => place[k] = "source"
        /\ labelUid' \in [Msgs -> Nat] /\ nextLabelUid' \in Nat /\ nextLabelUid <= nextLabelUid'
        /\ \A k \in Msgs : labelUid'[k] < nextLabelUid'
        /\ \A k \in Msgs : labelUid'[k] \in {0, labelUid[k]} \/ labelUid'[k] >= nextLabelUid
    BY <2>2, MessageType
  <2>4. \A j, k \in Msgs : labelUid'[j] = labelUid'[k] => j = k \/ labelUid'[j] = 0
    BY <2>2, MessageType
  <2> QED
    BY <1>1, <1>2, <2>2, <2>3, <2>4, OthersKeep
<1>5. CASE \E m \in Msgs : OtherReads(m)
  <2>1. UNCHANGED <<messageId, place, labelUid, nextLabelUid>> /\ seen' \subseteq Msgs
    BY <1>5, MessageType DEF OtherReads
  <2> QED
    BY <1>1, <1>2, <2>1, MessageType, OthersKeep
<1> QED
  BY <1>3, <1>4, <1>5 DEF OthersOnMessages

LEMMA LabelDeletedKeeps == ASSUME MailboxInv, LabelInv, LabelDeleted PROVE MailboxInv' /\ LabelInv'
<1>1. /\ req.tool \in Labelling /\ OtherDeletes(TheLabel) /\ labelUid' = [m \in Msgs |-> 0]
      /\ Witness /\ UNCHANGED <<messageId, place, nextLabelUid, seen, report, plan, deaf, touched,
                                vanished>>
  BY DEF LabelDeleted, Meddling
<1>2. MailboxInv' /\ UNCHANGED <<pc, req>>
  BY <1>1, OtherKeeps DEF Labelling, Routing, OtherDeletes
<1>3. /\ labelUid' \in [Msgs -> Nat] /\ \A m \in Msgs : labelUid'[m] = 0
      /\ \A m \in Msgs : labelUid'[m] < nextLabelUid
  BY <1>1, MessageType
<1> QED
  BY <1>1, <1>2, <1>3, MessageType, OthersKeep

LEMMA OthersOnMailboxesKeep ==
  ASSUME MailboxInv, LabelInv, OthersOnMailboxes, UNCHANGED <<messages, report, plan, history>>
  PROVE  MailboxInv' /\ LabelInv'
<1>1. req.tool \notin Routing /\ UNCHANGED <<pc, req>>
  BY DEF OthersOnMailboxes, OtherCreates, OtherDeletes, Creating, Routing
<1>2. PICK path \in Customs : OtherCreates(path) \/ OtherDeletes(path)
  BY DEF OthersOnMailboxes
<1>3. MailboxInv'
  BY <1>1, <1>2, OtherKeeps, MailboxAssumption
<1>4. AimInv' /\ OnlyNamed' /\ ChangedHolds'
  BY <1>1, SameTargets, SameChanges DEF plan, report, history
<1>5. ShownInv'
  BY <1>1, SameSight DEF LabelInv, ShownInv, Had, Asked, plan, report, history
<1> QED
  BY <1>1, <1>3, <1>4, <1>5
     DEF messages, plan, report, history, LabelInv, MessageTypeOK, ToolInv, SplitInv, ReportInv,
         VanishedInv, Targets, Accounted
-----------------------------------------------------------------------------
(* The theorems. *)

\* The steps of the tools that change messages where they are leave the creations and the
\* routes as they stand.
LEMMA InPlaceStepsKeep ==
  ASSUME MailboxInv, LabelInv,
         \/ ListInPlace \/ Resolve \/ Looked \/ Lock \/ Revalidate \/ RevalidateThrows
         \/ ChangeSucceeds \/ ChangeRejected \/ Reconciled \/ Fails
         \/ \E uids \in SUBSET Msgs : ChangeThrows(uids)
  PROVE  MailboxInv'
<1>1. /\ pc \in {"listing", "resolving", "looking", "lookingAgain", "locking", "revalidating",
                 "mutating", "reconciling"}
      /\ UNCHANGED <<tree, req, target, answer, made, others>>
      /\ UNCHANGED listed \/ (pc = "listing" /\ listed' = tree /\ req.tool \in InPlace)
      /\ pc' \in Stages \ {"idle", "listing", "creating"}
  BY DEF ListInPlace, Resolve, Looked, Lock, Revalidate, RevalidateThrows, ChangeSucceeds,
         ChangeRejected, Reconciled, Fails, ChangeThrows, Goto, Stages
<1>2. CASE pc = "listing"
  BY <1>1, <1>2, InPlaceKeeps DEF ListInPlace, Resolve, Looked, Lock, Revalidate,
     RevalidateThrows, ChangeSucceeds, ChangeRejected, Reconciled, Fails, ChangeThrows, Goto,
     MailboxInv, ListingInv
<1>3. CASE pc # "listing"
  <2>1. req.tool \in InPlace
    BY <1>1, <1>3 DEF LabelInv, ToolInv, Ended
  <2> QED
    BY <1>1, <1>3, <2>1, InPlaceKeeps
<1> QED
  BY <1>2, <1>3

LEMMA HandlerKeeps == ASSUME Inv, Handler PROVE Inv'
<1> USE DEF Inv
<1>1. CASE Listings /\ UNCHANGED <<messages, report, plan, history>>
  <2>1. CASE Start \/ ListToCreate \/ ListToRoute \/ CreateAnswered \/ CreateThrows
    BY <1>1, <2>1, ListingsKeep, StartKeeps, ListToCreateKeeps, ListToRouteKeeps, CreateKeeps
  <2>2. CASE ListFails
    <3>1. MailboxInv'
      BY <2>2, ThrownKeeps DEF ListFails, Goto
    <3> QED
      BY <1>1, <3>1, ListingsKeep
  <2> QED
    BY <1>1, <2>1, <2>2 DEF Listings
<1>2. CASE ListInPlace \/ Resolve \/ Looked \/ Lock \/ Revalidate \/ RevalidateThrows
             \/ ChangeSucceeds \/ ChangeRejected \/ Reconciled \/ Fails
  <2>1. MailboxInv'
    BY <1>2, InPlaceStepsKeep
  <2>2. LabelInv'
    BY <1>2, ListInPlaceKeeps, ResolveKeeps, LookedKeeps, LockKeeps, RevalidateKeeps,
       RevalidateThrowsKeeps, ChangeSucceedsKeeps, ReconcileKeeps, FailsKeeps
  <2> QED
    BY <2>1, <2>2
<1>3. CASE (\E m \in Msgs, heard \in BOOLEAN : Look(m, heard)) \/ \E m \in Msgs : Reconcile(m)
  <2>1. MailboxInv'
    BY <1>3, MailboxStutter DEF Look, Reconcile
  <2>2. LabelInv'
    BY <1>3, LookKeeps, ReconcileKeeps
  <2> QED
    BY <2>1, <2>2
<1>4. CASE \E uids \in SUBSET Msgs : ChangeThrows(uids)
  BY <1>4, InPlaceStepsKeep, ChangeThrowsKeeps
<1> QED
  BY <1>1, <1>2, <1>3, <1>4 DEF Handler

LEMMA NextKeeps == ASSUME Inv, [Next]_vars PROVE Inv'
<1>1. CASE Handler
  BY <1>1, HandlerKeeps
<1>2. CASE World
  BY <1>2, OthersOnMessagesKeep, LabelDeletedKeeps, OthersOnMailboxesKeep DEF World, Inv
<1>3. CASE UNCHANGED vars
  BY <1>3, MailboxStutter, LabelStutter DEF Inv, vars
<1> QED
  BY <1>1, <1>2, <1>3 DEF Next

(***************************************************************************)
(* The invariant holds of every call: folder and label creation, routing,  *)
(* labels and read state, whatever other clients do meanwhile.             *)
(***************************************************************************)
THEOREM Invariance == Spec => []Inv
<1>1. Init => Inv
  BY MailboxInitially, LabelInitially DEF Init, Inv
<1>2. Inv /\ [Next]_vars => Inv'
  BY NextKeeps
<1> QED
  BY <1>1, <1>2, PTL DEF Spec

(***************************************************************************)
(* Every variable stays in its type.  The write lock is held while the     *)
(* uids are looked at again and changed, and never else; two messages of   *)
(* the label mailbox have different uids there, both below the next one    *)
(* the server gives.                                                       *)
(***************************************************************************)
THEOREM TypeCorrect == Spec => []TypeOK
<1>1. Inv => TypeOK
  <2> SUFFICES ASSUME Inv PROVE TypeOK
    OBVIOUS
  <2> USE DEF Inv
  <2>1. \A i \in DOMAIN tree : tree[i] \in Mailbox
    BY DEF MailboxInv, MailboxTypeOK
  <2>2. /\ pc \in Stages /\ req \in Inputs /\ answer \in Answers
        /\ target \in Paths \cup {NoPath} /\ made \subseteq Paths /\ others \in 0..MaxOthers
    BY DEF MailboxInv, MailboxTypeOK
  <2>3. MessageTypeOK /\ writeLock \in BOOLEAN /\ writeLock = (pc \in {"revalidating", "mutating"})
    BY DEF LabelInv, ToolInv, MessageTypeOK
  <2> QED
    BY <2>1, <2>2, <2>3, ReportType DEF TypeOK, MessageTypeOK, Mailbox
<1> QED
  BY <1>1, Invariance, PTL

(***************************************************************************)
(* A creation is answered with created exactly when the server made the    *)
(* mailbox for this call.                                                  *)
(***************************************************************************)
THEOREM CreatedHereHolds == Spec => []CreatedHere
<1>1. Inv => CreatedHere
  BY DEF Inv, MailboxInv
<1> QED
  BY <1>1, Invariance, PTL

(***************************************************************************)
(* Whatever a call creates is a label, a folder, or a folder below one of  *)
(* the listing, with no reserved name.                                     *)
(***************************************************************************)
THEOREM ConfinedHolds == Spec => []Confined
<1>1. Inv => Confined
  BY MailboxSafety DEF Inv
<1> QED
  BY <1>1, Invariance, PTL

(***************************************************************************)
(* A tool that moves mail sends it where its name says, and mail_move and  *)
(* mail_restore_from_trash to no label and none of the blocked folders,    *)
(* unless a conventional name stands for a role the server does not        *)
(* report; whatever the mailboxes are called.                              *)
(***************************************************************************)
THEOREM TargetByRoleHolds == Spec => []TargetByRole
<1>1. Inv => TargetByRole
  BY DEF Inv, MailboxInv
<1> QED
  BY <1>1, Invariance, PTL

(***************************************************************************)
(* A custom mailbox with the name of one a call has created is newer than  *)
(* that call's listing.                                                    *)
(***************************************************************************)
THEOREM NamesakesAreNewerHolds == Spec => []NamesakesAreNewer
<1>1. Inv => NamesakesAreNewer
  BY MailboxSafety DEF Inv
<1> QED
  BY <1>1, Invariance, PTL

(***************************************************************************)
(* Only the uids named are touched, or, taking a label away, messages with *)
(* the Message-ID of one; a dry run and a delete touch none.               *)
(***************************************************************************)
THEOREM OnlyNamedHolds == Spec => []OnlyNamed
<1>1. Inv => OnlyNamed
  BY DEF Inv, LabelInv
<1> QED
  BY <1>1, Invariance, PTL

(***************************************************************************)
(* A uid reported as changed was there under the write lock and changed,   *)
(* and the label copy a removal found is gone for good.                    *)
(***************************************************************************)
THEOREM ChangedIsTrue == Spec => []ChangedHolds
<1>1. Inv => ChangedHolds
  BY DEF Inv, LabelInv
<1> QED
  BY <1>1, Invariance, PTL

(***************************************************************************)
(* An answer has every uid named either matched or missing, and every one  *)
(* matched as changed, skipped or an error, one of the three; a missing    *)
(* one is an error too only where all those chosen are.                    *)
(***************************************************************************)
THEOREM AccountedHolds == Spec => []Accounted
<1>1. Inv => Accounted
  BY DEF Inv, LabelInv
<1> QED
  BY <1>1, Invariance, PTL

(***************************************************************************)
(* A message skipped had what was asked for, and one changed lacked it, at *)
(* some time since the last look at it began, unless the server refused    *)
(* that look's search: then a removal may skip a labelled message, and a   *)
(* label be applied to one that has it.                                    *)
(***************************************************************************)
THEOREM ReportedAsSeenHolds == Spec => []ReportedAsSeen
<1>1. Inv => ReportedAsSeen
  <2> SUFFICES ASSUME Inv PROVE ReportedAsSeen
    OBVIOUS
  <2>1. /\ \A m \in skipped : Had(m, Asked) \/ (req.tool = "remove" /\ m \in deaf)
        /\ \A m \in changed : Had(m, ~Asked) \/ (req.tool = "apply" /\ m \in deaf)
    BY DEF Inv, LabelInv, ShownInv
  <2>2. CASE Asked
    <3>1. Asked = TRUE /\ (~Asked) = FALSE
      BY <2>2 DEF Asked
    <3> QED
      BY <2>1, <2>2, <3>1 DEF Had, ReportedAsSeen
  <2>3. CASE ~Asked
    <3>1. Asked = FALSE /\ (~Asked) = TRUE
      BY <2>3 DEF Asked
    <3> QED
      BY <2>1, <2>3, <3>1 DEF Had, ReportedAsSeen
  <2> QED
    BY <2>2, <2>3
<1> QED
  BY <1>1, Invariance, PTL
=============================================================================

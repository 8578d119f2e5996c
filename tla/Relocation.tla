----------------------------- MODULE Relocation -----------------------------
(***************************************************************************)
(* Moving messages to another mailbox over one IMAP connection: resolve    *)
(* the uids read-only, take the write lock, look again, move, and find out *)
(* where the messages are now (src/src/mutations: moveMessagesCore,        *)
(* classifyUncertainMove, reconcileResultingUid, and the same steps of     *)
(* trashMessages and restoreFromTrash).  Module Trash adds what mail_trash  *)
(* measures and signs, module Restore what mail_restore_from_trash repairs.*)
(*                                                                         *)
(* Every await is a step of its own: between two of them other clients of  *)
(* the same mailbox move and delete messages.  A message stands for its    *)
(* uid in the source folder, and for its uid in the destination once it is *)
(* there.  "returned" is a message put back into the source folder: a      *)
(* search finds it, its old uid does not.                                  *)
(***************************************************************************)
EXTENDS FiniteSets, Integers

CONSTANTS
  Msgs,             \* the messages
  Ids, NoId,        \* Message-ID header values; a message without one
  Tools,            \* the tools in use: "move" (also archive and spam), "trash", "restore"
  Headers,          \* the ways Message-IDs are given to messages
  Inputs,           \* the requests callers may make
  SecondLock,       \* whether a lock may be granted while the call holds another of the connection
  NoUid

ASSUME RelocationAssumption ==
  /\ IsFiniteSet(Msgs)
  /\ NoId \notin Ids /\ NoUid \notin Msgs
  /\ Tools \subseteq {"move", "trash", "restore"}
  /\ SecondLock \in BOOLEAN

VARIABLES
  messageId,        \* the Message-ID of each message: never changes
  place,            \* where each message is
  moved,            \* the messages the server has moved for this call
  pc, req,          \* the call: stage, arguments
  writeLock,        \* whether the call holds the write lock on the source folder
  todo,             \* what is left of the loop the call is in
  found,            \* messages the classification still saw in the source folder
  matched, missing, changed, failed, uncertain,   \* the result, by uid
  uidMap, located   \* the server's map of new uids, what is left to verify; the new uids reported

mailbox == <<messageId, place>>
report == <<matched, missing, changed, failed, uncertain>>
whereabouts == <<uidMap, located>>
relocationVars == <<messageId, place, moved, pc, req, writeLock, todo, found, matched,
                    missing, changed, failed, uncertain, uidMap, located>>
-----------------------------------------------------------------------------
Places == {"source", "returned", "dest", "away"}
Requests == [tool : Tools, uids : SUBSET Msgs \ {{}}, dryRun : BOOLEAN,
             consent : BOOLEAN, secret : BOOLEAN]
Stages == {"idle", "listing", "resolving", "labelling", "locking", "revalidating", "moving",
           "classifySource", "classifyDest", "remeasuring", "reconciling", "issuing",
           "comparing", "checkingFlags", "repairing", "storing", "relisting", "relabelling",
           "looking", "lookingAgain", "checking", "applying", "transitioning",
           "done", "thrown"}

ASSUME InputAssumption ==
  Inputs \subseteq Requests /\ Headers \subseteq [Msgs -> Ids \cup {NoId}]

InSource(id) == {m \in Msgs : place[m] \in {"source", "returned"} /\ messageId[m] = id}
InDest(id) == {m \in Msgs : place[m] = "dest" /\ messageId[m] = id}
Present(uids) == {m \in uids : place[m] = "source"}
Identified(uids) == {m \in uids : messageId[m] # NoId}
\* The labels among ls a search by Message-ID finds for m, when mk holds what each message carries.
LabelsOf(mk, m, ls) ==
  {l \in ls : messageId[m] # NoId /\ \E k \in Msgs : messageId[k] = messageId[m] /\ l \in mk[k]}
Namesakes(m) == {k \in Identified(matched) : messageId[k] = messageId[m]}

\* The locks of one connection exclude each other, so the call waits for itself if it
\* asks for one while it holds another: Waiting is never obliged to end.  (The connection
\* may close and reject the wait, see SearchFails; the double of the repository's tests
\* grants every lock: that a lock may be granted all the same is SecondLock.)
LockFree == ~writeLock \/ SecondLock
Waiting == pc \in {"classifySource", "classifyDest"} /\ todo # {} /\ writeLock
Running == pc \notin {"idle", "done", "thrown"}
Goto(stage) == pc' = stage

RelocationInit ==
  /\ messageId \in Headers
  /\ place \in [Msgs -> {"source", "dest", "away"}]
  /\ moved = {}
  /\ pc = "idle"
  /\ req \in Inputs
  /\ writeLock = FALSE
  /\ todo = {} /\ found = {}
  /\ matched = {} /\ missing = {} /\ changed = {} /\ failed = {} /\ uncertain = {}
  /\ uidMap = [m \in Msgs |-> NoUid]
  /\ located = [m \in Msgs |-> NoUid]

\* Where the tools differ: trash and restore ask for consent, measure labels and
\* flags, and classify a move that threw; restore catches what fails after the move.
Guarded == req.tool # "move"
AfterResolve == IF Guarded THEN "labelling" ELSE IF req.dryRun THEN "done" ELSE "locking"
AfterMove == IF req.tool = "trash" THEN "remeasuring" ELSE "reconciling"
AfterReconcile == CASE req.tool = "trash" -> "issuing"
                    [] req.tool = "restore" -> "comparing"
                    [] OTHER -> "done"
-----------------------------------------------------------------------------
(***************************************************************************)
(* Consent is checked before any IMAP access.                              *)
(***************************************************************************)
Start ==
  /\ pc = "idle"
  /\ Goto(IF Guarded /\ ~req.dryRun /\ ~req.consent THEN "thrown" ELSE "listing")
  /\ UNCHANGED <<mailbox, moved, req, writeLock, todo, found, report, whereabouts>>

List ==
  /\ pc = "listing"
  /\ Goto("resolving")
  /\ UNCHANGED <<mailbox, moved, req, writeLock, todo, found, report, whereabouts>>

\* A command fails, the connection is gone, or a folder is not allowed: the
\* exception leaves the handler, and every lock is released on the way.
Fails ==
  /\ \/ pc \in {"listing", "resolving", "labelling", "locking", "remeasuring", "issuing"}
     \/ pc = "revalidating" /\ Guarded
     \/ pc = "reconciling" /\ req.tool # "restore"
  /\ Goto("thrown")
  /\ writeLock' = FALSE
  /\ UNCHANGED <<mailbox, moved, req, todo, found, report, whereabouts>>

Resolve ==
  /\ pc = "resolving"
  /\ matched' = Present(req.uids)
  /\ missing' = req.uids \ matched'
  /\ Goto(IF matched' = {} THEN "done" ELSE AfterResolve)
  /\ UNCHANGED <<mailbox, moved, req, writeLock, todo, found, changed, failed, uncertain,
                 whereabouts>>

Lock ==
  /\ pc = "locking"
  /\ writeLock' = TRUE
  /\ Goto("revalidating")
  /\ UNCHANGED <<mailbox, moved, req, todo, found, report, whereabouts>>

\* Mutant: what the read lock showed is trusted.
RevalidateSkipped ==
  /\ pc = "revalidating"
  /\ Goto("moving")
  /\ UNCHANGED <<mailbox, moved, req, writeLock, todo, found, report, whereabouts>>

\* Under the write lock only the uids that still exist are kept.
Revalidate ==
  /\ pc = "revalidating"
  /\ matched' = Present(matched)
  /\ missing' = missing \cup (matched \ matched')
  /\ IF matched' = {} THEN Goto("done") /\ writeLock' = FALSE
                      ELSE Goto("moving") /\ UNCHANGED writeLock
  /\ UNCHANGED <<mailbox, moved, req, todo, found, changed, failed, uncertain, whereabouts>>

\* In moveMessagesCore the catch around the move also covers the revalidation.
RevalidateFails ==
  /\ pc = "revalidating" /\ req.tool = "move"
  /\ failed' = matched
  /\ writeLock' = FALSE
  /\ Goto("done")
  /\ UNCHANGED <<mailbox, moved, req, todo, found, matched, missing, changed, uncertain,
                 whereabouts>>
-----------------------------------------------------------------------------
(***************************************************************************)
(* messageMove.  The server moves the uids that exist; the answer is a map *)
(* of new uids (possibly partial or wrong: "Proton Bridge has produced     *)
(* inconsistent multi-message associations"), a refusal, or an exception,  *)
(* which says nothing of what the server did.                              *)
(***************************************************************************)
Relocate(uids) ==
  /\ place' = [m \in Msgs |-> IF m \in uids THEN "dest" ELSE place[m]]
  /\ moved' = moved \cup uids

MoveSucceeds(map) ==
  /\ pc = "moving"
  /\ Relocate(Present(matched))
  /\ changed' = matched
  /\ uidMap' = [m \in Msgs |-> IF m \in matched THEN map[m] ELSE NoUid]
  /\ writeLock' = FALSE
  /\ todo' = Identified(matched)
  /\ Goto(AfterMove)
  /\ UNCHANGED <<messageId, req, found, matched, missing, failed, uncertain, located>>

MoveRejected ==
  /\ pc = "moving"
  /\ failed' = matched
  /\ writeLock' = FALSE
  /\ Goto("done")
  /\ UNCHANGED <<mailbox, moved, req, todo, found, matched, missing, changed, uncertain,
                 whereabouts>>

\* Mutant: messages without a Message-ID are left out of the answer.
MoveThrowsForgets(uids) ==
  /\ pc = "moving" /\ Guarded
  /\ uids \subseteq Present(matched)
  /\ Relocate(uids)
  /\ todo' = Identified(matched)
  /\ Goto("classifySource")
  /\ UNCHANGED <<messageId, req, writeLock, found, report, whereabouts>>

\* The write lock is still held when the classification begins (trash.ts:258).
MoveThrows(uids) ==
  /\ pc = "moving" /\ Guarded
  /\ uids \subseteq Present(matched)
  /\ Relocate(uids)
  /\ uncertain' = matched \ Identified(matched)
  /\ todo' = Identified(matched)
  /\ Goto("classifySource")
  /\ UNCHANGED <<messageId, req, writeLock, found, matched, missing, changed, failed,
                 whereabouts>>

\* moveMessagesCore reports every uid as failed.
MoveThrowsPlain(uids) ==
  /\ pc = "moving" /\ req.tool = "move"
  /\ uids \subseteq Present(matched)
  /\ Relocate(uids)
  /\ failed' = matched
  /\ writeLock' = FALSE
  /\ Goto("done")
  /\ UNCHANGED <<messageId, req, todo, found, matched, missing, changed, uncertain,
                 whereabouts>>
-----------------------------------------------------------------------------
(***************************************************************************)
(* classifyUncertainMove: search the source folder for each Message-ID,    *)
(* then the destination for those the source no longer has.  A SEARCH the  *)
(* server refuses does not throw: the client's search() answers false,     *)
(* which the code reads as no hit, here and in every other search.         *)
(***************************************************************************)
\* Mutant: a move that threw is a clean failure.
SearchSourceCleanFailure(m, heard) ==
  /\ pc = "classifySource" /\ LockFree
  /\ m \in todo
  /\ todo' = todo \ {m}
  /\ found' = found \cup {m}
  /\ UNCHANGED <<mailbox, moved, pc, req, writeLock, report, whereabouts>>

\* The answer is kept by Message-ID: of two messages with the same one, the last search counts.
\* A search that is refused (not heard) says that the source does not have the message.
SearchSource(m, heard) ==
  /\ pc = "classifySource" /\ LockFree
  /\ m \in todo
  /\ todo' = todo \ {m}
  /\ found' = IF heard /\ InSource(messageId[m]) # {} THEN found \cup Namesakes(m)
                                                     ELSE found \ Namesakes(m)
  /\ UNCHANGED <<mailbox, moved, pc, req, writeLock, report, whereabouts>>

\* Mutant: one copy in the destination is enough.
SourceSearchedTrustsDest ==
  /\ pc = "classifySource" /\ todo = {}
  /\ todo' = Identified(matched)
  /\ Goto("classifyDest")
  /\ UNCHANGED <<mailbox, moved, req, writeLock, found, report, whereabouts>>

SourceSearched ==
  /\ pc = "classifySource" /\ todo = {}
  /\ failed' = found
  /\ todo' = Identified(matched) \ found
  /\ Goto("classifyDest")
  /\ UNCHANGED <<mailbox, moved, req, writeLock, found, matched, missing, changed, uncertain,
                 whereabouts>>

\* The destination must show exactly one; none, more, or a refused search prove nothing.
SearchDest(m, heard) ==
  /\ pc = "classifyDest" /\ LockFree
  /\ m \in todo
  /\ todo' = todo \ {m}
  /\ IF heard /\ Cardinality(InDest(messageId[m])) = 1
       THEN changed' = changed \cup {m} /\ UNCHANGED uncertain
       ELSE uncertain' = uncertain \cup {m} /\ UNCHANGED changed
  /\ UNCHANGED <<mailbox, moved, pc, req, writeLock, found, matched, missing, failed,
                 whereabouts>>

\* A search throws: every message this round was to classify becomes
\* uncertain, those already called moved included.
SearchFails ==
  /\ pc \in {"classifySource", "classifyDest"} /\ todo # {}
  /\ uncertain' = uncertain \cup (Identified(matched) \ failed)
  /\ todo' = {}
  /\ Goto("classifyDest")
  /\ UNCHANGED <<mailbox, moved, req, writeLock, found, matched, missing, changed, failed,
                 whereabouts>>

Classified ==
  /\ pc = "classifyDest" /\ todo = {}
  /\ writeLock' = FALSE
  /\ todo' = Identified(changed)
  /\ Goto(IF changed = {} THEN "done" ELSE AfterMove)
  /\ UNCHANGED <<mailbox, moved, req, found, report, whereabouts>>
-----------------------------------------------------------------------------
(***************************************************************************)
(* reconcileResultingUid: the server's map counts only when the message it *)
(* points to has the same Message-ID; otherwise a search must find exactly *)
(* one.                                                                    *)
(***************************************************************************)
\* Mutant: the server's map is trusted.
VerifyMappedTrusting(m) ==
  /\ pc = "reconciling"
  /\ m \in todo /\ uidMap[m] # NoUid
  /\ uidMap' = [uidMap EXCEPT ![m] = NoUid]
  /\ located' = [located EXCEPT ![m] = uidMap[m]] /\ todo' = todo \ {m}
  /\ UNCHANGED <<mailbox, moved, pc, req, writeLock, found, report>>

VerifyMapped(m) ==
  /\ pc = "reconciling"
  /\ m \in todo /\ uidMap[m] # NoUid
  /\ uidMap' = [uidMap EXCEPT ![m] = NoUid]
  /\ IF uidMap[m] \in InDest(messageId[m])
       THEN located' = [located EXCEPT ![m] = uidMap[m]] /\ todo' = todo \ {m}
       ELSE UNCHANGED <<located, todo>>
  /\ UNCHANGED <<mailbox, moved, pc, req, writeLock, found, report>>

\* Mutant: a message not found is looked up again, under its old uid first.
SearchByIdRetries(m, heard) ==
  /\ pc = "reconciling"
  /\ m \in todo /\ uidMap[m] = NoUid
  /\ IF heard /\ Cardinality(InDest(messageId[m])) = 1
       THEN /\ \E k \in InDest(messageId[m]) : located' = [located EXCEPT ![m] = k]
            /\ todo' = todo \ {m} /\ UNCHANGED uidMap
       ELSE /\ uidMap' = [uidMap EXCEPT ![m] = m]
            /\ UNCHANGED <<located, todo>>
  /\ UNCHANGED <<mailbox, moved, pc, req, writeLock, found, report>>

SearchById(m, heard) ==
  /\ pc = "reconciling"
  /\ m \in todo /\ uidMap[m] = NoUid
  /\ IF heard /\ Cardinality(InDest(messageId[m])) = 1
       THEN \E k \in InDest(messageId[m]) : located' = [located EXCEPT ![m] = k]
       ELSE UNCHANGED located
  /\ todo' = todo \ {m}
  /\ UNCHANGED <<mailbox, moved, pc, req, writeLock, found, report, uidMap>>

Reconciled ==
  /\ pc = "reconciling" /\ todo = {}
  /\ todo' = IF req.tool = "move" THEN {} ELSE changed
  /\ Goto(AfterReconcile)
  /\ UNCHANGED <<mailbox, moved, req, writeLock, found, report, whereabouts>>

\* Another client moves or deletes a message while the call runs.  (What is
\* back in the source folder, or away, stays there: moving it on tells nothing new.)
OtherClient(m, to) ==
  /\ Running
  /\ \/ place[m] = "source" /\ to \in {"dest", "away"}
     \/ place[m] = "dest" /\ to \in {"returned", "away"}
  /\ place' = [place EXCEPT ![m] = to]
  /\ UNCHANGED <<messageId, moved, pc, req, writeLock, todo, found, report, whereabouts>>
=============================================================================

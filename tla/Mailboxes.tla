----------------------------- MODULE Mailboxes -----------------------------
(***************************************************************************)
(* The tools that read the folder listing once and decide by it:           *)
(* mail_create_folder and mail_create_label, which then send one CREATE    *)
(* (src/src/mutations: folders.ts, create-label.ts), and the destination   *)
(* each tool that moves mail is allowed (move.ts, archive.ts, spam.ts,     *)
(* trash.ts, restore.ts); what happens to the messages after that is       *)
(* module Relocation.  Module Labels adds the tools that change messages   *)
(* in place.                                                               *)
(*                                                                         *)
(* Between the listing and the CREATE other clients create and delete      *)
(* custom mailboxes.  Proton refuses a second custom mailbox with the name *)
(* of one at the top level of Folders or Labels; whether it also refuses   *)
(* names used deeper is unknown (policy.ts:256), so it may or may not.     *)
(***************************************************************************)
EXTENDS MailboxPolicy, FiniteSets

CONSTANTS
  Msgs,             \* the messages a call can name, by their uids
  Inputs,           \* the requests callers may make
  Trees,            \* the listings the account may start with
  Customs,          \* the custom mailboxes other clients create and delete
  RoleOf,           \* what the account's system folders really are, by path
  MaxOthers,        \* how often other clients act during a call
  NoName

VARIABLES
  tree,             \* the mailboxes of the account, in the order the server lists them
  listed,           \* the listing the call has read
  pc, req,          \* the call: stage, arguments
  target,           \* the path the call creates or sends mail to
  answer,           \* what a creation answers
  made,             \* the paths the server has created for this call
  others            \* how often other clients have acted

mailboxVars == <<tree, listed, pc, req, target, answer, made, others>>
-----------------------------------------------------------------------------
Creating == {"folder", "label"}
Routing == {"move", "restore", "archive", "spam", "trash"}
InPlace == {"apply", "remove", "read", "unread", "delete"}
Requests == [tool : Creating \cup Routing \cup InPlace, name : Names \cup {NoName},
             parent : Names \cup {NoName}, source : Paths, dest : Paths, uids : SUBSET Msgs,
             dryRun : BOOLEAN, consent : BOOLEAN]
Stages == {"idle", "listing", "creating", "resolving", "looking", "lookingAgain", "locking",
           "revalidating", "mutating", "reconciling", "done", "thrown"}
Answers == {"none", "exists", "preview", "created", "notCreated"}

ASSUME MailboxAssumption ==
  /\ IsFiniteSet(Msgs) /\ NoName \notin Names
  /\ Inputs \subseteq Requests
  /\ Trees \subseteq Seq(Mailbox) /\ Customs \subseteq Paths
  /\ DOMAIN RoleOf \subseteq Paths /\ MaxOthers \in Nat
  /\ \A r \in Inputs : r.tool \in Creating => r.name \in Names

\* System folders are outside Folders and Labels, and a SPECIAL-USE is true.  Nothing is
\* assumed of names: a custom mailbox may be named like a system folder.
ASSUME RoleAssumption ==
  /\ \A path \in DOMAIN RoleOf : path.space = "root"
  /\ \A listing \in Trees : \A i \in DOMAIN listing : listing[i].use # "none" =>
       listing[i].path \in DOMAIN RoleOf /\ RoleOf[listing[i].path] = listing[i].use

Running == pc \notin {"idle", "done", "thrown"}
Goto(stage) == pc' = stage

MailboxInit ==
  /\ tree \in Trees
  /\ listed = <<>>
  /\ pc = "idle"
  /\ req \in Inputs
  /\ target = NoPath /\ answer = "none" /\ made = {} /\ others = 0
-----------------------------------------------------------------------------
(***************************************************************************)
(* What is checked before any IMAP access: names, and consent.             *)
(***************************************************************************)
NeedsConsent == {"spam", "trash", "restore", "delete"}

Malformed(r) ==
  \/ r.tool \in Creating /\ ~ValidName(r.name)
  \/ r.tool = "folder" /\ r.parent # NoName /\ ~ValidName(r.parent)
  \/ r.tool \in NeedsConsent /\ ~r.dryRun /\ ~r.consent

Start ==
  /\ pc = "idle"
  /\ Goto(IF Malformed(req) THEN "thrown" ELSE "listing")
  /\ UNCHANGED <<tree, listed, req, target, answer, made, others>>

\* The path a creation is for.
CreatedPath(r) ==
  CASE r.tool = "label" -> Label(r.name)
    [] r.tool = "folder" /\ r.parent = NoName -> Folder(<<r.name>>)
    [] OTHER -> Folder(<<r.parent, r.name>>)

\* Mutant: any name may be the parent.
ParentUnchecked(listing, r) == r.parent = NoName \/ CreateParentAllowed(listing, r.parent)

\* A parent is no system folder, and a listed custom folder.
ParentStands(listing, r) ==
  r.parent # NoName =>
    /\ CreateParentAllowed(listing, r.parent)
    /\ Listed(listing, Folder(<<r.parent>>))

\* Mutant: only the exact path is a conflict.
TakenHere(listing, r) == Listed(listing, CreatedPath(r))

Taken(listing, r) ==
  Listed(listing, CreatedPath(r)) \/ NameConflict(listing, r.name) # NoPath

\* The listing arrives; everything up to the next command is decided by it.
ListToCreate ==
  /\ pc = "listing" /\ req.tool \in Creating
  /\ listed' = tree
  /\ target' = CreatedPath(req)
  /\ IF ~ParentStands(tree, req) THEN Goto("thrown") /\ UNCHANGED answer
     ELSE IF Taken(tree, req) THEN Goto("done") /\ answer' = "exists"
     ELSE IF req.dryRun THEN Goto("done") /\ answer' = "preview"
     ELSE Goto("creating") /\ UNCHANGED answer
  /\ UNCHANGED <<tree, req, made, others>>

\* Where a tool that moves mail may send it; NoPath if it refuses.
RouteOf(listing, r) ==
  CASE r.tool \in {"move", "restore"} ->
         IF MoveAllowed(listing, MoveDestination(listing, r.dest))
           THEN MoveDestination(listing, r.dest) ELSE NoPath
    [] r.tool = "archive" -> Special(listing, "archive")
    [] r.tool = "spam" -> Special(listing, "spam")
    [] OTHER -> Special(listing, "trash")

SourceStands(listing, r) ==
  CASE r.tool = "restore" -> Special(listing, "trash") # NoPath
    [] r.tool = "trash" -> /\ r.source # RouteOf(listing, r)
                           /\ TrashSourceAllowed(r.source) /\ Selectable(listing, r.source)
    [] OTHER -> r.source # RouteOf(listing, r) /\ Selectable(listing, r.source)

\* Only mail_trash does not look whether its destination is selectable.
ListToRoute ==
  /\ pc = "listing" /\ req.tool \in Routing
  /\ listed' = tree
  /\ LET path == RouteOf(tree, req) IN
       IF /\ path # NoPath /\ SourceStands(tree, req)
          /\ req.tool # "trash" => Selectable(tree, path)
         THEN target' = path /\ Goto("done")
         ELSE UNCHANGED target /\ Goto("thrown")
  /\ UNCHANGED <<tree, req, answer, made, others>>
-----------------------------------------------------------------------------
(***************************************************************************)
(* CREATE.  The server creates the mailbox, says that it exists already,   *)
(* or refuses; an exception says nothing of what the server did.           *)
(***************************************************************************)
TopLevelName(path) == IF path.space # "root" /\ Len(path.names) = 1 THEN path.names[1] ELSE NoName
Creatable(path) ==
  /\ ~Listed(tree, path)
  /\ \A i \in DOMAIN tree : TopLevelName(tree[i].path) # LeafName(path)

AddMailbox(path) == tree' = Append(tree, [path |-> path, use |-> "none", selectable |-> TRUE])

\* Mutant: an answer of any kind is taken for a creation.
CreateBelieved ==
  /\ pc = "creating"
  /\ \/ Creatable(target) /\ AddMailbox(target) /\ made' = {target}
     \/ Listed(tree, target) /\ UNCHANGED <<tree, made>>
  /\ answer' = "created"
  /\ Goto("done")
  /\ UNCHANGED <<listed, req, target, others>>

CreateAnswered ==
  /\ pc = "creating"
  /\ \/ Creatable(target) /\ AddMailbox(target) /\ made' = {target} /\ answer' = "created"
     \/ Listed(tree, target) /\ answer' = "notCreated" /\ UNCHANGED <<tree, made>>
  /\ Goto("done")
  /\ UNCHANGED <<listed, req, target, others>>

CreateThrows ==
  /\ pc = "creating"
  /\ \/ Creatable(target) /\ AddMailbox(target) /\ made' = {target}
     \/ UNCHANGED <<tree, made>>
  /\ Goto("thrown")
  /\ UNCHANGED <<listed, req, target, answer, others>>

ListFails ==
  /\ pc = "listing"
  /\ Goto("thrown")
  /\ UNCHANGED <<tree, listed, req, target, answer, made, others>>

\* Other clients create and delete custom mailboxes.
Act == Running /\ others < MaxOthers /\ others' = others + 1

\* (What others create matters to a creation only; a label deleted during a
\* call that changes messages is not created again in that call.)
OtherCreates(path) ==
  /\ Act /\ req.tool \in Creating /\ Creatable(path)
  /\ AddMailbox(path)
  /\ UNCHANGED <<listed, pc, req, target, answer, made>>

OtherDeletes(path) ==
  /\ Act
  /\ \E i \in DOMAIN tree :
       /\ tree[i].path = path
       /\ tree' = SubSeq(tree, 1, i - 1) \o SubSeq(tree, i + 1, Len(tree))
  /\ UNCHANGED <<listed, pc, req, target, answer, made>>
-----------------------------------------------------------------------------
(***************************************************************************)
(* A creation is answered with created exactly when the server made the    *)
(* mailbox for this call: not when another client was faster, and never    *)
(* is "already exists" or a preview answered after a CREATE                *)
(* (folders.ts:137-182).                                                   *)
(***************************************************************************)
CreatedHere ==
  pc = "done" /\ req.tool \in Creating => (answer = "created" <=> made = {target})

(***************************************************************************)
(* Whatever a call creates is Labels/<name>, Folders/<name>, or            *)
(* Folders/<parent>/<name> below a folder the listing had, with no name of *)
(* a system folder or a namespace (SECURITY.md:124-128).                   *)
(***************************************************************************)
Confined ==
  \A p \in made :
    /\ p.space # "root" /\ \A i \in DOMAIN p.names : ValidName(p.names[i])
    /\ \/ Len(p.names) = 1
       \/ p.space = "Folders" /\ Len(p.names) = 2 /\ Listed(listed, Folder(<<p.names[1]>>))

(***************************************************************************)
(* Archive, Spam and Trash are the true ones wherever the server reports   *)
(* the role; where it does not, a mailbox of a conventional name, which    *)
(* may be a custom folder or a label (policy.ts:59-63).  mail_move and     *)
(* mail_restore_from_trash never target a container, and target a label,   *)
(* or what truly is Trash, Spam, Sent, Drafts or All Mail, only if it has  *)
(* the conventional name of another role the server does not report        *)
(* (README.md:505).                                                        *)
(***************************************************************************)
Advertised(listing, role) == \E i \in DOMAIN listing : listing[i].use = role
ByNameOnly(listing, path, role) == ~Advertised(listing, role) /\ NamedFor(path, role)
TrulyFor(path, role) == path \in DOMAIN RoleOf /\ RoleOf[path] = role

TargetByRole ==
  pc = "done" /\ req.tool \in Routing =>
    /\ ~IsContainer(target)
    /\ IF req.tool \in {"move", "restore"}
         THEN target.space = "Labels" \/ (\E role \in MoveBlocked : TrulyFor(target, role)) =>
                \E role \in Roles \ MoveBlocked : ByNameOnly(listed, target, role)
         ELSE TrulyFor(target, req.tool) \/ ByNameOnly(listed, target, req.tool)

(***************************************************************************)
(* Folders and labels share one name: a custom mailbox with the name of    *)
(* one a call has created came after that call's listing, however deeply   *)
(* it is nested and whatever the server lets pass (policy.ts:238-264).     *)
(***************************************************************************)
NamesakesAreNewer ==
  \A p \in made, i \in DOMAIN listed :
    listed[i].path.space # "root" /\ listed[i].path.names # <<>> =>
      LeafName(listed[i].path) # LeafName(p)
=============================================================================

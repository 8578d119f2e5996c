-------------------------- MODULE MailboxesProofs --------------------------
(***************************************************************************)
(* What every step of Mailboxes preserves, for any listings, requests and  *)
(* custom mailboxes, and what the operators of MailboxPolicy return.       *)
(* LabelsProofs builds on it.                                              *)
(***************************************************************************)
EXTENDS Mailboxes, WellFoundedInduction, TLAPS

-----------------------------------------------------------------------------
(* The operators.                                                           *)

\* The CHOOSE of a first index, or of a smallest uid, has something to choose.
LEMMA Least ==
  ASSUME NEW S, S \subseteq Nat, S # {}
  PROVE  \E x \in S : \A y \in S : x <= y
<1> DEFINE R == {p \in Nat \X Nat : p[1] < p[2]}
<1>1. R = OpToRel(<, Nat)
  BY Zenon DEF OpToRel
<1>2. IsWellFoundedOn(R, Nat)
  BY <1>1, NatLessThanWellFounded, Zenon
<1>3. \A x, y \in Nat : <<y, x>> \in R <=> y < x
  OBVIOUS
<1> HIDE DEF R
<1>4. PICK x \in S : \A y \in S : ~(<<y, x>> \in R)
  BY <1>2, WFMin
<1>5. ASSUME NEW y \in S PROVE x <= y
  <2>1. x \in Nat /\ y \in Nat /\ ~(y < x)
    BY <1>3, <1>4
  <2> QED
    BY <2>1
<1> QED
  BY <1>5

LEMMA FirstPathFound ==
  ASSUME NEW listing \in Seq(Mailbox), NEW found, found \subseteq DOMAIN listing, found # {}
  PROVE  \E i \in found : FirstPath(listing, found) = listing[i].path
<1>1. found \subseteq Nat
  OBVIOUS
<1>2. \E i \in found : \A j \in found : i <= j
  BY <1>1, Least
<1> QED
  BY <1>2 DEF FirstPath

\* A special folder is listed: with its SPECIAL-USE, or by its name if none has it.
LEMMA SpecialFound ==
  ASSUME NEW listing \in Seq(Mailbox), NEW role, Special(listing, role) # NoPath
  PROVE  \E i \in DOMAIN listing :
           /\ listing[i].path = Special(listing, role)
           /\ \/ listing[i].use = role
              \/ /\ \A j \in DOMAIN listing : listing[j].use # role
                 /\ NamedFor(listing[i].path, role)
<1> DEFINE used == {i \in DOMAIN listing : listing[i].use = role}
           named == {i \in DOMAIN listing : NamedFor(listing[i].path, role)}
<1>1. CASE used # {}
  <2>1. Special(listing, role) = FirstPath(listing, used)
    BY <1>1 DEF Special
  <2> QED
    BY <1>1, <2>1, FirstPathFound
<1>2. CASE used = {}
  <2>1. Special(listing, role) = FirstPath(listing, named)
    BY <1>2 DEF Special
  <2>2. named # {}
    BY <2>1 DEF FirstPath
  <2>3. \E i \in named : FirstPath(listing, named) = listing[i].path
    BY <2>2, FirstPathFound
  <2> QED
    BY <1>2, <2>1, <2>3
<1> QED
  BY <1>1, <1>2

LEMMA SpecialType ==
  ASSUME NEW listing \in Seq(Mailbox), NEW role
  PROVE  Special(listing, role) \in Paths \cup {NoPath}
<1>1. \A i \in DOMAIN listing : listing[i] \in Mailbox
  OBVIOUS
<1>2. \A i \in DOMAIN listing : listing[i].path \in Paths
  BY <1>1 DEF Mailbox
<1> QED
  BY <1>2, SpecialFound

\* In the listings an account starts with, a special folder is what it is taken for, or
\* has only the name of it; no container has such a name.
LEMMA SpecialIsTrue ==
  ASSUME NEW listing \in Trees, NEW role \in Roles, Special(listing, role) # NoPath
  PROVE  LET path == Special(listing, role) IN
         /\ path \in Paths /\ ~IsContainer(path)
         /\ \/ TrulyFor(path, role) /\ path.space = "root"
            \/ ByNameOnly(listing, path, role)
<1> DEFINE path == Special(listing, role)
<1>1. listing \in Seq(Mailbox)
  BY MailboxAssumption
<1>2. path \in Paths
  BY <1>1, SpecialType
<1>3. PICK i \in DOMAIN listing :
        /\ listing[i].path = path
        /\ \/ listing[i].use = role
           \/ (\A j \in DOMAIN listing : listing[j].use # role) /\ NamedFor(path, role)
  BY <1>1, SpecialFound
<1>4. CASE listing[i].use = role
  <2>1. TrulyFor(path, role) /\ path.space = "root"
    BY <1>3, <1>4, RoleAssumption DEF TrulyFor, Roles
  <2> QED
    BY <1>2, <2>1 DEF IsContainer
<1>5. CASE listing[i].use # role
  <2>1. ByNameOnly(listing, path, role)
    BY <1>3, <1>5 DEF ByNameOnly, Advertised
  <2>2. LeafName(path) \notin {"Folders", "Labels"}
    BY <1>3, <1>5 DEF NamedFor, NameFallback
  <2>3. ~IsContainer(path)
    BY <1>2, <2>2 DEF IsContainer, LeafName, Paths
  <2> QED
    BY <1>2, <2>1, <2>3
<1> QED
  BY <1>4, <1>5

\* A name that is not taken is not in the listing below Folders or Labels.
LEMMA NotTaken ==
  ASSUME NEW listing \in Seq(Mailbox), NEW name, NameConflict(listing, name) = NoPath,
         NEW i \in DOMAIN listing, listing[i].path.space # "root", listing[i].path.names # <<>>
  PROVE  LeafName(listing[i].path) # name
<1> DEFINE found == {j \in DOMAIN listing : /\ listing[j].path.space # "root"
                                            /\ listing[j].path.names # <<>>
                                            /\ LeafName(listing[j].path) = name}
<1>1. NameConflict(listing, name) = FirstPath(listing, found)
  BY DEF NameConflict
<1>2. \A j \in DOMAIN listing : listing[j] \in Mailbox
  OBVIOUS
<1>3. \A j \in DOMAIN listing : listing[j].path \in Paths
  BY <1>2 DEF Mailbox
<1>4. found = {}
  <2>1. found # {} => \E j \in found : FirstPath(listing, found) = listing[j].path
    BY FirstPathFound
  <2> QED
    BY <1>1, <1>3, <2>1, PolicyAssumption
<1> QED
  BY <1>4

LEMMA CreatedPathType ==
  ASSUME NEW r \in Inputs, r.tool \in Creating
  PROVE  /\ CreatedPath(r) \in Paths /\ LeafName(CreatedPath(r)) = r.name
         /\ CreatedPath(r).space = IF r.tool = "label" THEN "Labels" ELSE "Folders"
         /\ CreatedPath(r).names = IF r.tool = "label" \/ r.parent = NoName THEN <<r.name>>
                                   ELSE <<r.parent, r.name>>
<1>1. r.name \in Names /\ r.parent \in Names \cup {NoName}
  BY MailboxAssumption DEF Requests
<1>2. <<r.name>> \in Seq(Names) /\ (r.parent # NoName => <<r.parent, r.name>> \in Seq(Names))
  BY <1>1
<1>3. Len(<<r.name>>) = 1 /\ <<r.name>>[1] = r.name /\ <<r.name>> # <<>>
  OBVIOUS
<1>4. CASE r.tool = "label"
  <2>1. CreatedPath(r) = [space |-> "Labels", names |-> <<r.name>>]
    BY <1>4 DEF CreatedPath, Label
  <2> QED
    BY <1>2, <1>3, <1>4, <2>1 DEF Paths, LeafName
<1>5. CASE r.tool # "label" /\ r.parent = NoName
  <2>1. CreatedPath(r) = [space |-> "Folders", names |-> <<r.name>>]
    BY <1>5 DEF CreatedPath, Folder, Creating
  <2> QED
    BY <1>2, <1>3, <1>5, <2>1 DEF Paths, LeafName
<1>6. CASE r.tool # "label" /\ r.parent # NoName
  <2>1. CreatedPath(r) = [space |-> "Folders", names |-> <<r.parent, r.name>>]
    BY <1>6 DEF CreatedPath, Folder
  <2>2. Len(<<r.parent, r.name>>) = 2 /\ <<r.parent, r.name>>[2] = r.name
    OBVIOUS
  <2> QED
    BY <1>2, <1>6, <2>1, <2>2 DEF Paths, LeafName
<1> QED
  BY <1>4, <1>5, <1>6

LEMMA MoveDestinationType ==
  ASSUME NEW listing, NEW path \in Paths
  PROVE  MoveDestination(listing, path) \in Paths \cup {NoPath}
BY DEF MoveDestination, CustomFolder, Folder, Paths
-----------------------------------------------------------------------------
(* The invariant, in parts. *)

MailboxTypeOK ==
  /\ tree \in Seq(Mailbox) /\ listed \in Seq(Mailbox)
  /\ pc \in Stages /\ req \in Inputs /\ answer \in Answers
  /\ target \in Paths \cup {NoPath} /\ made \subseteq Paths /\ others \in 0..MaxOthers

\* Nothing is made or answered before the listing; a request that is malformed stops
\* there; and what routing reads is a listing the account started with.
ListingInv ==
  /\ pc \in {"idle", "listing"} => made = {} /\ answer = "none"
  /\ pc \in {"idle", "listing"} /\ req.tool \in Routing => tree \in Trees
  /\ pc \notin {"idle", "thrown"} => ~Malformed(req)

\* What was decided by the listing before CREATE was sent.
Decided ==
  /\ req.tool \in Creating /\ ~Malformed(req) /\ target = CreatedPath(req)
  /\ ParentStands(listed, req) /\ ~Taken(listed, req)

CreationInv ==
  /\ pc = "creating" => Decided /\ made = {} /\ answer = "none"
  /\ made # {} => Decided /\ made = {target}

MailboxInv ==
  /\ MailboxTypeOK /\ ListingInv /\ CreationInv
  /\ CreatedHere /\ TargetByRole

LEMMA MailboxInitially == MailboxInit => MailboxInv
<1> SUFFICES ASSUME MailboxInit PROVE MailboxInv
  OBVIOUS
<1>1. tree \in Seq(Mailbox) /\ <<>> \in Seq(Mailbox) /\ req \in Inputs
  BY MailboxAssumption DEF MailboxInit
<1> QED
  BY <1>1, MailboxAssumption
     DEF MailboxInit, MailboxInv, MailboxTypeOK, ListingInv, CreationInv, CreatedHere,
         TargetByRole, Stages, Answers
-----------------------------------------------------------------------------
(* One lemma per action. *)

LEMMA StartKeeps == ASSUME MailboxInv, Start PROVE MailboxInv'
BY DEF Start, Goto, MailboxInv, MailboxTypeOK, ListingInv, CreationInv, Decided, CreatedHere,
       TargetByRole, Stages

\* The call throws; what it has made stays.
LEMMA ThrownKeeps ==
  ASSUME MailboxInv, pc' = "thrown", UNCHANGED <<tree, req, target, answer, made, others>>,
         UNCHANGED listed \/ (pc = "listing" /\ listed' = tree)
  PROVE  MailboxInv'
BY DEF MailboxInv, MailboxTypeOK, ListingInv, CreationInv, Decided, CreatedHere, TargetByRole,
       Stages

LEMMA ListToCreateKeeps == ASSUME MailboxInv, ListToCreate PROVE MailboxInv'
<1> USE DEF MailboxInv
<1>1. /\ pc = "listing" /\ req.tool \in Creating /\ listed' = tree /\ target' = CreatedPath(req)
      /\ made = {} /\ answer = "none"
      /\ UNCHANGED <<tree, req, made, others>>
  BY DEF ListToCreate, ListingInv
<1>2. CreatedPath(req) \in Paths
  BY <1>1, CreatedPathType DEF MailboxTypeOK
<1>3. CASE pc' = "thrown" /\ answer' = answer
  BY <1>1, <1>2, <1>3
     DEF MailboxTypeOK, ListingInv, CreationInv, CreatedHere, TargetByRole, Stages
<1>4. CASE pc' = "done" /\ answer' \in {"exists", "preview"}
  BY <1>1, <1>2, <1>4
     DEF MailboxTypeOK, ListingInv, CreationInv, CreatedHere, TargetByRole, Stages, Answers,
         Creating, Routing
<1>5. CASE pc' = "creating" /\ answer' = answer /\ ParentStands(tree, req) /\ ~Taken(tree, req)
  <2>1. Decided'
    BY <1>1, <1>5 DEF Decided, ListingInv
  <2> QED
    BY <1>1, <1>2, <1>5, <2>1
       DEF MailboxTypeOK, ListingInv, CreationInv, CreatedHere, TargetByRole, Stages
<1> QED
  BY <1>3, <1>4, <1>5 DEF ListToCreate, Goto

\* The destination of a tool that moves mail is what it is taken for, or is so by name only.
LEMMA RouteIsTrue ==
  ASSUME NEW listing \in Trees, NEW r \in Inputs, r.tool \in Routing, RouteOf(listing, r) # NoPath
  PROVE  LET path == RouteOf(listing, r) IN
         /\ path \in Paths /\ ~IsContainer(path)
         /\ IF r.tool \in {"move", "restore"}
              THEN path.space = "Labels" \/ (\E role \in MoveBlocked : TrulyFor(path, role)) =>
                     \E role \in Roles \ MoveBlocked : ByNameOnly(listing, path, role)
              ELSE TrulyFor(path, r.tool) \/ ByNameOnly(listing, path, r.tool)
<1> DEFINE path == RouteOf(listing, r)
<1>1. listing \in Seq(Mailbox) /\ r.dest \in Paths
  BY MailboxAssumption DEF Requests
<1>2. CASE r.tool \in {"move", "restore"}
  <2>1. path = MoveDestination(listing, r.dest) /\ MoveAllowed(listing, path)
    BY <1>2 DEF RouteOf
  <2>2. path \in Paths /\ ~IsContainer(path)
    BY <1>1, <2>1, MoveDestinationType DEF MoveAllowed
  <2>3. CASE \E role \in Roles : path = Special(listing, role)
    <3>1. PICK role \in Roles : path = Special(listing, role)
      BY <2>3
    <3>2. \/ TrulyFor(path, role) /\ path.space = "root"
          \/ ByNameOnly(listing, path, role)
      BY <3>1, SpecialIsTrue
    <3>3. role \notin MoveBlocked
      BY <2>1, <3>1 DEF MoveAllowed
    <3>4. CASE TrulyFor(path, role) /\ path.space = "root"
      <4>1. \A other \in MoveBlocked : ~TrulyFor(path, other)
        BY <3>3, <3>4 DEF TrulyFor
      <4> QED
        BY <1>2, <2>2, <3>4, <4>1
    <3> QED
      BY <1>2, <2>2, <3>2, <3>3, <3>4
  <2>4. CASE ~ \E role \in Roles : path = Special(listing, role)
    <3>1. path = CustomFolder(r.dest)
      BY <2>1, <2>4 DEF MoveDestination
    <3>2. path.space = "Folders"
      BY <3>1 DEF CustomFolder, Folder
    <3>3. \A role \in MoveBlocked : ~TrulyFor(path, role)
      BY <3>2, RoleAssumption DEF TrulyFor
    <3> QED
      BY <1>2, <2>2, <3>2, <3>3
  <2> QED
    BY <2>3, <2>4
<1>3. CASE r.tool \in {"archive", "spam", "trash"}
  <2>1. path = Special(listing, r.tool) /\ r.tool \in Roles
    BY <1>3 DEF RouteOf, Roles
  <2> QED
    BY <1>3, <2>1, SpecialIsTrue
<1> QED
  BY <1>2, <1>3 DEF Routing

LEMMA ListToRouteKeeps == ASSUME MailboxInv, ListToRoute PROVE MailboxInv'
<1> USE DEF MailboxInv
<1>1. /\ pc = "listing" /\ req.tool \in Routing /\ req.tool \notin Creating /\ listed' = tree
      /\ made = {} /\ tree \in Trees /\ req \in Inputs
      /\ UNCHANGED <<tree, req, answer, made, others>>
  BY DEF ListToRoute, ListingInv, MailboxTypeOK, Routing, Creating
<1>2. CASE pc' = "thrown" /\ target' = target
  BY <1>1, <1>2, ThrownKeeps
<1>3. CASE pc' = "done" /\ target' = RouteOf(tree, req) /\ RouteOf(tree, req) # NoPath
  <2>1. TargetByRole' /\ target' \in Paths
    BY <1>1, <1>3, RouteIsTrue DEF TargetByRole
  <2> QED
    BY <1>1, <1>3, <2>1
       DEF MailboxTypeOK, ListingInv, CreationInv, CreatedHere, Stages
<1> QED
  BY <1>2, <1>3 DEF ListToRoute, Goto

LEMMA AddedMailbox ==
  ASSUME MailboxInv, NEW path \in Paths, AddMailbox(path)
  PROVE  tree' \in Seq(Mailbox)
<1>1. [path |-> path, use |-> "none", selectable |-> TRUE] \in Mailbox
  BY DEF Mailbox
<1> QED
  BY <1>1 DEF AddMailbox, MailboxInv, MailboxTypeOK

\* CREATE is answered, or the call does not learn what became of it.
LEMMA CreateKeeps == ASSUME MailboxInv, CreateAnswered \/ CreateThrows PROVE MailboxInv'
<1> USE DEF MailboxInv
<1>1. /\ pc = "creating" /\ Decided /\ made = {} /\ answer = "none" /\ target \in Paths
      /\ UNCHANGED <<listed, req, target, others>>
  BY CreatedPathType
     DEF CreateAnswered, CreateThrows, CreationInv, Decided, MailboxTypeOK
<1>2. /\ tree' \in Seq(Mailbox) /\ made' \in {{}, {target}} /\ answer' \in Answers
      /\ pc' \in {"done", "thrown"}
      /\ pc' = "done" => (answer' = "created" <=> made' = {target})
  BY <1>1, AddedMailbox DEF CreateAnswered, CreateThrows, MailboxTypeOK, Answers, Goto
<1>3. Decided'
  BY <1>1 DEF Decided
<1>4. CreatedHere' /\ TargetByRole'
  BY <1>1, <1>2 DEF CreatedHere, TargetByRole, Decided, Creating, Routing
<1> QED
  BY <1>1, <1>2, <1>3, <1>4 DEF MailboxTypeOK, ListingInv, CreationInv, Stages, Decided

\* Other clients change the mailboxes, but never those a tool that moves mail is to read.
LEMMA OtherKeeps ==
  ASSUME MailboxInv, NEW path,
         \/ path \in Paths /\ OtherCreates(path)
         \/ req.tool \notin Routing /\ OtherDeletes(path)
  PROVE  MailboxInv'
<1> USE DEF MailboxInv
<1>1. /\ req.tool \notin Routing /\ others' = others + 1 /\ others < MaxOthers
      /\ UNCHANGED <<listed, pc, req, target, answer, made>>
  BY DEF OtherCreates, OtherDeletes, Act, Creating, Routing
<1>2. tree' \in Seq(Mailbox)
  <2>1. CASE path \in Paths /\ OtherCreates(path)
    BY <2>1, AddedMailbox DEF OtherCreates
  <2>2. CASE OtherDeletes(path)
    <3>1. PICK i \in DOMAIN tree :
            tree' = SubSeq(tree, 1, i - 1) \o SubSeq(tree, i + 1, Len(tree))
      BY <2>2 DEF OtherDeletes
    <3>2. tree \in Seq(Mailbox) /\ i \in 1..Len(tree)
      BY DEF MailboxTypeOK
    <3> QED
      BY <3>1, <3>2
  <2> QED
    BY <2>1, <2>2
<1>3. others' \in 0..MaxOthers
  BY <1>1, MailboxAssumption DEF MailboxTypeOK
<1> QED
  BY <1>1, <1>2, <1>3
     DEF MailboxTypeOK, ListingInv, CreationInv, Decided, CreatedHere, TargetByRole

LEMMA MailboxStutter == ASSUME MailboxInv, UNCHANGED mailboxVars PROVE MailboxInv'
BY DEF mailboxVars, MailboxInv, MailboxTypeOK, ListingInv, CreationInv, Decided, CreatedHere,
       TargetByRole

\* A step of a tool that changes messages in place, within its stages.
LEMMA InPlaceKeeps ==
  ASSUME MailboxInv, req.tool \in InPlace, pc \notin {"idle", "thrown"},
         pc' \in Stages \ {"idle", "listing", "creating"},
         UNCHANGED <<tree, req, target, answer, made, others>>,
         UNCHANGED listed \/ (listed' = tree /\ made = {})
  PROVE  MailboxInv'
BY DEF MailboxInv, MailboxTypeOK, ListingInv, CreationInv, Decided, CreatedHere, TargetByRole,
       InPlace, Creating, Routing
-----------------------------------------------------------------------------
(* What the invariant says of creations. *)

LEMMA MailboxSafety == ASSUME MailboxInv PROVE Confined /\ NamesakesAreNewer
<1> SUFFICES ASSUME NEW p \in made PROVE Confined /\ NamesakesAreNewer
  BY DEF Confined, NamesakesAreNewer
<1>1. Decided /\ p = CreatedPath(req) /\ req \in Inputs /\ listed \in Seq(Mailbox)
  BY DEF MailboxInv, CreationInv, Decided, MailboxTypeOK
<1>2. \A q \in made : q = p
  BY DEF MailboxInv, CreationInv
<1>3. /\ LeafName(p) = req.name /\ p.space \in {"Labels", "Folders"}
      /\ p.space = (IF req.tool = "label" THEN "Labels" ELSE "Folders")
      /\ p.names = IF req.tool = "label" \/ req.parent = NoName THEN <<req.name>>
                   ELSE <<req.parent, req.name>>
  BY <1>1, CreatedPathType DEF Decided
<1>4. Confined
  <2>1. ValidName(req.name) /\ req.tool \in Creating
    BY <1>1 DEF Decided, Malformed
  <2>2. CASE p.names = <<req.name>>
    BY <1>2, <1>3, <2>1, <2>2 DEF Confined
  <2>3. CASE req.tool = "folder" /\ req.parent # NoName
    <3>1. ValidName(req.parent) /\ Listed(listed, Folder(<<req.parent>>))
      BY <1>1, <2>3 DEF Decided, Malformed, ParentStands
    <3>2. p.names = <<req.parent, req.name>> /\ p.space = "Folders"
      BY <1>3, <2>3
    <3>3. /\ Len(p.names) = 2 /\ p.names[1] = req.parent
          /\ \A i \in DOMAIN p.names : p.names[i] \in {req.parent, req.name}
      BY <3>2
    <3> QED
      BY <1>2, <2>1, <3>1, <3>2, <3>3 DEF Confined
  <2> QED
    BY <1>3, <2>1, <2>2, <2>3 DEF Creating
<1>5. NamesakesAreNewer
  <2>1. NameConflict(listed, req.name) = NoPath
    BY <1>1 DEF Decided, Taken
  <2> QED
    BY <1>1, <1>2, <1>3, <2>1, NotTaken DEF NamesakesAreNewer
<1> QED
  BY <1>4, <1>5
=============================================================================

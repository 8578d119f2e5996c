--------------------------- MODULE MailboxPolicy ---------------------------
(***************************************************************************)
(* What a folder listing says about where mail may go                      *)
(* (src/src/mutations/policy.ts, and the name rules of folders.ts).        *)
(*                                                                         *)
(* A path is a namespace ("Folders", "Labels", or "root" for a mailbox     *)
(* outside both) and the names below it; the bare container has none.      *)
(* Names are trimmed, and those the code compares in lower case are        *)
(* written so.  A listing is the sequence the server sends: of several     *)
(* candidates the first one counts.                                        *)
(***************************************************************************)
EXTENDS Sequences, Naturals

CONSTANTS
  Names,            \* segments of paths
  BadNames,         \* those no mailbox may be created with: empty, padded, a delimiter, dots
  NoPath

Paths == [space : {"root", "Folders", "Labels"}, names : Seq(Names)]
Roles == {"inbox", "archive", "spam", "trash", "sent", "drafts", "allMail", "starred"}
Mailbox == [path : Paths, use : Roles \cup {"none"}, selectable : BOOLEAN]

ASSUME PolicyAssumption == NoPath \notin Paths

Folder(names) == [space |-> "Folders", names |-> names]
Label(name) == [space |-> "Labels", names |-> <<name>>]
Root(name) == [space |-> "root", names |-> <<name>>]
IsContainer(path) == path.space # "root" /\ path.names = <<>>
LeafName(path) == IF path.names = <<>> THEN path.space ELSE path.names[Len(path.names)]

NameFallback ==
  [n \in {"inbox", "archive", "spam", "junk", "trash", "sent", "sent mail", "drafts",
          "all mail", "starred"} |->
     CASE n = "junk" -> "spam" [] n = "sent mail" -> "sent" [] n = "all mail" -> "allMail"
       [] OTHER -> n]
Reserved == DOMAIN NameFallback \cup {"labels", "folders", "Labels", "Folders"}
ValidName(name) == name \notin BadNames \cup Reserved
-----------------------------------------------------------------------------
FirstPath(listing, found) ==
  IF found = {} THEN NoPath
                ELSE listing[CHOOSE i \in found : \A j \in found : i <= j].path

NamedFor(path, role) ==
  LeafName(path) \in DOMAIN NameFallback /\ NameFallback[LeafName(path)] = role

\* Mutant: names are looked at first.
SpecialByName(listing, role) ==
  LET used == {i \in DOMAIN listing : listing[i].use = role}
      named == {i \in DOMAIN listing : NamedFor(listing[i].path, role)}
  IN FirstPath(listing, IF named # {} THEN named ELSE used)

\* SPECIAL-USE metadata first; a conventional name only for a role it leaves unfilled.
Special(listing, role) ==
  LET used == {i \in DOMAIN listing : listing[i].use = role}
      named == {i \in DOMAIN listing : NamedFor(listing[i].path, role)}
  IN FirstPath(listing, IF used # {} THEN used ELSE named)

Listed(listing, path) == \E i \in DOMAIN listing : listing[i].path = path

\* assertFolderExists: listed, and no container.
Selectable(listing, path) ==
  \E i \in DOMAIN listing : listing[i].path = path /\ listing[i].selectable

\* Of a custom folder reference: below Folders, whether the caller wrote the prefix
\* or not; nothing for a label, a bare container, or a segment named like one.
CustomFolder(path) ==
  IF \/ path.space = "Labels"
     \/ path.names = <<>>
     \/ \E i \in DOMAIN path.names : path.names[i] \in {"Folders", "Labels"}
    THEN NoPath ELSE Folder(path.names)

\* What mail_move and mail_restore_from_trash make of the destination they are given.
MoveDestination(listing, path) ==
  IF path \in {Special(listing, role) : role \in Roles} THEN path ELSE CustomFolder(path)

MoveBlocked == {"trash", "spam", "sent", "drafts", "allMail"}

MoveAllowed(listing, path) ==
  /\ path # NoPath
  /\ ~IsContainer(path)
  /\ \A role \in MoveBlocked : Special(listing, role) # path

TrashSourceAllowed(path) == path.space # "Labels"

\* A custom folder or label that has the name already, wherever it is nested.
NameConflict(listing, name) ==
  FirstPath(listing, {i \in DOMAIN listing : /\ listing[i].path.space # "root"
                                             /\ listing[i].path.names # <<>>
                                             /\ LeafName(listing[i].path) = name})

\* The special paths are compared with the parent's logical name.
CreateParentAllowed(listing, parent) ==
  \A role \in {"spam", "trash", "archive", "sent", "drafts", "allMail"} :
    Special(listing, role) # Root(parent)
=============================================================================

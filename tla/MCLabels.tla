------------------------------ MODULE MCLabels ------------------------------
(* Instances of Labels for TLC. *)
EXTENDS Labels, TLC

CONSTANTS m1, m2, x1, x2

HeaderChoices == {m1 :> x1 @@ m2 :> x2, m1 :> x1 @@ m2 :> x1, m1 :> x1 @@ m2 :> NoId}
OwnHeaders == {m1 :> x1 @@ m2 :> x2, m1 :> x1 @@ m2 :> NoId}

NameSet == {"inbox", "archive", "spam", "trash", "papierkorb", "sent", "all mail",
            "work", "urgent", "projects", "x", "new", "labels", "Labels", "", "a/b"}
Bad == {"", "a/b"}

Box(path, use) == [path |-> path, use |-> use, selectable |-> ~IsContainer(path)]
Custom(path) == Box(path, "none")
Containers == <<Custom(Folder(<<>>)), Custom([space |-> "Labels", names |-> <<>>])>>

\* SPECIAL-USE reported, Trash localized, and custom mailboxes named like system folders
\* listed first.
Reported ==
  <<Custom(Folder(<<"archive">>)), Custom(Label("spam")), Custom(Folder(<<"trash">>)),
    Custom(Folder(<<"projects">>)), Custom(Folder(<<"projects", "x">>)), Custom(Label("urgent")),
    Box(Root("inbox"), "inbox"), Box(Root("archive"), "archive"), Box(Root("spam"), "spam"),
    Box(Root("papierkorb"), "trash"), Box(Root("sent"), "sent")>> \o Containers

\* Only names to go by, and no custom mailbox named like a system folder.
Unreported ==
  <<Custom(Folder(<<"work">>)), Custom(Label("urgent")), Custom(Root("inbox")),
    Custom(Root("archive")), Custom(Root("spam")), Custom(Root("trash")),
    Custom(Root("sent")), Custom(Root("all mail"))>> \o Containers

\* The same, with custom mailboxes named like system folders listed first.
Misnamed ==
  <<Custom(Label("archive")), Custom(Folder(<<"trash">>)), Custom(Label("spam"))>> \o Unreported

\* No label, and no Trash.
Bare == <<Box(Root("inbox"), "inbox"), Custom(Folder(<<"projects">>))>> \o Containers

TreeChoices == {Reported, Unreported, Misnamed, Bare}
CustomChoices ==
  {Folder(<<"new">>), Label("new"), Folder(<<"projects">>), Folder(<<"projects", "new">>)}
SystemRoles ==
  Root("inbox") :> "inbox" @@ Root("archive") :> "archive" @@ Root("spam") :> "spam" @@
  Root("trash") :> "trash" @@ Root("papierkorb") :> "trash" @@ Root("sent") :> "sent" @@
  Root("all mail") :> "allMail"

Ask(tool) == [tool |-> tool, name |-> NoName, parent |-> NoName, source |-> Root("inbox"),
              dest |-> Root("inbox"), uids |-> {}, dryRun |-> FALSE, consent |-> TRUE]

Creations ==
  {[Ask("folder") EXCEPT !.name = n, !.parent = p, !.dryRun = d] :
     n \in {"new", "x", "archive", "a/b"}, d \in BOOLEAN,
     p \in {NoName, "projects", "work", "trash", "papierkorb"}}
  \cup {[Ask("label") EXCEPT !.name = n, !.dryRun = d] :
          n \in {"new", "x", "urgent", "Labels", ""}, d \in BOOLEAN}

\* Every destination for the tools told one, every source for those that find theirs.
Destinations ==
  {Root(n) : n \in {"archive", "trash", "papierkorb", "sent", "projects", "x", "Labels"}}
    \cup {Folder(<<"projects", "x">>), Folder(<<"archive">>), Folder(<<>>), Label("urgent"),
          Label("archive"), Folder(<<"projects", "Labels">>)}
Sources == {Root("inbox"), Root("papierkorb"), Label("urgent"), Folder(<<>>)}
Routes ==
  {[Ask(tool) EXCEPT !.dest = d] : tool \in {"move", "restore"}, d \in Destinations}
  \cup {[Ask(tool) EXCEPT !.source = s] : tool \in {"archive", "spam", "trash"}, s \in Sources}
  \cup {[Ask("spam") EXCEPT !.consent = FALSE],
        [Ask("move") EXCEPT !.source = Folder(<<"projects">>), !.dest = Root("projects")]}

\* Each tool on one message and on both; one tool that asks for consent.
Changes ==
  {[Ask(tool) EXCEPT !.name = "urgent", !.uids = u] :
     tool \in {"apply", "remove", "read", "unread"}, u \in {{m1}, Msgs}}
  \cup {[Ask(tool) EXCEPT !.name = "urgent", !.uids = Msgs, !.dryRun = TRUE] : tool \in InPlace}
  \cup {[Ask("delete") EXCEPT !.source = s, !.uids = Msgs, !.consent = c] :
          s \in {Root("inbox"), Root("papierkorb")}, c \in BOOLEAN}
LiveRemovals == {r \in Changes : r.tool = "remove" /\ ~r.dryRun}
Everything == Creations \cup Routes \cup Changes

\* What a tool does not look at is the same in every behaviour of it.
Scenarios ==
  /\ req.tool \notin Labelling =>
       messageId = m1 :> x1 @@ m2 :> x2 /\ labelUid = m1 :> 0 @@ m2 :> 0
  /\ req.tool \notin {"read", "unread"} => seen = {}
  /\ IF req.tool \in InPlace
       THEN req.tool # "delete" => tree = Reported
       ELSE place = m1 :> "source" @@ m2 :> "source"
InitScenarios == Init /\ Scenarios
SpecScenarios == InitScenarios /\ [][Next]_vars
LiveScenarios == SpecScenarios /\ WF_vars(~Waiting /\ Handler)
=============================================================================

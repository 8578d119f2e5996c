------------------------------ MODULE MCTrash ------------------------------
(* Instances of Trash for TLC. *)
EXTENDS Trash, TLC

CONSTANTS m1, m2, x1, x2, l1, f1

\* Two Message-IDs, one twice, and one missing.
HeaderChoices == {m1 :> x1 @@ m2 :> x2, m1 :> x1 @@ m2 :> x1, m1 :> x1 @@ m2 :> NoId}

AllHeaders == HeaderChoices \cup {m1 :> NoId @@ m2 :> NoId}

\* The arguments the handler tells apart.
Batch(tool, uids, dryRun, consent, secret) ==
  [tool |-> tool, uids |-> uids, dryRun |-> dryRun, consent |-> consent, secret |-> secret]
Live(uids) ==
  {Batch("trash", uids, FALSE, TRUE, TRUE), Batch("move", uids, FALSE, FALSE, FALSE)}
Batches ==
  Live({m1}) \cup Live(Msgs)
    \cup {Batch("trash", {m1}, TRUE, FALSE, TRUE), Batch("trash", {m1}, FALSE, FALSE, TRUE),
          Batch("trash", {m1}, FALSE, TRUE, FALSE), Batch("move", {m1}, TRUE, FALSE, FALSE)}
TrashBatches == {r \in Live(Msgs) : r.tool = "trash"}

\* mail_trash of m1 alone, with a label and a flag that others change at any time, or of two
\* messages, one of them with a label, which others change if the two have the same
\* Message-ID; mail_move, which looks at neither.
Lone == req.uids = {m1}
Alike == messageId[m1] = messageId[m2]
Scenarios ==
  /\ req.tool = "move" => marks[m1] = {}
  /\ IF Lone THEN messageId[m2] = NoId /\ place[m2] = "away" /\ marks[m2] = {}
             ELSE /\ messageId[m1] # NoId
                  /\ marks[m1] \cup marks[m2] \subseteq Labels
                  /\ marks[m2] # {} => Alike /\ marks[m1] = {} /\ req.tool = "trash"
Calm ==
  marks' = marks \/ (/\ req.tool = "trash" /\ marks[m2] = {} /\ marks'[m2] = {}
                     /\ Lone \/ (Alike /\ marks'[m1] \subseteq Labels))
InitScenarios == Init /\ Scenarios
SpecScenarios == InitScenarios /\ [][Handler \/ (World /\ Calm)]_vars
LiveScenarios == SpecScenarios /\ WF_vars(~Waiting /\ Handler)
=============================================================================

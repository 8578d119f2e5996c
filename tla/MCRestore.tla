----------------------------- MODULE MCRestore -----------------------------
(* Instances of Restore for TLC. *)
EXTENDS Restore, TLC

CONSTANTS m1, m2, x1, x2, l1, f1

\* Two Message-IDs, one twice, one missing, and none.
HeaderChoices ==
  {m1 :> x1 @@ m2 :> x2, m1 :> x1 @@ m2 :> x1, m1 :> x1 @@ m2 :> NoId, m1 :> NoId @@ m2 :> NoId}

Batch(uids, dryRun, consent, secret) ==
  [tool |-> "restore", uids |-> uids, dryRun |-> dryRun, consent |-> consent, secret |-> secret]
Batches ==
  {Batch(Msgs, FALSE, TRUE, TRUE), Batch({m1}, FALSE, TRUE, TRUE), Batch({m1}, FALSE, TRUE, FALSE),
   Batch({m1}, TRUE, FALSE, TRUE), Batch({m1}, FALSE, FALSE, TRUE)}

\* m1 alone: any receipt or none, with or without an extra label.
Receipt(x, marked, genuine) == [id |-> x, marks |-> marked, genuine |-> genuine]
Alone(r) == [m \in Msgs |-> IF m = m1 THEN r ELSE NoReceipt]
LoneOffers ==
  [receipts : {Alone(NoReceipt), Alone(Receipt(x1, {l1, f1}, FALSE))}
                \cup {Alone(Receipt(x, marked, TRUE)) : x \in {x1, x2}, marked \in {{}, {l1, f1}}},
   extras : {{}, {l1}}, toOriginal : BOOLEAN]

\* Two messages: one with the receipt of its Message-ID, one with that receipt or none.
PairOffers ==
  {[receipts |-> m1 :> Receipt(x1, {l1}, TRUE) @@ m2 :> r, extras |-> {}, toOriginal |-> FALSE] :
     r \in {Receipt(x1, {l1}, TRUE), NoReceipt}}
AllOffers == LoneOffers \cup PairOffers

\* m1 alone, with a label and a flag; or two messages with a label, and one step of others.
Lone == req.uids = {m1}
Scenarios ==
  IF Lone THEN /\ messageId[m2] = NoId /\ place[m2] = "away" /\ marks[m2] = {}
               /\ offer \in LoneOffers
          ELSE /\ messageId[m1] # NoId /\ offer \in PairOffers
               /\ \A m \in Msgs : marks[m] \subseteq Labels
               /\ messageId[m2] # messageId[m1] => marks[m2] = {}
InitScenarios == Init /\ Scenarios
Calm ==
  /\ Lone => marks'[m2] = marks[m2]
  /\ ~Lone => others' <= 1 /\ \A m \in Msgs : marks'[m] \subseteq Labels
SpecScenarios == InitScenarios /\ [][Next /\ Calm]_vars
LiveScenarios == SpecScenarios /\ WF_vars(~Waiting /\ Handler)
=============================================================================

----------------------------- MODULE MCOutbound -----------------------------
(* Instances of Outbound for TLC. *)
EXTENDS Outbound, TLC

CONSTANTS p1, p2, c1, c2, i1, i2

One == c1 :> p1
OneEach == c1 :> p1 @@ c2 :> p2
SameProcess == c1 :> p1 @@ c2 :> p1

\* What a payload says does not matter here: every kind accepts it and keeps it.
AllValid == [kind \in AllKinds |-> Payloads]
AsGiven == [kind \in AllKinds |-> [p \in Payloads |-> p]]

\* dryRun makes consent irrelevant, and only a forward reads ack.
AnyInput == {q \in Requests : /\ q.kind \in Kinds
                              /\ q.dryRun => ~q.consent
                              /\ q.kind # "forward" => ~q.ack}
LiveInput == {q \in AnyInput : q.consent /\ q.receipt # NoReceipt}

\* Receipts are alike, and so are the two processes, each with its call.
Swap == c1 :> c2 @@ c2 :> c1 @@ p1 :> p2 @@ p2 :> p1
Alike == Permutations(Ids) \cup {Swap}
=============================================================================

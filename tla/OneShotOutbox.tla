--------------------------- MODULE OneShotOutbox ---------------------------
(***************************************************************************)
(* What outbound mail promises its user, with no process, file, clock or   *)
(* SMTP session in it: a preview binds a fresh receipt to one message, and *)
(* what reaches the SMTP server is, at most once per receipt, exactly that *)
(* message.  A receipt may also never be used: the promise is              *)
(* authorization at most once, not delivery exactly once                   *)
(* (src/SECURITY.md, "Send-intent receipt replay").                        *)
(***************************************************************************)
EXTENDS Naturals, Sequences

CONSTANTS Ids,       \* the random nonces of receipts
          Messages,  \* what a receipt can bind: a purpose and its message
          Unbound    \* the value of a nonce that no preview has drawn yet

VARIABLES bound,     \* what each nonce was previewed with
          outbox     \* what the SMTP server was handed, in order

vars == <<bound, outbox>>

Init == /\ bound = [i \in Ids |-> Unbound]
        /\ outbox = << >>

\* Any message may be bound.  (It is not named, so that TLC need not try them all.)
Bind(i) == /\ bound[i] = Unbound
           /\ bound'[i] \in Messages
           /\ bound' = [bound EXCEPT ![i] = bound'[i]]
           /\ UNCHANGED outbox

Submit(i) == /\ bound[i] # Unbound
             /\ \A n \in 1..Len(outbox) : outbox[n].id # i
             /\ outbox' = Append(outbox, [id |-> i, message |-> bound[i]])
             /\ UNCHANGED bound

Next == \E i \in Ids : Bind(i) \/ Submit(i)

Spec == Init /\ [][Next]_vars
=============================================================================

--------------------------- MODULE EventDelivery ---------------------------
(***************************************************************************)
(* What the outbox promises to the transactions that register events with  *)
(* it (the comment at the head of pkg/outbox/outbox.go): a registered      *)
(* event is not lost.  It is published at least once before it is closed   *)
(* as sent, or it is closed as failed for an operator to look at, and      *)
(* either end is final.  Publishing more than once is allowed.             *)
(***************************************************************************)

CONSTANT Events

VARIABLES
    outcome,    \* how far an event has come
    published   \* the events Kafka has received

deliveryVars == <<outcome, published>>

Outcomes == {"none", "open", "SENT", "FAILED", "gone"}

Init ==
    /\ outcome = [e \in Events |-> "none"]
    /\ published = {}

Move(e, from, to) ==
    /\ outcome[e] = from
    /\ outcome' = [outcome EXCEPT ![e] = to]
    /\ UNCHANGED published

Register(e) == Move(e, "none", "open")

Publish(e) ==
    /\ outcome[e] # "none"
    /\ published' = published \cup {e}
    /\ UNCHANGED outcome

\* One statement confirms a whole batch.
Confirm(batch) ==
    /\ batch \subseteq published
    /\ \A e \in batch : outcome[e] = "open"
    /\ outcome' = [e \in Events |-> IF e \in batch THEN "SENT" ELSE outcome[e]]
    /\ UNCHANGED published

GiveUp(e) == Move(e, "open", "FAILED")

Forget(e) == Move(e, "SENT", "gone")

Next ==
    \/ \E e \in Events : Register(e) \/ Publish(e) \/ GiveUp(e) \/ Forget(e)
    \/ \E batch \in SUBSET Events : Confirm(batch)

Spec == Init /\ [][Next]_deliveryVars

=============================================================================

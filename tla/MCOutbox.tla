------------------------------ MODULE MCOutbox ------------------------------
(***************************************************************************)
(* The loop d1 and the shutdown round d2 of one process, which run under   *)
(* the owner a, and the loop d3 of another.                                *)
(***************************************************************************)
EXTENDS Outbox

CONSTANTS d1, d2, d3, a, b, e1, e2

MCOwnerOf == [d \in Dispatchers |-> IF d = d3 THEN b ELSE a]

=============================================================================

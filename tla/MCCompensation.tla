--------------------------- MODULE MCCompensation ---------------------------
(***************************************************************************)
(* A winning round r1 and a losing round r2 of one player, sent with the   *)
(* same idempotency token, and one loop of each kind.                      *)
(***************************************************************************)
EXTENDS Compensation

CONSTANTS h1, h2, p1, r1, r2, t1, w1, w2

MCPodOf   == [h \in Handlers |-> p1]
MCRoundOf == [h \in Handlers |-> IF h = h1 THEN r1 ELSE r2]
MCTokenOf == [h \in Handlers |-> t1]
MCSeqOf   == [h \in Handlers |-> IF h = h1 THEN 1 ELSE 2]

=============================================================================

----------------------------- MODULE MCBetFlow -----------------------------
(***************************************************************************)
(* Three requests of one player: h1 and its retry h2 for round r1 in two   *)
(* processes, h3 for round r2 in the process of h1.                        *)
(***************************************************************************)
EXTENDS BetFlow, TLC

CONSTANTS h1, h2, h3, p1, p2, r1, r2, t1, t2

MCPodOf   == h1 :> p1 @@ h2 :> p2 @@ h3 :> p1
MCRoundOf == h1 :> r1 @@ h2 :> r1 @@ h3 :> r2
MCTokenOf == h1 :> t1 @@ h2 :> t1 @@ h3 :> t2
MCSeqOf   == h1 :> 1 @@ h2 :> 2 @@ h3 :> 2

=============================================================================

---------------------------- MODULE MCGameClient ----------------------------
(* The engine's start, two clicks and a replay over two sessions. *)
EXTENDS GameClient, TLC

CONSTANTS c1, c2, r1, boot

=============================================================================

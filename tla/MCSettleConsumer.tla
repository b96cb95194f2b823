-------------------------- MODULE MCSettleConsumer --------------------------
(* The outbox delivers e1 twice; one message cannot be read, and e2 is of  *)
(* the old format, without an id.                                          *)
EXTENDS SettleConsumer

CONSTANTS e1, e2

MCEventAt == <<e1, e2, e2, e1>>

=============================================================================

---------------------------- MODULE MCTurnFollow ----------------------------
(* TurnFollow for TLC: a controller and a headless run share a session.    *)
EXTENDS TurnFollow

=============================================================================

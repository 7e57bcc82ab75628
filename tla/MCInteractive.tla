--------------------------- MODULE MCInteractive ---------------------------
(***************************************************************************)
(* The interactive client: one terminal job and the clients that come and  *)
(* go, each with the cursor of its last visit or, after a death, with      *)
(* none; and, apart from it, a client among the sessions of two hosts.     *)
(* The two have no state in common: a behaviour is one of either.          *)
(* Sessions are interchangeable.                                           *)
(***************************************************************************)
EXTENDS TerminalStream, ClientSession

VARIABLE part

Symmetry == Permutations(Session)

MCInit == StreamInit /\ ClientInit /\ part \in {"terminal", "sessions"}
MCNext ==
    /\ \/ part = "terminal" /\ StreamNext /\ UNCHANGED clientVars
       \/ part = "sessions" /\ ClientNext /\ UNCHANGED vars
    /\ UNCHANGED part
MCSpec == MCInit /\ [][MCNext]_<<vars, clientVars, part>>

=============================================================================

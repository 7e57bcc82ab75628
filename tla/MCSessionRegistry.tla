-------------------------- MODULE MCSessionRegistry --------------------------
(* The registry with two sessions, two names, two connections and two      *)
(* operations: enough for a name to be reused, a controller to be displaced *)
(* and one operation to follow an interrupted one.                         *)
EXTENDS SessionRegistry, TLC

Symmetry == Permutations(Client) \cup Permutations(Name) \cup Permutations(Operation)

=============================================================================

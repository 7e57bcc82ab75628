--------------------------- MODULE MCSessionDaemon ---------------------------
(* The whole daemon on small instances.  Sessions, names, connections and   *)
(* operations are interchangeable: no definition names one of them.         *)
EXTENDS SessionDaemon, TLC

Symmetry == Permutations(SessionId) \cup Permutations(Name)
            \cup Permutations(Client) \cup Permutations(Operation)

=============================================================================

--------------------------- MODULE SensitivePaths ---------------------------
(***************************************************************************)
(* The patterns of sensitive and of blocked paths (sensitive.rs).          *)
(*                                                                         *)
(* A path is the sequence of its components.  A pattern is a sequence of   *)
(* segments: one that stands for any number of components (the double      *)
(* star), or one that stands for a component with one of these names (what *)
(* the wildcards within a component match, among the names there are).     *)
(* anchored: the pattern starts with a slash.                              *)
(***************************************************************************)
EXTENDS Naturals, Sequences

AnyDepth      == [any |-> TRUE, names |-> {}]
Segment(names) == [any |-> FALSE, names |-> names]

Pattern(anchored, segments) == [anchored |-> anchored, segments |-> segments]

\* glob_match: m[i, j] says that the segments from the i-th on match the
\* components from the j-th on.
glob_match(segments, path) ==
  LET m[i \in 1..(Len(segments) + 1), j \in 1..(Len(path) + 1)] ==
        IF i > Len(segments) THEN j > Len(path)
        ELSE IF segments[i].any THEN \E k \in j..(Len(path) + 1) : m[i + 1, k]
        ELSE j <= Len(path) /\ path[j] \in segments[i].names /\ m[i + 1, j + 1]
  IN m[1, 1]

\* A pattern with a slash applies at any depth, one without to the last
\* component alone.
matches(patterns, path) ==
  \E p \in patterns :
    CASE p.anchored -> glob_match(p.segments, path)
      [] ~p.anchored /\ Len(p.segments) > 1 -> glob_match(<<AnyDepth>> \o p.segments, path)
      [] OTHER -> glob_match(p.segments, <<path[Len(path)]>>)

=============================================================================

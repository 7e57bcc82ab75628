---------------------------- MODULE PlanLowering ----------------------------
(***************************************************************************)
(* xshell-plan's lower(): a validated flow becomes an immutable plan whose *)
(* tasks are in execution order, each with the values it binds, what it    *)
(* waits for, its regions and its capabilities; or it is refused.          *)
(*                                                                         *)
(* The components of a path are numbers too: an empty one (Blank), the     *)
(* special ones below, and literal names from 10 on.                       *)
(***************************************************************************)
EXTENDS FlowGraph

Dot == 1
DotDot == 2
Backslash == 3
Star == 4
DoubleStar == 5
Globs == {Star, DoubleStar}

(***************************************************************************)
(* Sorted and deduplicated lists.                                          *)
(***************************************************************************)
Sorted(S, Before(_, _)) ==
    [i \in 1..Cardinality(S) |-> CHOOSE x \in S : Cardinality({y \in S : Before(y, x)}) = i - 1]

sort_deduplicate(values) == Sorted(ToSet(values), Lexical)
Ascending(S) == Sorted(S, LAMBDA a, b : a < b)

(***************************************************************************)
(* Paths of the workspace.                                                 *)
(***************************************************************************)
normalize_workspace_path(path) == SelectSeq(path, LAMBDA c : c # Dot)

\* Absolute paths begin with an empty component.
path_is_refused(path, allow_dot) ==
    \/ ToSet(path) \cap {Blank, DotDot, Backslash} # {}
    \/ normalize_workspace_path(path) = <<>> /\ ~allow_dot

Normalized(paths) == sort_deduplicate([i \in DOMAIN paths |-> normalize_workspace_path(paths[i])])

normalized_capabilities(c) ==
    [read |-> Normalized(c.read), write |-> Normalized(c.write),
     execute |-> sort_deduplicate(c.execute), network |-> sort_deduplicate(c.network)]

check_capability_paths(f) ==
    LET refused(paths) == \E p \in ToSet(paths) : path_is_refused(p, FALSE)
    IN  Fault("P0201", \E n \in ToSet(f.nodes) : refused(n.capabilities.read) \/ refused(n.capabilities.write))
          \cup Fault("P0202", \E n \in ToSet(f.nodes) : n.kind.tag = "promote" /\ refused(n.kind.paths))
          \cup Fault("P0204", \E n \in ToSet(f.nodes) : \E r \in DOMAIN n.resources : n.resources[r] = Some(0))
          \cup Fault("P0203", \E r \in ToSet(f.regions) :
                                 r.kind.tag = "transaction" /\ path_is_refused(r.kind.workspace, TRUE))

(***************************************************************************)
(* Regions.                                                                *)
(***************************************************************************)
Enclosing(f, id) == Chain(f, Some(id), {}).seen
is_ancestor(f, candidate, id) == candidate \in Enclosing(f, id) \ {id}
region_depth(f, id) == Cardinality(Enclosing(f, id)) - 1
DirectRegions(f, node) == {r.id : r \in {x \in ToSet(f.regions) : node \in ToSet(x.nodes)}}

\* region_paths, for one node: its regions and their parents, outermost first.
region_path(f, node) ==
    Sorted(UNION {Enclosing(f, id) : id \in DirectRegions(f, node)},
           LAMBDA a, b : Lexical(<<region_depth(f, a), a>>, <<region_depth(f, b), b>>))

LoopsOf(f, node) == SelectSeq(region_path(f, node), LAMBDA id : IsLoop(f, id))

check_region_paths(f) ==
    Fault("P0101", \E n \in NodeIds(f) : \E a, b \in DirectRegions(f, n) :
                       a # b /\ ~is_ancestor(f, a, b) /\ ~is_ancestor(f, b, a))
      \cup Fault("P0102", \E n \in NodeIds(f) : Len(LoopsOf(f, n)) > 1)

\* The innermost region of a kind that the node is in.
Innermost(f, node, tag) ==
    LET of == SelectSeq(region_path(f, node), LAMBDA id : RegionOf(f, id).kind.tag = tag)
    IN  IF of = <<>> THEN None ELSE Some(Last(of))

loop_for(f, node) == Innermost(f, node, "loop")

FeedbackEdges(f, id) == SelectSeq(f.edges, LAMBDA e : e.kind.tag = "feedback" /\ e.kind.loop_region = id)

\* The producers of a feedback edge's target that are no members of its loop.
InitialEdges(f, feedback) ==
    SelectSeq(f.edges, LAMBDA e :
        /\ e.kind.tag = "data" /\ e.to = feedback.to
        /\ e.from.node \notin ToSet(RegionOf(f, feedback.kind.loop_region).nodes))

check_loop_boundaries(f) ==
    LET loops == {r \in RegionIds(f) : IsLoop(f, r)}
        states(l) == [i \in DOMAIN FeedbackEdges(f, l) |-> FeedbackEdges(f, l)[i].kind.state]
    IN  Fault("P0301", \E e \in ToSet(f.edges) :
                 /\ e.kind.tag # "feedback"
                 /\ loop_for(f, e.from.node) # None /\ loop_for(f, e.to.node) # None
                 /\ loop_for(f, e.from.node) # loop_for(f, e.to.node))
          \cup Fault("P0302", \E l \in loops : Repeats(states(l)))
          \cup Fault("P0303", \E l \in loops : \E e \in ToSet(FeedbackEdges(f, l)) : Len(InitialEdges(f, e)) # 1)

(***************************************************************************)
(* Order: always the first ready node, by name.                            *)
(***************************************************************************)
RECURSIVE Ordering(_, _)
Ordering(before, left) ==
    LET ready == {n \in left : \A m \in left : <<m, n>> \notin before}
        first == CHOOSE n \in ready : \A m \in ready : n <= m
    IN  IF ready = {} THEN <<>> ELSE <<first>> \o Ordering(before, left \ {first})

\* Mutant of topological_order: ids alone decide.
by_name_order(f, members) == Ascending(members)

topological_order(f, members) == Ordering(Precedes(f, members), members)

(***************************************************************************)
(* Tasks.                                                                  *)
(***************************************************************************)
lower_value_binding(f, e) ==
    LET from == loop_for(f, e.from.node)
        to == loop_for(f, e.to.node)
        selection(kind, region, state) == [kind |-> kind, loop_region |-> region, state |-> state]
    IN  [from |-> [task |-> e.from.node, port |-> e.from.port[1]],
         selection |->
            CASE e.kind.tag = "feedback" ->
                    selection("previous_iteration", Some(e.kind.loop_region), Some(e.kind.state))
              [] from = None /\ to = None -> selection("direct", None, None)
              [] from = None /\ to # None -> selection("loop_initial", to, None)
              [] from # None /\ to = None -> selection("loop_final", from, None)
              [] OTHER -> selection("current_iteration", from, None)]

SelectionTag == [direct |-> 0, loop_initial |-> 1, current_iteration |-> 2, loop_final |-> 3, previous_iteration |-> 4]
BindingKey(b) == <<SelectionTag[b.selection.kind]>> \o b.selection.loop_region \o b.selection.state
                    \o <<b.from.task, b.from.port>>

lower_input(f, n, port) ==
    LET bound == SelectSeq(f.edges, LAMBDA e :
                    IsValueEdge(e) /\ e.to = [node |-> n.id, port |-> Some(port.name)])
    IN  [port |-> port,
         sources |-> SortSeq([i \in DOMAIN bound |-> lower_value_binding(f, bound[i])],
                             LAMBDA a, b : Lexical(BindingKey(a), BindingKey(b)))]

\* The nodes that an edge of this kind leads from to this node.
Sources(f, n, tag) == {e.from.node : e \in {x \in ToSet(f.edges) : x.to.node = n.id /\ x.kind.tag = tag}}

OutcomeTag == [valid |-> 0, invalid |-> 1, error |-> 2, cancelled |-> 3]
RouteKey(r) == <<r.gate, OutcomeTag[r.outcome]>>

activate_on_any(f, n) ==
    Sorted({[gate |-> e.from.node, outcome |-> e.kind.outcome] :
               e \in {x \in ToSet(f.edges) : x.to.node = n.id /\ x.kind.tag = "route"}},
           LAMBDA a, b : Lexical(RouteKey(a), RouteKey(b)))

operation(kind) ==
    CASE kind.tag = "task" -> [tag |-> "program", source |-> kind.source,
                               entrypoint |-> kind.entrypoint, resolution |-> None]
      [] kind.tag = "promote" -> [kind EXCEPT !.paths = Normalized(@)]
      [] OTHER -> kind

lower_task(f, id) ==
    LET n == NodeOf(f, id)
        inputs == SortByName(n.inputs)
    IN  [id |-> id,
         operation |-> operation(n.kind),
         inputs |-> [i \in DOMAIN inputs |-> lower_input(f, n, inputs[i])],
         outputs |-> SortByName(n.outputs),
         readiness |-> [mode |-> IF n.kind.tag = "join" /\ n.kind.strategy \in {"any", "first_valid"}
                                 THEN "any" ELSE "all",
                        data |-> Ascending(Sources(f, n, "data")),
                        after |-> Ascending(Sources(f, n, "dependency")),
                        activate_on_any |-> activate_on_any(f, n)],
         region_path |-> region_path(f, id),
         transaction |-> Innermost(f, id, "transaction"),
         loop_context |-> loop_for(f, id),
         capabilities |-> normalized_capabilities(n.capabilities),
         resources |-> n.resources]

lower_tasks(f) ==
    LET order == topological_order(f, NodeIds(f)) IN [i \in DOMAIN order |-> lower_task(f, order[i])]

(***************************************************************************)
(* Loops and regions.                                                      *)
(***************************************************************************)
lower_state(f, e) ==
    LET reference(end) == [task |-> end.node, port |-> end.port[1]]
    IN  [name |-> e.kind.state,
         value_type |-> port_type(NodeOf(f, e.to.node).inputs, e.to.port)[1],
         target |-> reference(e.to), initial |-> reference(InitialEdges(f, e)[1].from),
         feedback |-> reference(e.from)]

lower_loop(f, r) ==
    LET feedback == FeedbackEdges(f, r.id)
    IN  [id |-> r.id, body_order |-> topological_order(f, ToSet(r.nodes)),
         max_iterations |-> r.kind.max_iterations, until |-> r.kind.until,
         on_exhausted |-> r.kind.on_exhausted,
         states |-> SortByName([i \in DOMAIN feedback |-> lower_state(f, feedback[i])])]

lower_loops(f) ==
    LET loops == SelectSeq(f.regions, LAMBDA r : r.kind.tag = "loop")
    IN  SortById([i \in DOMAIN loops |-> lower_loop(f, loops[i])])

lower_region(r) ==
    [id |-> r.id, parent |-> r.parent,
     kind |-> [tag |-> r.kind.tag,
               workspace |-> IF r.kind.tag = "transaction" THEN normalize_workspace_path(r.kind.workspace) ELSE None],
     direct_members |-> Ascending(ToSet(r.nodes))]

lower_regions(f) == SortById([i \in DOMAIN f.regions |-> lower_region(f.regions[i])])

(***************************************************************************)
(* Conflicting writes.                                                     *)
(***************************************************************************)
RECURSIVE Reaches(_, _, _)
Reaches(before, from, seen) ==
    LET next == {p[2] : p \in {q \in before : q[1] \in from}} \ seen
    IN  IF next = {} THEN seen ELSE Reaches(before, next, seen \cup next)

ordered(f, left, right) ==
    LET before == Precedes(f, NodeIds(f))
    IN  right \in Reaches(before, {left}, {}) \/ left \in Reaches(before, {right}, {})

mutually_exclusive(left, right) ==
    /\ left # <<>> /\ right # <<>>
    /\ \A l \in ToSet(left), r \in ToSet(right) : l.gate = r.gate /\ l.outcome # r.outcome

\* The components of a specification before its first glob.
literal_prefix(path) ==
    SubSeq(path, 1, CHOOSE k \in 0..Len(path) :
        /\ \A i \in 1..k : path[i] \notin Globs
        /\ k = Len(path) \/ path[k + 1] \in Globs)

\* Mutant of path_specs_overlap: a directory is not what is in it.
same_prefix(left, right) == literal_prefix(left) = literal_prefix(right)

path_specs_overlap(left, right) ==
    LET l == literal_prefix(left)
        r == literal_prefix(right)
    IN  IsPrefix(l, r) \/ IsPrefix(r, l)

Conflict(f, left, right) ==
    /\ ~ordered(f, left.id, right.id)
    /\ ~mutually_exclusive(left.readiness.activate_on_any, right.readiness.activate_on_any)
    /\ \E l \in ToSet(left.capabilities.write), r \in ToSet(right.capabilities.write) : path_specs_overlap(l, r)

check_write_conflicts(f, tasks) ==
    Fault("P0401", \E i, j \in DOMAIN tasks : i < j /\ Conflict(f, tasks[i], tasks[j]))

(***************************************************************************)
(* The plan.                                                               *)
(***************************************************************************)
RECURSIVE expression_from(_)
expression_from(x) ==
    CASE x.op = "predicate" -> [op |-> "predicate", name |-> x.name, arguments |-> x.arguments, resolution |-> None]
      [] x.op \in {"all", "any"} -> [op |-> x.op, clauses |-> [i \in DOMAIN x.clauses |-> expression_from(x.clauses[i])]]
      [] x.op = "not" -> [op |-> "not", clause |-> expression_from(x.clause)]

lower_contracts(f) ==
    SortById([i \in DOMAIN f.contracts |->
                 [id |-> f.contracts[i].id, expression |-> expression_from(f.contracts[i].expression)]])

\* The predicates of a lowered expression without a resolution.
RECURSIVE collect_unresolved_predicates(_)
collect_unresolved_predicates(x) ==
    CASE x.op = "predicate" -> IF x.resolution = None THEN {x.name} ELSE {}
      [] x.op \in {"all", "any"} -> UNION {collect_unresolved_predicates(c) : c \in ToSet(x.clauses)}
      [] x.op = "not" -> collect_unresolved_predicates(x.clause)

BlockerTag == [program |-> 0, predicate |-> 1]
BlockerKey(b) == <<BlockerTag[b.kind], b.owner, b.names>>

\* What still has no resolution: programs by task, predicates by contract.
blockers(tasks, contracts) ==
    LET programs == {[kind |-> "program", owner |-> t.id, names |-> t.operation.source] :
                        t \in {x \in ToSet(tasks) : x.operation.tag = "program" /\ x.operation.resolution = None}}
        predicates == UNION {{[kind |-> "predicate", owner |-> c.id, names |-> p] :
                                 p \in collect_unresolved_predicates(c.expression)} : c \in ToSet(contracts)}
    IN  Sorted(programs \cup predicates, LAMBDA a, b : Lexical(BlockerKey(a), BlockerKey(b)))

rebuild_blockers(plan) ==
    LET left == blockers(plan.tasks, plan.contracts)
    IN  [plan EXCEPT !.resolution = [fully_resolved |-> left = <<>>, blockers |-> left]]

\* CapabilitySummary::extend over all tasks.
PlanCapabilities(tasks) ==
    [c \in Families |-> Sorted(UNION {ToSet(t.capabilities[c]) : t \in ToSet(tasks)}, Lexical)]

lower(f) ==
    LET invalid == validate(f)
        unfit == IF invalid # {} THEN invalid
                 ELSE check_region_paths(f) \cup check_capability_paths(f) \cup check_loop_boundaries(f)
        tasks == lower_tasks(f)
        errors == IF unfit # {} THEN unfit ELSE check_write_conflicts(f, tasks)
    IN  [errors |-> errors,
         plan |-> IF errors # {} THEN None ELSE Some(rebuild_blockers(
            [schema |-> "xshell.plan/v0", name |-> f.name, flow |-> canonical_semantic_bytes(f),
             interface |-> [inputs |-> SortByName(f.interface.inputs), outputs |-> SortByName(f.interface.outputs)],
             contracts |-> lower_contracts(f), tasks |-> tasks, regions |-> lower_regions(f),
             loops |-> lower_loops(f), capabilities |-> PlanCapabilities(tasks),
             resolution |-> [fully_resolved |-> FALSE, blockers |-> <<>>]]))]
(***************************************************************************)
(* The types of a plan (model.rs).                                         *)
(***************************************************************************)
Optional(S) == {None} \cup {Some(x) : x \in S}
All(s, Is(_)) == \A i \in DOMAIN s : Is(s[i])

IsReference(r, ids) == DOMAIN r = {"task", "port"} /\ r.task \in ids

\* Which of a loop's values a binding takes, and of which loop and state.
IsSelection(s) ==
    CASE s.kind = "direct" -> s.loop_region = None /\ s.state = None
      [] s.kind \in {"loop_initial", "current_iteration", "loop_final"} -> s.loop_region # None /\ s.state = None
      [] s.kind = "previous_iteration" -> s.loop_region # None /\ s.state # None

IsRouteCondition(r, ids) == r.gate \in ids /\ r.outcome \in Outcomes

IsReadiness(r, ids) ==
    /\ r.mode \in {"all", "any"} /\ ToSet(r.data) \cup ToSet(r.after) \subseteq ids
    /\ All(r.activate_on_any, LAMBDA c : IsRouteCondition(c, ids))

IsOperation(o) ==
    \/ o.tag \in {"input", "output", "gate", "join", "promote", "discard"}
    \/ o.tag = "program" /\ (o.resolution # None =>
          DOMAIN o.resolution[1] = {"manifest_sha256", "source_sha256", "entrypoint"})

IsTaskTemplate(t, ids, regions) ==
    /\ t.id \in ids /\ IsOperation(t.operation) /\ All(t.outputs, IsPort) /\ IsReadiness(t.readiness, ids)
    /\ \A i \in DOMAIN t.inputs :
          /\ IsPort(t.inputs[i].port)
          /\ All(t.inputs[i].sources, LAMBDA b : IsReference(b.from, ids) /\ IsSelection(b.selection))
    /\ ToSet(t.region_path) \subseteq regions
    /\ t.transaction \in Optional(regions) /\ t.loop_context \in Optional(regions)

IsRegionTemplate(r, ids, regions) ==
    /\ r.parent \in Optional(regions) /\ ToSet(r.direct_members) \subseteq ids
    /\ r.kind.tag \in {"scope", "parallel", "transaction", "loop"}

IsLoopTemplate(l, ids, regions) ==
    /\ l.id \in regions /\ ToSet(l.body_order) \subseteq ids /\ l.max_iterations \in Nat \ {0}
    /\ IsRouteCondition(l.until, ids) /\ l.on_exhausted \in {"fail", "yield_last", "discard"}
    /\ All(l.states, LAMBDA s : \A r \in {s.target, s.initial, s.feedback} : IsReference(r, ids))

IsPlan(p) ==
    LET ids == ToSet(Ids(p.tasks))
        regions == ToSet(Ids(p.regions))
    IN  /\ All(p.interface.inputs, IsPort) /\ All(p.interface.outputs, IsPort)
        /\ All(p.tasks, LAMBDA t : IsTaskTemplate(t, ids, regions))
        /\ All(p.regions, LAMBDA r : IsRegionTemplate(r, ids, regions))
        /\ All(p.loops, LAMBDA l : IsLoopTemplate(l, ids, regions))
        /\ p.resolution.fully_resolved = (p.resolution.blockers = <<>>)
=============================================================================

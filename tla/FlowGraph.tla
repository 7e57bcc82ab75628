----------------------------- MODULE FlowGraph -----------------------------
(***************************************************************************)
(* The flow document of xshell-flow and the checks of Flow::validate.      *)
(*                                                                         *)
(* Names (ids, sources, states, capability values) are positive numbers    *)
(* compared by <, as the code compares strings; Blank stands for a string  *)
(* that no check accepts (empty, only spaces, or no identifier).  A        *)
(* capability is the sequence of the components between its slashes.       *)
(* Lists are sequences, because the order and the repetitions of a         *)
(* document are what the checks and the canonical form are about.  An      *)
(* Option is None or Some(x).  A check is the set of the codes it pushes.  *)
(***************************************************************************)
EXTENDS Integers, Sequences, FiniteSets, SequencesExt

Blank == 0
None == <<>>
Some(x) == <<x>>

\* a is before b in the order of strings: the first difference decides.
Lexical(a, b) ==
    \/ IsStrictPrefix(a, b)
    \/ \E i \in DOMAIN a \cap DOMAIN b : a[i] < b[i] /\ SubSeq(a, 1, i - 1) = SubSeq(b, 1, i - 1)

Fault(code, wrong) == IF wrong THEN {code} ELSE {}
Repeats(s) == Cardinality(ToSet(s)) < Len(s)
Ids(s) == [i \in DOMAIN s |-> s[i].id]
Names(s) == [i \in DOMAIN s |-> s[i].name]

Outcomes == {"valid", "invalid", "error", "cancelled"}
Families == {"read", "write", "execute", "network"}

(***************************************************************************)
(* The document.                                                           *)
(***************************************************************************)
IsPort(p) == DOMAIN p = {"name", "type", "optional"} /\ p.optional \in BOOLEAN

IsNode(n) ==
    /\ DOMAIN n = {"id", "inputs", "outputs", "kind", "capabilities", "resources"}
    /\ \A p \in ToSet(n.inputs) \cup ToSet(n.outputs) : IsPort(p)
    /\ n.kind.tag \in {"input", "output", "task", "gate", "join", "promote", "discard"}
    /\ DOMAIN n.capabilities = Families
    /\ DOMAIN n.resources = {"timeout_ms", "memory_bytes", "output_bytes", "attempts"}

IsEdge(e) ==
    /\ DOMAIN e = {"id", "from", "to", "kind"}
    /\ e.kind.tag \in {"data", "dependency", "route", "feedback"}
    /\ e.kind.tag = "route" => e.kind.outcome \in Outcomes

IsRegion(r) ==
    /\ DOMAIN r = {"id", "parent", "nodes", "kind"}
    /\ r.kind.tag \in {"scope", "parallel", "transaction", "loop"}
    /\ r.kind.tag = "loop" => r.kind.on_exhausted \in {"fail", "yield_last", "discard"}

IsFlow(f) ==
    /\ \A n \in ToSet(f.nodes) : IsNode(n)
    /\ \A e \in ToSet(f.edges) : IsEdge(e)
    /\ \A r \in ToSet(f.regions) : IsRegion(r)
    /\ \A p \in ToSet(f.interface.inputs) \cup ToSet(f.interface.outputs) : IsPort(p)

(***************************************************************************)
(* Indexes: a BTreeMap filled in declaration order keeps the last entry.   *)
(***************************************************************************)
LastWith(s, id) == s[CHOOSE i \in DOMAIN s : s[i].id = id /\ \A j \in DOMAIN s : s[j].id = id => j <= i]
NodeOf(f, id) == LastWith(f.nodes, id)
RegionOf(f, id) == LastWith(f.regions, id)
NodeIds(f) == ToSet(Ids(f.nodes))
RegionIds(f) == ToSet(Ids(f.regions))

IsLoop(f, id) == RegionOf(f, id).kind.tag = "loop"
IsValueEdge(e) == e.kind.tag \in {"data", "feedback"}

\* The edges that order execution, as pairs of nodes: all but feedback.
Precedes(f, members) ==
    {<<e.from.node, e.to.node>> : e \in {x \in ToSet(f.edges) :
        x.kind.tag # "feedback" /\ x.from.node \in members /\ x.to.node \in members}}

(***************************************************************************)
(* The checks.                                                             *)
(***************************************************************************)
check_identifiers(names) == Fault("F0604", Blank \in ToSet(names))

check_ports(ports) ==
    check_identifiers(Names(ports)) \cup Fault("F0601", Repeats(Names(ports)))

check_sorted_unique_strings(values) ==
    Fault("F0602", <<Blank>> \in ToSet(values))
      \cup Fault("F0603", Repeats(SelectSeq(values, LAMBDA v : v # <<Blank>>)))

SortByName(s) == SortSeq(s, LAMBDA a, b : a.name < b.name)
SortById(s) == SortSeq(s, LAMBDA a, b : a.id < b.id)
same_ports(left, right) == SortByName(left) = SortByName(right)

RECURSIVE check_contract_expression(_)
check_contract_expression(x) ==
    CASE x.op = "predicate" -> Fault("F0102", x.name = Blank)
      [] x.op \in {"all", "any"} -> Fault("F0103", x.clauses = <<>>)
            \cup UNION {check_contract_expression(c) : c \in ToSet(x.clauses)}
      [] x.op = "not" -> check_contract_expression(x.clause)

index_contracts(f) ==
    check_identifiers(Ids(f.contracts)) \cup Fault("F0101", Repeats(Ids(f.contracts)))
      \cup UNION {check_contract_expression(c.expression) : c \in ToSet(f.contracts)}

index_nodes(f) == check_identifiers(Ids(f.nodes)) \cup Fault("F0201", Repeats(Ids(f.nodes)))
index_regions(f) == check_identifiers(Ids(f.regions)) \cup Fault("F0301", Repeats(Ids(f.regions)))

check_node(f, n) ==
    check_ports(n.inputs) \cup check_ports(n.outputs)
      \cup UNION {check_sorted_unique_strings(n.capabilities[c]) : c \in Families}
      \cup CASE n.kind.tag = "input" -> Fault("F0202", n.inputs # <<>>)
                    \cup Fault("F0203", ~same_ports(n.outputs, f.interface.inputs))
             [] n.kind.tag = "output" -> Fault("F0204", n.outputs # <<>>)
                    \cup Fault("F0205", ~same_ports(n.inputs, f.interface.outputs))
             [] n.kind.tag = "task" -> Fault("F0206", n.kind.source = Blank)
             [] n.kind.tag = "gate" -> Fault("F0207", n.kind.contract \notin ToSet(Ids(f.contracts)))
             [] OTHER -> {}

Count(f, tag) == Cardinality({i \in DOMAIN f.nodes : f.nodes[i].kind.tag = tag})

check_nodes(f) ==
    UNION {check_node(f, n) : n \in ToSet(f.nodes)}
      \cup Fault("F0208", Count(f, "input") # 1) \cup Fault("F0209", Count(f, "output") # 1)

check_region(f, r) ==
    Fault("F0302", r.parent # None /\ ~(ToSet(r.parent) \subseteq RegionIds(f)))
      \cup Fault("F0303", ~(ToSet(r.nodes) \subseteq NodeIds(f)))
      \cup Fault("F0304", Repeats(r.nodes))
      \cup IF r.kind.tag # "loop" THEN {} ELSE
             LET gate == r.kind.until.gate
                 known == gate \in NodeIds(f)
                 isGate == known /\ NodeOf(f, gate).kind.tag = "gate"
             IN  Fault("F0305", r.kind.max_iterations = 0)
                   \cup Fault("F0306", isGate /\ gate \notin ToSet(r.nodes))
                   \cup Fault("F0307", known /\ ~isGate) \cup Fault("F0308", ~known)

\* port_type: the type of a port, found by name; None when there is none.
port_type(ports, port) ==
    LET named == SelectSeq(ports, LAMBDA p : port = Some(p.name))
    IN  IF named = <<>> THEN None ELSE Some(named[1].type)

value_ports(f, e) ==
    LET ends == {<<e.from, "outputs">>, <<e.to, "inputs">>}
        present == {x \in ends : x[1].node \in NodeIds(f)}
        typeOf(x) == port_type(NodeOf(f, x[1].node)[x[2]], x[1].port)
        known == {x \in present : typeOf(x) # None}
    IN  Fault("F0412", \E x \in present : x[1].port = None)
          \cup Fault("F0413", \E x \in present : x[1].port # None /\ typeOf(x) = None)
          \cup Fault("F0404", Cardinality({typeOf(x) : x \in known}) > 1)

feedback_owner(f, e) ==
    LET region == e.kind.loop_region
        known == region \in RegionIds(f)
    IN  Fault("F0406", e.kind.state = Blank)
          \cup Fault("F0409", ~known)
          \cup Fault("F0408", known /\ ~IsLoop(f, region))
          \cup Fault("F0407", known /\ IsLoop(f, region)
                        /\ ~({e.from.node, e.to.node} \subseteq ToSet(RegionOf(f, region).nodes)))

check_edge(f, e) ==
    Fault("F0402", e.from.node \notin NodeIds(f)) \cup Fault("F0403", e.to.node \notin NodeIds(f))
      \cup (IF IsValueEdge(e) THEN value_ports(f, e)
            ELSE Fault("F0414", e.from.port # None \/ e.to.port # None))
      \cup Fault("F0405", e.kind.tag = "route" /\ e.from.node \in NodeIds(f)
                            /\ NodeOf(f, e.from.node).kind.tag # "gate")
      \cup (IF e.kind.tag = "feedback" THEN feedback_owner(f, e) ELSE {})

check_edges(f) ==
    check_identifiers(Ids(f.edges)) \cup Fault("F0401", Repeats(Ids(f.edges)))
      \cup UNION {check_edge(f, e) : e \in ToSet(f.edges)}

Incoming(f, n, port, tag) ==
    Cardinality({i \in DOMAIN f.edges : /\ f.edges[i].to = [node |-> n.id, port |-> Some(port.name)]
                                        /\ f.edges[i].kind.tag = tag})

check_required_input(f, n, port) ==
    LET ordinary == Incoming(f, n, port, "data")
        feedback == Incoming(f, n, port, "feedback")
        missing == ~port.optional /\ ordinary + feedback = 0
    IN  Fault("F0410", missing)
          \cup Fault("F0411", ~missing /\ (ordinary > 1 \/ feedback > 1 \/ (feedback > 0 /\ ordinary # 1)))

check_required_inputs(f) ==
    UNION {UNION {check_required_input(f, n, p) : p \in ToSet(n.inputs)} : n \in ToSet(f.nodes)}

\* The region and its parents, walked until there is none or one returns.
RECURSIVE Chain(_, _, _)
Chain(f, current, seen) ==
    IF current = None \/ ToSet(current) \subseteq seen \/ ~(ToSet(current) \subseteq RegionIds(f))
    THEN [seen |-> seen, returns |-> current # None /\ ToSet(current) \subseteq seen]
    ELSE Chain(f, RegionOf(f, current[1]).parent, seen \cup ToSet(current))

check_region_parent_cycles(f) ==
    Fault("F0310", \E id \in RegionIds(f) : Chain(f, Some(id), {}).returns)

\* What is left once every node without an unvisited predecessor is visited.
RECURSIVE Unvisited(_, _)
Unvisited(before, left) ==
    LET free == {n \in left : \A m \in left : <<m, n>> \notin before}
    IN  IF free = {} THEN left ELSE Unvisited(before, left \ free)

check_execution_cycles(f) == Fault("F0501", Unvisited(Precedes(f, NodeIds(f)), NodeIds(f)) # {})

validate(f) ==
    Fault("F0001", f.schema # "xshell.flow/v0") \cup check_identifiers(<<f.name>>)
      \cup check_ports(f.interface.inputs) \cup check_ports(f.interface.outputs)
      \cup index_contracts(f) \cup index_nodes(f) \cup index_regions(f)
      \cup check_nodes(f) \cup UNION {check_region(f, r) : r \in ToSet(f.regions)}
      \cup check_edges(f) \cup check_required_inputs(f)
      \cup check_region_parent_cycles(f) \cup check_execution_cycles(f)

(***************************************************************************)
(* canonical_semantic_bytes: the document with every list of declarations  *)
(* sorted and the editor's data dropped (the model has no annotations and  *)
(* no labels: the code encodes neither).  SHA-256 is taken as injective.   *)
(***************************************************************************)
canonical_node(n) ==
    [n EXCEPT !.inputs = SortByName(@), !.outputs = SortByName(@),
              !.capabilities = [c \in Families |-> SortSeq(n.capabilities[c], Lexical)]]

canonical_semantic_bytes(f) ==
    [f EXCEPT !.interface = [inputs |-> SortByName(@.inputs), outputs |-> SortByName(@.outputs)],
              !.contracts = SortById(@), !.edges = SortById(@),
              !.nodes = SortById([i \in DOMAIN f.nodes |-> canonical_node(f.nodes[i])]),
              !.regions = SortById([i \in DOMAIN f.regions |->
                             [f.regions[i] EXCEPT !.nodes = SortSeq(@, <)]])]
=============================================================================

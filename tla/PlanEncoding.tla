---------------------------- MODULE PlanEncoding ----------------------------
(***************************************************************************)
(* canonical_plan_bytes: the explicit binary encoding that a plan's hash   *)
(* covers.  A string is encoded by its length and its bytes, which no      *)
(* other string begins with: one token here.  Every list has its length    *)
(* before it, every Option and every variant its tag.  The digests of      *)
(* documents (the flow, manifests and definitions) have a fixed length and *)
(* stand in a list of their own, in the order of their places.  SHA-256 is *)
(* taken as injective, so the encoding stands for the hash.                *)
(***************************************************************************)
EXTENDS PlanLowering

string(name) == <<name>>

list(s, encode(_)) == <<Len(s)>> \o FlattenSeq([i \in DOMAIN s |-> encode(s[i])])

\* An Option's tag, 0 or 1, is its length as a sequence.
optional(o, encode(_)) == list(o, encode)

strings(s) == list(s, string)
paths(s) == list(s, strings)

JsonTag == [null |-> 0, bool |-> 1, integer |-> 3, float |-> 5, string |-> 6, array |-> 7, object |-> 8]

encode_json_map(arguments) ==
    list(Ascending(DOMAIN arguments), LAMBDA k : string(k) \o <<JsonTag[arguments[k]]>>)

encode_port(p) == string(p.name) \o <<p.type>> \o <<IF p.optional THEN 1 ELSE 0>>
encode_interface(x) == list(x.inputs, encode_port) \o list(x.outputs, encode_port)

ExpressionTag == [predicate |-> 0, all |-> 1, any |-> 2, not |-> 3]

RECURSIVE encode_expression(_)
encode_expression(x) == <<ExpressionTag[x.op]>> \o
    CASE x.op = "predicate" -> string(x.name) \o encode_json_map(x.arguments)
            \o optional(x.resolution, LAMBDA r : string(r.version) \o string(r.implementation_sha256))
      [] x.op \in {"all", "any"} ->
            <<Len(x.clauses)>> \o FlattenSeq([i \in DOMAIN x.clauses |-> encode_expression(x.clauses[i])])
      [] x.op = "not" -> encode_expression(x.clause)

OperationTag == [input |-> 0, output |-> 1, program |-> 2, gate |-> 3, join |-> 4, promote |-> 5, discard |-> 6]
StrategyTag == [all |-> 0, any |-> 1, first_valid |-> 2]

encode_operation(o) == <<OperationTag[o.tag]>> \o
    CASE o.tag = "program" -> string(o.source) \o optional(o.entrypoint, string)
            \o optional(o.resolution, LAMBDA r : string(r.source_sha256) \o string(r.entrypoint))
      [] o.tag = "gate" -> string(o.contract)
      [] o.tag = "join" -> <<StrategyTag[o.strategy]>>
      [] o.tag = "promote" -> paths(o.paths)
      [] OTHER -> <<>>

encode_reference(r) == string(r.task) \o string(r.port)

encode_binding(b) ==
    encode_reference(b.from) \o <<SelectionTag[b.selection.kind]>> \o b.selection.loop_region \o b.selection.state

encode_readiness(r) ==
    <<IF r.mode = "any" THEN 1 ELSE 0>> \o strings(r.data) \o strings(r.after) \o list(r.activate_on_any, RouteKey)

encode_capabilities(c) == paths(c.read) \o paths(c.write) \o paths(c.execute) \o paths(c.network)

encode_resources(r) ==
    optional(r.timeout_ms, string) \o optional(r.memory_bytes, string)
      \o optional(r.output_bytes, string) \o optional(r.attempts, string)

encode_task(t) ==
    string(t.id) \o encode_operation(t.operation)
      \o list(t.inputs, LAMBDA i : encode_port(i.port) \o list(i.sources, encode_binding))
      \o list(t.outputs, encode_port) \o encode_readiness(t.readiness) \o strings(t.region_path)
      \o optional(t.transaction, string) \o optional(t.loop_context, string)
      \o encode_capabilities(t.capabilities) \o encode_resources(t.resources)

RegionTag == [scope |-> 0, parallel |-> 1, transaction |-> 2, loop |-> 3]
encode_region(r) ==
    string(r.id) \o optional(r.parent, string) \o <<RegionTag[r.kind.tag]>>
      \o (IF r.kind.tag = "transaction" THEN strings(r.kind.workspace) ELSE <<>>) \o strings(r.direct_members)

ExhaustionTag == [fail |-> 0, yield_last |-> 1, discard |-> 2]
encode_loop(l) ==
    string(l.id) \o strings(l.body_order) \o <<l.max_iterations>> \o RouteKey(l.until)
      \o <<ExhaustionTag[l.on_exhausted]>>
      \o list(l.states, LAMBDA s : string(s.name) \o <<s.value_type>> \o encode_reference(s.target)
                                     \o encode_reference(s.initial) \o encode_reference(s.feedback))

encode_resolution(r) ==
    <<IF r.fully_resolved THEN 1 ELSE 0>> \o list(r.blockers, BlockerKey)

\* The digests that a plan embeds: of its flow, its manifests, its definitions.
RECURSIVE expression_digests(_)
expression_digests(x) ==
    CASE x.op = "predicate" -> [i \in DOMAIN x.resolution |-> x.resolution[i].definition_sha256]
      [] x.op \in {"all", "any"} -> FlattenSeq([i \in DOMAIN x.clauses |-> expression_digests(x.clauses[i])])
      [] x.op = "not" -> expression_digests(x.clause)

plan_digests(p) ==
    [flow |-> p.flow,
     predicates |-> FlattenSeq([i \in DOMAIN p.contracts |-> expression_digests(p.contracts[i].expression)]),
     programs |-> FlattenSeq([i \in DOMAIN p.tasks |->
        IF p.tasks[i].operation.tag # "program" THEN <<>>
        ELSE [j \in DOMAIN p.tasks[i].operation.resolution |-> p.tasks[i].operation.resolution[j].manifest_sha256]])]

plan_hash(p) ==
    [bytes |-> string(p.name) \o encode_interface(p.interface)
         \o list(p.contracts, LAMBDA c : string(c.id) \o encode_expression(c.expression))
         \o list(p.tasks, encode_task) \o list(p.regions, encode_region) \o list(p.loops, encode_loop)
         \o encode_capabilities(p.capabilities) \o encode_resolution(p.resolution),
     digests |-> plan_digests(p)]
=============================================================================

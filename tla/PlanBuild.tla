----------------------------- MODULE PlanBuild -----------------------------
(***************************************************************************)
(* xshell-plan as it is used: a flow document is edited, the command       *)
(* lowers it and resolves its programs and predicates from the catalogs    *)
(* the caller supplies, and keeps the artifact it wrote; an artifact's     *)
(* plan can be resolved again with other catalogs.                         *)
(***************************************************************************)
EXTENDS PlanEncoding

CONSTANTS
    Flows,               \* the documents an author begins with
    Saves(_),            \* the documents an editor can turn a document into
    ProgramCatalogs,     \* the program catalogs there are
    PredicateCatalogs,   \* the predicate catalogs there are
    MaxEdits,            \* bound: edits of the document
    ConcretePaths        \* the files that write capabilities are judged by

ASSUME BuildAssumption == MaxEdits \in Nat /\ \A f \in Flows : IsFlow(f)

VARIABLES
    flow,       \* the document on disk
    edits,      \* how often it was edited
    artifact,   \* the last plan written, with its hash and what it was made from
    reported    \* the codes of the last command

buildVars == <<flow, edits, artifact, reported>>

EmptyPrograms == [schema |-> "xshell.program-catalog/v0", programs |-> <<>>]
EmptyPredicates == [schema |-> "xshell.predicate-catalog/v0", predicates |-> <<>>]

(***************************************************************************)
(* Catalogs.  A digest is a number; Blank is no SHA-256.                   *)
(***************************************************************************)
validate_ports(ports) ==
    Fault("R0110", Blank \in ToSet(Names(ports)))
      \cup Fault("R0111", Repeats(SelectSeq(Names(ports), LAMBDA n : n # Blank)))

validate_capabilities(c) ==
    Fault("R0120", \E p \in ToSet(c.read) \cup ToSet(c.write) : path_is_refused(p, FALSE))
      \cup Fault("R0121", <<Blank>> \in ToSet(c.execute) \cup ToSet(c.network))

validate_manifest(m) ==
    LET names == SelectSeq(Names(m.entrypoints), LAMBDA n : n # Blank)
    IN  Fault("R0101", m.source = Blank) \cup Fault("R0103", m.source_sha256 = Blank)
          \cup Fault("R0104", m.entrypoints = <<>>) \cup Fault("R0105", Blank \in ToSet(Names(m.entrypoints)))
          \cup Fault("R0106", Repeats(names)) \cup Fault("R0107", m.default_entrypoint \notin ToSet(names))
          \cup UNION {validate_ports(x.inputs) \cup validate_ports(x.outputs)
                        \cup validate_capabilities(x.capabilities) : x \in ToSet(m.entrypoints)}

validate_programs(catalog) ==
    LET sources == [i \in DOMAIN catalog.programs |-> catalog.programs[i].source]
    IN  Fault("R0102", Repeats(SelectSeq(sources, LAMBDA s : s # Blank)))
          \cup UNION {validate_manifest(m) : m \in ToSet(catalog.programs)}

validate_predicates(catalog) ==
    LET given == ToSet(catalog.predicates)
    IN  Fault("R0201", \E p \in given : p.name = Blank)
          \cup Fault("R0202", Repeats(SelectSeq(Names(catalog.predicates), LAMBDA n : n # Blank)))
          \cup Fault("R0203", \E p \in given : p.version = Blank)
          \cup Fault("R0204", \E p \in given : p.implementation_sha256 = Blank)
          \cup Fault("R0205", \E p \in given : Blank \in DOMAIN p.arguments)

validate_catalogs(plan, programs, predicates) ==
    Fault("R0000", plan.schema # "xshell.plan/v0")
      \cup Fault("R0001", programs.schema # EmptyPrograms.schema)
      \cup Fault("R0002", predicates.schema # EmptyPredicates.schema)
      \cup validate_programs(programs) \cup validate_predicates(predicates)

\* What validation leaves in the catalog: sorted ports, normalized capabilities.
normalized_manifest(m) ==
    LET entrypoint(x) == [x EXCEPT !.inputs = SortByName(@), !.outputs = SortByName(@),
                                   !.capabilities = normalized_capabilities(@)]
    IN  [m EXCEPT !.entrypoints = SortByName([i \in DOMAIN m.entrypoints |-> entrypoint(m.entrypoints[i])])]

(***************************************************************************)
(* Programs.                                                               *)
(***************************************************************************)
\* The manifest and the entrypoint that a task's operation asks for.
ManifestFor(programs, o) ==
    LET fitting == SelectSeq(programs.programs, LAMBDA m : m.source = o.source)
    IN  [i \in DOMAIN fitting |-> normalized_manifest(fitting[i])]

EntrypointName(m, o) == IF o.entrypoint = None THEN m.default_entrypoint ELSE o.entrypoint[1]
EntrypointFor(m, o) == SelectSeq(m.entrypoints, LAMBDA x : x.name = EntrypointName(m, o))

\* Every capability that an entrypoint needs is one that the task declares.
Covered(required, declared) == \A c \in Families : ToSet(required[c]) \subseteq ToSet(declared[c])

incompatible(t, x) ==
    Fault("R0302", [i \in DOMAIN t.inputs |-> t.inputs[i].port] # x.inputs)
      \cup Fault("R0303", t.outputs # x.outputs)
      \cup Fault("R0304", ~Covered(x.capabilities, t.capabilities))

program_faults(programs, t) ==
    IF t.operation.tag # "program" \/ ManifestFor(programs, t.operation) = None THEN {}
    ELSE LET x == EntrypointFor(ManifestFor(programs, t.operation)[1], t.operation)
         IN  IF x = <<>> THEN {"R0301"} ELSE incompatible(t, x[1])

resolve_program(programs, t) ==
    LET m == ManifestFor(programs, t.operation)[1]
    IN  IF t.operation.tag # "program" \/ ManifestFor(programs, t.operation) = None \/ program_faults(programs, t) # {}
        THEN t
        ELSE [t EXCEPT !.operation.resolution =
                Some([manifest_sha256 |-> m, source_sha256 |-> m.source_sha256,
                      entrypoint |-> EntrypointName(m, t.operation)])]

(***************************************************************************)
(* Predicates.                                                             *)
(***************************************************************************)
\* PredicateValueType::matches, on the kinds of JSON values.
matches(type, value) == value = type \/ (type = "number" /\ value \in {"integer", "float"})

DefinitionFor(predicates, name) == SelectSeq(predicates.predicates, LAMBDA d : d.name = name)

argument_faults(d, given) ==
    Fault("R0401", \E a \in DOMAIN d.arguments \cap DOMAIN given : ~matches(d.arguments[a].type, given[a]))
      \cup Fault("R0402", \E a \in DOMAIN d.arguments \ DOMAIN given : d.arguments[a].required)
      \cup Fault("R0403", ~(DOMAIN given \subseteq DOMAIN d.arguments))

predicate_faults(predicates, x) ==
    LET d == DefinitionFor(predicates, x.name) IN IF d = None THEN {} ELSE argument_faults(d[1], x.arguments)

RECURSIVE expression_faults(_, _)
expression_faults(predicates, x) ==
    CASE x.op = "predicate" -> predicate_faults(predicates, x)
      [] x.op \in {"all", "any"} -> UNION {expression_faults(predicates, c) : c \in ToSet(x.clauses)}
      [] x.op = "not" -> expression_faults(predicates, x.clause)

RECURSIVE resolve_expression(_, _)
resolve_expression(predicates, x) ==
    LET d == DefinitionFor(predicates, x.name)
    IN  CASE x.op = "predicate" ->
                IF d = None \/ predicate_faults(predicates, x) # {} THEN x
                ELSE [x EXCEPT !.resolution =
                        Some([definition_sha256 |-> d[1], version |-> d[1].version,
                              implementation_sha256 |-> d[1].implementation_sha256])]
          [] x.op \in {"all", "any"} ->
                [x EXCEPT !.clauses = [i \in DOMAIN x.clauses |-> resolve_expression(predicates, x.clauses[i])]]
          [] x.op = "not" -> [x EXCEPT !.clause = resolve_expression(predicates, @)]

RECURSIVE clear_expression_resolution(_)
clear_expression_resolution(x) ==
    CASE x.op = "predicate" -> [x EXCEPT !.resolution = None]
      [] x.op \in {"all", "any"} ->
            [x EXCEPT !.clauses = [i \in DOMAIN x.clauses |-> clear_expression_resolution(x.clauses[i])]]
      [] x.op = "not" -> [x EXCEPT !.clause = clear_expression_resolution(@)]

(***************************************************************************)
(* resolve().                                                              *)
(***************************************************************************)
keep_resolutions(plan) == plan

clear_resolutions(plan) ==
    [plan EXCEPT
        !.tasks = [i \in DOMAIN @ |-> IF @[i].operation.tag = "program"
                                      THEN [@[i] EXCEPT !.operation.resolution = None] ELSE @[i]],
        !.contracts = [i \in DOMAIN @ |-> [@[i] EXCEPT !.expression = clear_expression_resolution(@)]]]

resolve(given, programs, predicates) ==
    LET plan == clear_resolutions(given)
        malformed == validate_catalogs(plan, programs, predicates)
        errors == IF malformed # {} THEN malformed
                  ELSE UNION {program_faults(programs, t) : t \in ToSet(plan.tasks)}
                         \cup UNION {expression_faults(predicates, c.expression) : c \in ToSet(plan.contracts)}
    IN  [errors |-> errors,
         plan |-> IF errors # {} THEN None ELSE Some(rebuild_blockers([plan EXCEPT
            !.tasks = [i \in DOMAIN @ |-> resolve_program(programs, @[i])],
            !.contracts = [i \in DOMAIN @ |-> [@[i] EXCEPT !.expression = resolve_expression(predicates, @)]]]))]

\* build(): lower, and resolve only when the caller named a catalog.
build(f, programs, predicates) ==
    LET lowered == lower(f)
    IN  IF lowered.errors # {} \/ (programs = None /\ predicates = None) THEN lowered
        ELSE resolve(lowered.plan[1], IF programs = None THEN EmptyPrograms ELSE programs[1],
                     IF predicates = None THEN EmptyPredicates ELSE predicates[1])

(***************************************************************************)
(* The specification.                                                      *)
(***************************************************************************)
BuildInit == /\ flow \in Flows /\ edits = 0 /\ artifact = None /\ reported = {}

\* The author saves another version of the document.
Edit ==
    /\ edits < MaxEdits
    /\ flow' \in Saves(flow) /\ flow' # flow
    /\ edits' = edits + 1 /\ reported' = {}
    /\ UNCHANGED artifact

verify_hash(a) == plan_hash(a.plan) = a.plan_hash

\* PlanArtifact: the plan and its hash; an error leaves the old artifact.
Write(result, programs, predicates) ==
    /\ reported' = result.errors
    /\ artifact' = IF result.errors # {} THEN artifact
                   ELSE Some([plan |-> result.plan[1], plan_hash |-> plan_hash(result.plan[1]),
                              programs |-> programs, predicates |-> predicates])
    /\ UNCHANGED <<flow, edits>>

Build == \E programs \in Optional(ProgramCatalogs), predicates \in Optional(PredicateCatalogs) :
            Write(build(flow, programs, predicates), programs, predicates)

\* resolve() on the plan of an artifact that may be resolved already.
Resolve ==
    /\ artifact # None
    /\ \E programs \in ProgramCatalogs, predicates \in PredicateCatalogs :
            Write(resolve(artifact[1].plan, programs, predicates), Some(programs), Some(predicates))

BuildNext == Edit \/ Build \/ Resolve
BuildSpec == BuildInit /\ [][BuildNext]_buildVars

(***************************************************************************)
(* What a plan promises, judged by the plan alone.                         *)
(***************************************************************************)
TaskIds(plan) == ToSet(Ids(plan.tasks))
TaskOf(plan, id) == LastWith(plan.tasks, id)
WaitsFor(t) == ToSet(t.readiness.data) \cup ToSet(t.readiness.after)
                 \cup {r.gate : r \in ToSet(t.readiness.activate_on_any)}
Before(plan) == UNION {{<<id, t.id>> : id \in WaitsFor(t)} : t \in ToSet(plan.tasks)}

\* An order of these tasks in which nothing stands before what it waits for.
Runs(plan, order, members) ==
    /\ ToSet(order) = members /\ Len(order) = Cardinality(members)
    /\ \A i, j \in DOMAIN order : <<order[j], order[i]>> \in Before(plan) => j < i

\* Every source of an input is an output of its type; a required input has one.
InputsAreBound(plan) ==
    \A t \in ToSet(plan.tasks) : \A b \in ToSet(t.inputs) :
        /\ b.port.optional \/ b.sources # <<>>
        /\ \A s \in ToSet(b.sources) :
              port_type(TaskOf(plan, s.from.task).outputs, Some(s.from.port)) = Some(b.port.type)

\* A loop's state enters from outside its members, returns from inside them,
\* and its target binds these two producers and no other.
StatesAreFed(plan) ==
    \A l \in ToSet(plan.loops) : \A s \in ToSet(l.states) :
        LET inputs == {b \in ToSet(TaskOf(plan, s.target.task).inputs) : b.port.name = s.target.port}
        IN  /\ s.initial.task \notin ToSet(l.body_order)
            /\ {s.feedback.task, s.target.task, l.until.gate} \subseteq ToSet(l.body_order)
            /\ \A b \in inputs : /\ Len(b.sources) = 2
                                 /\ {x.from : x \in ToSet(b.sources)} = {s.initial, s.feedback}

\* Nothing is resolved without its definition's consent, and the plan says
\* that it is fully resolved exactly when nothing is left.
ResolutionIsExact(plan) ==
    LET programs == {t \in ToSet(plan.tasks) : t.operation.tag = "program"}
        open == {t \in programs : t.operation.resolution = None}
    IN  /\ plan.resolution.fully_resolved <=>
              open = {} /\ \A c \in ToSet(plan.contracts) : collect_unresolved_predicates(c.expression) = {}
        /\ \A t \in programs \ open :
              LET r == t.operation.resolution[1]
                  chosen == {x \in ToSet(r.manifest_sha256.entrypoints) : x.name = r.entrypoint}
              IN  chosen # {} /\ \A x \in chosen :
                     /\ Covered(x.capabilities, t.capabilities)
                     /\ x.outputs = t.outputs /\ Len(x.inputs) = Len(t.inputs)

\* A plan that was written is well formed and can be run as it says: its
\* tasks are those of the flow, each after all that it waits for, in the plan
\* and in every loop's body; its inputs and loop states are bound; its
\* resolution is what it claims.  lower(), topological_order and resolve().
PlanIsSound ==
    \A a \in ToSet(artifact) :
        /\ IsPlan(a.plan)
        /\ Runs(a.plan, Ids(a.plan.tasks), ToSet(Ids(a.plan.flow.nodes)))
        /\ \A l \in ToSet(a.plan.loops) :
              Runs(a.plan, l.body_order, ToSet(LastWith(a.plan.regions, l.id).direct_members))
        /\ InputsAreBound(a.plan) /\ StatesAreFed(a.plan) /\ ResolutionIsExact(a.plan)

\* What a specification means: * is one component, ** any number of them.
RECURSIVE Selects(_, _)
Selects(spec, path) ==
    IF spec = <<>> THEN path = <<>>
    ELSE IF Head(spec) = DoubleStar THEN \E k \in 0..Len(path) : Selects(Tail(spec), SubSeq(path, k + 1, Len(path)))
    ELSE path # <<>> /\ Head(spec) \in {Star, Head(path)} /\ Selects(Tail(spec), Tail(path))

\* A task may write a path when it may write it or a directory it is in.
MayWrite(t, path) ==
    \E spec \in ToSet(t.capabilities.write), k \in 1..Len(path) : Selects(spec, SubSeq(path, 1, k))

\* No outcome of the gates activates both tasks.
NeverBoth(t, u) ==
    LET routes(x) == ToSet(x.readiness.activate_on_any)
        gates == {r.gate : r \in routes(t) \cup routes(u)}
        active(x, outcome) == routes(x) = {} \/ \E r \in routes(x) : outcome[r.gate] = r.outcome
    IN  \A outcome \in [gates -> Outcomes] : ~(active(t, outcome) /\ active(u, outcome))

\* Two tasks of a plan that may write the same file are never activated
\* together, or one waits for the other: the static check of literal prefixes
\* misses no overlap that the globs really have.  check_write_conflicts.
WritersAreApart ==
    \A a \in ToSet(artifact) : \A i, j \in DOMAIN a.plan.tasks : i < j =>
        LET t == a.plan.tasks[i]
            u == a.plan.tasks[j]
        IN  (\E path \in ConcretePaths : MayWrite(t, path) /\ MayWrite(u, path))
               => u.id \in Reaches(Before(a.plan), {t.id}, {}) \/ NeverBoth(t, u)

\* A hash names one plan.  While the document has the semantic hash that the
\* artifact records, building it with the artifact's catalogs gives that very
\* plan, however the document was reordered and whatever the plan was resolved
\* with before.  And an artifact verifies with the plan it was written with
\* only: not with the plan of another document under the recorded identity,
\* nor with what other catalogs make of it.  canonical_semantic_bytes,
\* canonical_plan_bytes, verify_hash, clear_resolutions.
HashNamesOnePlan ==
    \A a \in ToSet(artifact) :
        /\ canonical_semantic_bytes(flow) = a.plan.flow
              => build(flow, a.programs, a.predicates).plan = Some(a.plan)
        /\ \A programs \in {a.programs, None} : \A p \in ToSet(build(flow, programs, a.predicates).plan) :
              LET other == [a EXCEPT !.plan = [p EXCEPT !.flow = a.plan.flow]]
              IN  verify_hash(other) => other = a
=============================================================================

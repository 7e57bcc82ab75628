------------------------ MODULE MCPlansAndProviders ------------------------
(***************************************************************************)
(* Two documents, a bounded loop and a branch, and the edits that reach    *)
(* what the checks of validate, lower and resolve are for; and, apart from *)
(* them, answers of both kinds of providers.  The two have no state in     *)
(* common: a behaviour is one of either.                                   *)
(***************************************************************************)
EXTENDS PlanBuild, ProviderStream

P(name) == [name |-> name, type |-> 1, optional |-> FALSE]
Q(name) == [name |-> name, type |-> 1, optional |-> TRUE]
NoCaps == [c \in Families |-> <<>>]
Writes(path) == [NoCaps EXCEPT !.write = <<path>>]
NoLimits == [timeout_ms |-> None, memory_bytes |-> None, output_bytes |-> None, attempts |-> None]
Node(id, inputs, outputs, kind, caps) ==
    [id |-> id, inputs |-> inputs, outputs |-> outputs, kind |-> kind, capabilities |-> caps, resources |-> NoLimits]
Task(source) == [tag |-> "task", source |-> source, entrypoint |-> None]
At(node, port) == [node |-> node, port |-> Some(port)]
By(node) == [node |-> node, port |-> None]
Data(id, from, to) == [id |-> id, from |-> from, to |-> to, kind |-> [tag |-> "data"]]
After(id, a, b) == [id |-> id, from |-> By(a), to |-> By(b), kind |-> [tag |-> "dependency"]]
Route(id, a, b, outcome) == [id |-> id, from |-> By(a), to |-> By(b), kind |-> [tag |-> "route", outcome |-> outcome]]
Feedback(id, from, to, region, state) ==
    [id |-> id, from |-> from, to |-> to, kind |-> [tag |-> "feedback", loop_region |-> region, state |-> state]]
Region(id, parent, nodes, kind) == [id |-> id, parent |-> parent, nodes |-> nodes, kind |-> kind]
Loop(gate) == [tag |-> "loop", max_iterations |-> 2, until |-> [gate |-> gate, outcome |-> "valid"], on_exhausted |-> "fail"]
Predicate(name, args) == [op |-> "predicate", name |-> name, arguments |-> args]

Lit == 10
Dir == 11
Interface == [inputs |-> <<P(1)>>, outputs |-> <<P(1)>>]
Contract == [id |-> 1, expression |-> [op |-> "all", clauses |->
                <<Predicate(1, (1 :> "integer")), [op |-> "not", clause |-> Predicate(2, <<>>)]>>]]

\* input 1; task 2 and gate 3 in loop 1; output 4.
LoopFlow ==
    [schema |-> "xshell.flow/v0", name |-> 1, interface |-> Interface, contracts |-> <<Contract>>,
     nodes |-> <<Node(1, <<>>, <<P(1)>>, [tag |-> "input"], NoCaps),
                 Node(2, <<P(2), P(1)>>, <<P(1), P(2)>>, Task(1), Writes(<<Dir, Star>>)),
                 Node(3, <<P(1)>>, <<>>, [tag |-> "gate", contract |-> 1], NoCaps),
                 Node(4, <<P(1)>>, <<>>, [tag |-> "output"], NoCaps)>>,
     edges |-> <<Data(1, At(1, 1), At(2, 1)), Data(2, At(1, 1), At(2, 2)), Data(3, At(2, 1), At(3, 1)),
                 Data(4, At(2, 1), At(4, 1)), Feedback(5, At(2, 2), At(2, 1), 1, 2), Feedback(6, At(2, 1), At(2, 2), 1, 1)>>,
     regions |-> <<Region(1, None, <<3, 2>>, Loop(3))>>]

\* input 1; gate 2 routes to task 3 or task 4; join 5; output 6.
BranchFlow ==
    [schema |-> "xshell.flow/v0", name |-> 2, interface |-> Interface, contracts |-> <<Contract>>,
     nodes |-> <<Node(1, <<>>, <<P(1)>>, [tag |-> "input"], NoCaps),
                 Node(2, <<P(1)>>, <<>>, [tag |-> "gate", contract |-> 1], NoCaps),
                 Node(3, <<P(1)>>, <<P(1)>>, Task(1), Writes(<<Dir, Dot, Lit>>)),
                 Node(4, <<P(1)>>, <<P(1)>>, Task(2), Writes(<<Dir>>)),
                 Node(5, <<Q(1), Q(2)>>, <<P(1)>>, [tag |-> "join", strategy |-> "any"], NoCaps),
                 Node(6, <<P(1)>>, <<>>, [tag |-> "output"], NoCaps)>>,
     edges |-> <<Data(1, At(1, 1), At(2, 1)), Data(2, At(1, 1), At(3, 1)), Data(3, At(1, 1), At(4, 1)),
                 Data(4, At(3, 1), At(5, 1)), Data(5, At(4, 1), At(5, 2)), Data(6, At(5, 1), At(6, 1)),
                 Route(7, 2, 3, "valid"), Route(8, 2, 4, "invalid")>>,
     regions |-> <<Region(1, None, <<3>>, [tag |-> "transaction", workspace |-> <<Dot>>])>>]

MCFlows == {LoopFlow, BranchFlow}

Reversed(f) == [f EXCEPT !.nodes = Reverse(@), !.edges = Reverse(@), !.regions = Reverse(@), !.contracts = Reverse(@)]
SetNode(f, i, n) == [f EXCEPT !.nodes[i] = n]
Changed(n) ==
    {[n EXCEPT !.capabilities = Writes(path)] : path \in {<<DoubleStar>>, <<Dir, DotDot>>}}
      \cup {[n EXCEPT !.capabilities = [NoCaps EXCEPT !.read = n.capabilities.write]]}
      \cup {[n EXCEPT !.kind = [tag |-> "promote", paths |-> <<<<Dir>>>>]]}

\* A second edit is of those that change the order, the writers or the hash.
Again(f) ==
    {Reversed(f)}
      \cup {[f EXCEPT !.edges = Append(@, e)] : e \in {After(9, 3, 4), After(9, 4, 3), Route(9, 3, 4, "invalid"), Route(9, 2, 4, "valid")}}
      \cup UNION {{SetNode(f, i, n) : n \in Changed(f.nodes[i])} : i \in {j \in DOMAIN f.nodes : f.nodes[j].kind.tag = "task"}}

MCSaves(f) ==
    Again(f) \cup
    IF f \notin MCFlows THEN {}
    ELSE {[f EXCEPT !.edges = RemoveAt(@, i)] : i \in DOMAIN f.edges}
           \cup {[f EXCEPT !.regions = Append(@, r)] : r \in
                   {Region(2, Some(1), <<1, 2>>, [tag |-> "scope"]), Region(2, None, <<3>>, Loop(3)),
                    Region(2, Some(1), <<2>>, Loop(3)), Region(2, Some(3), <<>>, [tag |-> "parallel"])}}

Entry(name, caps, inputs, outputs) == [name |-> name, inputs |-> inputs, outputs |-> outputs, capabilities |-> caps]
Manifest(source, entries) == [source |-> source, source_sha256 |-> source, default_entrypoint |-> 1, entrypoints |-> entries]
Programs(s) == [schema |-> "xshell.program-catalog/v0", programs |-> s]
Definition(name, args) == [name |-> name, version |-> 1, implementation_sha256 |-> name, arguments |-> args]
Predicates(s) == [schema |-> "xshell.predicate-catalog/v0", predicates |-> s]
Required(type) == [type |-> type, required |-> TRUE]

MCProgramCatalogs ==
    {Programs(<<Manifest(2, <<Entry(1, NoCaps, <<P(1)>>, <<P(1)>>)>>),
                Manifest(1, <<Entry(2, NoCaps, <<P(1)>>, <<P(1)>>),
                              Entry(1, Writes(<<Dir, Dot, Lit>>), <<P(1)>>, <<P(1)>>)>>)>>),
     Programs(<<Manifest(1, <<Entry(1, Writes(<<Dir, Star>>), <<P(1), P(2)>>, <<P(2), P(1)>>)>>)>>)}
MCPredicateCatalogs ==
    {Predicates(<<Definition(2, <<>>), Definition(1, (1 :> Required("number")))>>),
     Predicates(<<Definition(1, (1 :> Required("string")))>>)}

MCConcretePaths == {<<Dir>>, <<Lit>>, <<Dir, Lit>>, <<Dir, Lit, Lit>>}

(***************************************************************************)
(* Answers of providers.                                                   *)
(***************************************************************************)
Delta(index, id, name, arguments) == [index |-> index, id |-> id, name |-> name, arguments |-> arguments]
Choice(finish, text, calls) ==
    [index |-> 0, finish_reason |-> finish, content |-> text, reasoning |-> <<>>, tool_calls |-> calls]
Chunk(choices) == [tag |-> "chunk", error |-> NotGiven, choices |-> choices]
Say(text) == Chunk(<<Choice(NotGiven, text, <<>>)>>)
Call(d) == Chunk(<<Choice(NotGiven, <<>>, <<d>>)>>)
Finish(reason) == Chunk(<<Choice(Given(reason), <<>>, <<>>)>>)
DoneLine == [tag |-> "[DONE]"]
EmptyLine == [tag |-> "empty"]
Broke(body) == [tag |-> "chunk", error |-> Given(body), choices |-> <<>>]
Called(id, name, arguments) == [id |-> id, name |-> name, arguments |-> arguments]

Overflow == [recognized |-> TRUE, prompt |-> Given(9), window |-> NotGiven, numbers |-> {1, 7, 9, 12}]
Anchored == [Overflow EXCEPT !.window = Given(12)]
Vague == [Overflow EXCEPT !.numbers = {1, 9}]
OtherError == [Overflow EXCEPT !.recognized = FALSE]
MCErrorBodies == {Overflow, Anchored, Vague, OtherError}

\* Two calls whose pieces interleave, the second begun first.
TwoCalls == <<Say(<<"text">>), Call(Delta(1, <<>>, <<"write">>, <<"open">>)), EmptyLine,
              Call(Delta(0, <<"c0">>, <<"sh">>, <<"open", "close">>)), Call(Delta(1, <<>>, <<>>, <<"close">>))>>
TwoMeant == <<Called(<<"c0">>, <<"sh">>, <<"open", "close">>),
              Called(<<"openai-call", 1>>, <<"write">>, <<"open", "close">>)>>
OpenAi(lines, meant) == [adapter |-> "openai", lines |-> lines, text |-> <<"text">>, meant |-> meant]

OllamaChunk(text, calls, done, reason) ==
    [tag |-> "chunk", error |-> NotGiven, content |-> text, tool_calls |-> calls, done |-> done, done_reason |-> reason]
OllamaCall(name) == [name |-> name, arguments |-> <<"open", "close">>]
OllamaLines == <<OllamaChunk(<<"text">>, <<OllamaCall(<<"sh">>)>>, FALSE, NotGiven), EmptyLine,
                 OllamaChunk(<<"more">>, <<OllamaCall(<<"write">>)>>, FALSE, NotGiven)>>
Ollama(lines, meant) == [adapter |-> "ollama", lines |-> lines, text |-> <<"text", "more">>, meant |-> meant]
OllamaMeant == <<Called(<<"ollama-call", 0>>, <<"sh">>, <<"open", "close">>),
                 Called(<<"ollama-call", 1>>, <<"write">>, <<"open", "close">>)>>

\* An answer without calls it means to be run has an empty "meant".
MCStreamAnswers ==
    {OpenAi(TwoCalls \o <<Finish("tool_calls"), DoneLine>>, TwoMeant),
     OpenAi(TwoCalls \o <<DoneLine>>, TwoMeant)}
      \cup {OpenAi(TwoCalls \o <<Finish(reason), DoneLine>>, <<>>) : reason \in {"length", "content_filter"}}
      \cup {OpenAi(TwoCalls \o <<Broke(body)>>, <<>>) : body \in {Vague, OtherError}}
      \cup {OpenAi(<<Call(Delta(0, <<>>, <<"sh">>, <<"open", "close">>))>> \o rest \o <<Finish("tool_calls")>>, <<>>) :
               rest \in {<<Call(Delta(0, <<>>, <<>>, <<"open">>))>>, <<Call(Delta(1, <<>>, <<>>, <<"open", "close">>))>>,
                         <<Chunk(<<[Choice(NotGiven, <<>>, <<>>) EXCEPT !.index = 1]>>)>>,
                         <<Call(Delta(1, <<>>, <<"sh">>, <<>>)), Call(Delta(2, <<>>, <<"sh">>, <<>>))>>,
                         <<Call(Delta(0, <<>>, <<>>, <<"open", "close", "open">>))>>}}
      \cup {OpenAi(<<[tag |-> "comment"], Say(<<"text">>), Finish("stop"), DoneLine>>, <<>>)}
      \cup {Ollama(OllamaLines \o <<OllamaChunk(<<>>, <<>>, TRUE, Given("stop"))>>, OllamaMeant),
            Ollama(OllamaLines \o <<OllamaChunk(<<>>, <<>>, TRUE, Given("length"))>>, <<>>),
            Ollama(OllamaLines \o <<OllamaChunk(<<>>, <<OllamaCall(<<"sh">>)>>, TRUE, Given("stop"))>>, <<>>),
            Ollama(<<OllamaChunk(<<"text">>, <<OllamaCall(<<>>)>>, TRUE, Given("stop"))>>, <<>>),
            Ollama(OllamaLines \o <<[OllamaChunk(<<>>, <<>>, FALSE, NotGiven) EXCEPT !.error = Given(OtherError)]>>, <<>>)}

MCJsonDocuments == {<<"open", "close">>}

BuildVarsStay == flow = LoopFlow /\ edits = 0 /\ artifact = None /\ reported = {}

MCInit == BuildInit /\ StreamInit
MCNext ==
    \/ phase = "idle" /\ BuildNext /\ UNCHANGED streamVars
    \/ BuildVarsStay /\ StreamNext /\ UNCHANGED buildVars
MCSpec == MCInit /\ [][MCNext]_<<buildVars, streamVars>>
=============================================================================

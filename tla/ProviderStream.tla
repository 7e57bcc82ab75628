--------------------------- MODULE ProviderStream ---------------------------
(***************************************************************************)
(* One request to a model provider: it is sent, retried once when it could *)
(* not be sent, and the streamed answer is put together from the lines of  *)
(* the response by one of two adapters.  A line is two bytes on the wire,  *)
(* so that a chunk may end, and the stream be cut, in the middle of one.   *)
(* A text, an id, a name and the arguments of a call are sequences of the  *)
(* pieces they are streamed in.                                            *)
(***************************************************************************)
EXTENDS Naturals, Sequences, FiniteSets, SequencesExt, FiniteSetsExt, Functions

CONSTANTS
    StreamAnswers,               \* the answers that providers mean to give
    ErrorBodies,                 \* what a refused request is answered with
    JsonDocuments,               \* the argument texts that parse
    MAX_STREAM_RESPONSE_BYTES,
    MAX_PENDING_LINE_BYTES,
    MAX_TOOL_CALLS,
    MAX_TOOL_ARGUMENT_BYTES,
    MIN_PLAUSIBLE_CONTEXT_TOKENS,
    MaxChunk                     \* bound: the bytes of one chunk

VARIABLES
    answer,    \* what the provider means to answer
    phase,     \* "idle", "sending", "retrying", "reading", "done"
    received,  \* the bytes of the answer that have arrived
    turn,      \* what chat_stream has put together of them
    returned    \* what chat_stream returned

streamVars == <<answer, phase, received, turn, returned>>

NotGiven == <<>>
Given(x) == <<x>>

(***************************************************************************)
(* The lines of the two protocols, as their types deserialize them.        *)
(***************************************************************************)
IsDelta(d) ==
    DOMAIN d = {"index", "id", "name", "arguments"} /\ d.index \in Nat

IsChoice(c) ==
    /\ DOMAIN c = {"index", "finish_reason", "content", "reasoning", "tool_calls"}
    /\ c.index \in Nat /\ \A d \in ToSet(c.tool_calls) : IsDelta(d)

IsOpenAiLine(l) ==
    \/ l.tag \in {"comment", "empty", "[DONE]"}
    \/ l.tag = "chunk" /\ l.error \in Seq(ErrorBodies) /\ \A c \in ToSet(l.choices) : IsChoice(c)

IsOllamaLine(l) ==
    \/ l.tag = "empty"
    \/ /\ l.tag = "chunk" /\ l.error \in Seq(ErrorBodies) /\ l.done \in BOOLEAN
       /\ \A c \in ToSet(l.tool_calls) : DOMAIN c = {"name", "arguments"}

ASSUME ProviderAssumption ==
    \A a \in StreamAnswers :
        \A l \in ToSet(a.lines) : IF a.adapter = "openai" THEN IsOpenAiLine(l) ELSE IsOllamaLine(l)

(***************************************************************************)
(* Errors.                                                                 *)
(***************************************************************************)
Ok(response) == [tag |-> "ok", response |-> response]
Transport == [tag |-> "transport"]
InvalidResponse == [tag |-> "invalid_response"]
Http == [tag |-> "http"]

\* The counts are read after the phrases that name them; failing that, they
\* are the two largest plausible numbers of the message.
context_overflow(body) ==
    LET counts == {n \in body.numbers : n >= MIN_PLAUSIBLE_CONTEXT_TOKENS}
        largest == Max(counts)
    IN  IF ~body.recognized THEN NotGiven
        ELSE IF body.prompt # NotGiven /\ body.window # NotGiven
             THEN Given([prompt_tokens |-> body.prompt, available_tokens |-> body.window])
        ELSE IF Cardinality(counts) < 2
             THEN Given([prompt_tokens |-> NotGiven, available_tokens |-> NotGiven])
        ELSE Given([prompt_tokens |-> Given(largest), available_tokens |-> Given(Max(counts \ {largest}))])

ErrorOf(body, otherwise) ==
    LET overflow == context_overflow(body)
    IN  IF overflow = NotGiven THEN otherwise ELSE [tag |-> "context_overflow", counts |-> overflow[1]]

stream_error(body) == ErrorOf(body, InvalidResponse)

\* What read_bounded_error keeps of a body: all of it, or a beginning in
\* which the words and the numbers may be missing.
Retained(body) == {body, [recognized |-> FALSE, prompt |-> NotGiven, window |-> NotGiven, numbers |-> {}]}

(***************************************************************************)
(* Putting an answer together.  error is the result that ended the stream. *)
(***************************************************************************)
NoCall == [id |-> <<>>, name |-> <<>>, arguments |-> <<>>]

Started == [content |-> <<>>, reasoning |-> <<>>, finish_reason |-> NotGiven, complete |-> FALSE,
            calls |-> <<>>, argument_bytes |-> 0, error |-> NotGiven]

Failed(t, error) == [t EXCEPT !.error = Given(error)]

\* A piece of the call with an index: it continues the call if it has begun.
AddDelta(t, d) ==
    LET known == d.index \in DOMAIN t.calls
        call == IF known THEN t.calls[d.index] ELSE NoCall
        grown == [id |-> call.id \o d.id, name |-> call.name \o d.name, arguments |-> call.arguments \o d.arguments]
        bytes == t.argument_bytes + Len(d.arguments)
    IN  IF t.error # NotGiven THEN t
        ELSE IF ~known /\ Cardinality(DOMAIN t.calls) >= MAX_TOOL_CALLS THEN Failed(t, InvalidResponse)
        ELSE IF bytes > MAX_TOOL_ARGUMENT_BYTES THEN Failed(t, InvalidResponse)
        ELSE [t EXCEPT !.argument_bytes = bytes,
                       !.calls = [i \in DOMAIN @ \cup {d.index} |-> IF i = d.index THEN grown ELSE @[i]]]

AddChoice(t, c) ==
    IF t.error # NotGiven THEN t
    ELSE IF c.index # 0 THEN Failed(t, InvalidResponse)
    ELSE FoldLeft(AddDelta,
                  [t EXCEPT !.finish_reason = IF c.finish_reason = NotGiven THEN @ ELSE c.finish_reason,
                            !.complete = @ \/ c.finish_reason # NotGiven,
                            !.reasoning = @ \o c.reasoning, !.content = @ \o c.content],
                  c.tool_calls)

ConsumeOpenAi(t, l) ==
    CASE l.tag \in {"comment", "empty"} -> t
      [] l.tag = "[DONE]"               -> [t EXCEPT !.complete = TRUE]
      [] l.tag = "broken"               -> Failed(t, InvalidResponse)
      [] l.tag = "chunk"                -> IF l.error # NotGiven THEN Failed(t, stream_error(l.error[1]))
                                           ELSE FoldLeft(AddChoice, t, l.choices)

\* Ollama sends whole calls, which are numbered as they come.
AddCall(t, c) ==
    LET index == Cardinality(DOMAIN t.calls)
        bytes == t.argument_bytes + Len(c.arguments)
    IN  IF t.error # NotGiven THEN t
        ELSE IF index >= MAX_TOOL_CALLS \/ bytes > MAX_TOOL_ARGUMENT_BYTES \/ c.name = <<>> THEN Failed(t, InvalidResponse)
        ELSE [t EXCEPT !.argument_bytes = bytes,
                       !.calls = [i \in 0..index |->
                                    IF i < index THEN @[i] ELSE [id |-> <<>>, name |-> c.name, arguments |-> c.arguments]]]

ConsumeOllama(t, l) ==
    CASE l.tag = "empty"  -> t
      [] l.tag = "broken" -> Failed(t, InvalidResponse)
      [] l.tag = "chunk"  -> IF l.error # NotGiven THEN Failed(t, stream_error(l.error[1]))
                             ELSE FoldLeft(AddCall,
                                           [t EXCEPT !.complete = @ \/ l.done, !.content = @ \o l.content,
                                                     !.finish_reason = IF l.done THEN l.done_reason ELSE @],
                                           l.tool_calls)

Consume(a, t, l) ==
    IF t.error # NotGiven THEN t
    ELSE IF a.adapter = "openai" THEN ConsumeOpenAi(t, l)
    ELSE ConsumeOllama(t, l)

\* The lines whose last byte is among the bytes from first to last.
Completed(a, first, last) == SubSeq(a.lines, first \div 2 + 1, last \div 2)

(***************************************************************************)
(* Handing an answer over.                                                 *)
(***************************************************************************)
\* Mutant of require_dispatchable: a call whose arguments parse may run.
DispatchUnlessRefused(t) ==
    DOMAIN t.calls = {} \/ t.finish_reason \notin {Given("length"), Given("content_filter")}

require_dispatchable(t) ==
    \/ DOMAIN t.calls = {}
    \/ t.complete /\ t.finish_reason \in {NotGiven, Given("stop"), Given("tool_calls"), Given("function_call")}

DefaultId(a, index) == <<IF a.adapter = "openai" THEN "openai-call" ELSE "ollama-call", index>>

ToolCall(a, t, index) ==
    LET call == t.calls[index]
    IN  [id |-> IF call.id = <<>> THEN DefaultId(a, index) ELSE call.id, name |-> call.name, arguments |-> call.arguments]

\* Ollama's names were checked, and its arguments parsed, with their line.
CallsAreSound(a, t) ==
    a.adapter = "openai" =>
        \A index \in DOMAIN t.calls :
            t.calls[index].name # <<>> /\ t.calls[index].arguments \in JsonDocuments \cup {<<>>}

AssistantResponse(a, t) ==
    [content |-> t.content, reasoning |-> t.reasoning, finish_reason |-> t.finish_reason,
     tool_calls |-> LET order == SetToSortSeq(DOMAIN t.calls, <)
                    IN  [i \in DOMAIN order |-> ToolCall(a, t, order[i])]]

Finished(a, t) ==
    IF t.error # NotGiven THEN t.error[1]
    ELSE IF require_dispatchable(t) /\ CallsAreSound(a, t) THEN Ok(AssistantResponse(a, t))
    ELSE InvalidResponse

(***************************************************************************)
(* The request.                                                            *)
(***************************************************************************)
StreamInit ==
    /\ answer = NotGiven /\ phase = "idle" /\ received = 0
    /\ turn = Started /\ returned = NotGiven

Returns(result) ==
    phase' = "done" /\ returned' = Given(result) /\ UNCHANGED answer

chat_stream(a) ==
    /\ phase = "idle"
    /\ phase' = "sending" /\ answer' = Given(a)
    /\ UNCHANGED <<received, turn, returned>>

\* No connection, or it broke before a response came: once more, after a
\* pause.
SendFails ==
    /\ phase = "sending"
    /\ phase' = "retrying"
    /\ UNCHANGED <<answer, received, turn, returned>>

\* A timeout, or the failure of the second attempt.
SendGivesUp ==
    /\ phase \in {"sending", "retrying"}
    /\ Returns(Transport) /\ UNCHANGED <<received, turn>>

Responds ==
    /\ phase \in {"sending", "retrying"}
    /\ phase' = "reading"
    /\ UNCHANGED <<answer, received, turn, returned>>

\* The response has an error status.
Refuses(body) ==
    /\ phase \in {"sending", "retrying"}
    /\ \E kept \in Retained(body) : Returns(ErrorOf(kept, Http))
    /\ UNCHANGED <<received, turn>>

Bytes == 2 * Len(answer[1].lines)

\* A chunk of n bytes, with the lines it completes.
Receive(n) ==
    /\ phase = "reading" /\ received + n <= Bytes
    /\ received' = received + n
    /\ IF received' > MAX_STREAM_RESPONSE_BYTES \/ (received % 2) + n > MAX_PENDING_LINE_BYTES
       THEN Returns(InvalidResponse) /\ UNCHANGED turn
       ELSE LET consume(t, l) == Consume(answer[1], t, l)
            IN  /\ turn' = FoldLeft(consume, turn, Completed(answer[1], received, received'))
                /\ IF turn'.error # NotGiven THEN Returns(turn'.error[1]) ELSE UNCHANGED <<answer, phase, returned>>

\* What is left of a line that was cut: all but its terminator, a beginning
\* that does not parse or, with OpenAI's prefix cut, one that says nothing.
Leftovers(l) ==
    {l, [tag |-> "broken"]} \cup IF answer[1].adapter = "openai" THEN {[tag |-> "comment"]} ELSE {}

\* The stream ends, whether or not the provider has finished.
EndOfStream ==
    /\ phase = "reading"
    /\ IF received % 2 = 0
       THEN turn' = turn
       ELSE \E l \in Leftovers(answer[1].lines[received \div 2 + 1]) : turn' = Consume(answer[1], turn, l)
    /\ Returns(Finished(answer[1], turn')) /\ UNCHANGED received

\* The connection breaks, is silent for STREAM_IDLE_TIMEOUT, or the response
\* has lasted for MAX_STREAM_DURATION.
StreamBreaks ==
    /\ phase = "reading"
    /\ Returns(Transport) /\ UNCHANGED <<received, turn>>

StreamNext ==
    \/ \E a \in StreamAnswers : chat_stream(a)
    \/ SendFails \/ SendGivesUp \/ Responds
    \/ \E body \in ErrorBodies : Refuses(body)
    \/ \E n \in 1..MaxChunk : Receive(n)
    \/ EndOfStream \/ StreamBreaks

StreamSpec == StreamInit /\ [][StreamNext]_streamVars

(***************************************************************************)
(* Correctness.                                                            *)
(***************************************************************************)
\* Calls are handed to the engine only as the provider meant them to run: all
\* of them, in their order, each with all of its arguments, from an answer
\* that the provider finished and did not withdraw, wherever the chunks end
\* and wherever the stream is cut.  What is kept of the text is the beginning
\* of the provider's text.  stream_lines, chat_stream, require_dispatchable.
AnswerIsWhole ==
    \A o \in ToSet(returned) : o.tag = "ok" =>
        /\ o.response.tool_calls # <<>> => o.response.tool_calls = answer[1].meant
        /\ IsPrefix(o.response.content, answer[1].text)
=============================================================================

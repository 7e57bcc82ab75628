----------------------------- MODULE TurnEngine -----------------------------
(***************************************************************************)
(* run_agent_turn_with_budget (engine.rs): turns of an agent on one        *)
(* conversation, with the subagents it delegates to, the budget they share *)
(* (budget.rs), the decision on every tool call (ApprovalRules), the       *)
(* objects that read-only tools open while others change the directory     *)
(* (prepared.rs), shell commands and their processes (tools.rs,            *)
(* process.rs), and the history that is left (History).                    *)
(*                                                                         *)
(* The provider, the human, the clock, the file system, the processes and  *)
(* whoever cancels are free.  The observer's failure to record something   *)
(* is a cancellation.  The working directory holds a name that others may  *)
(* bind to a file, to a link to the sensitive file, or to a link that      *)
(* leads outside, and the sensitive file itself.                           *)
(***************************************************************************)
EXTENDS ApprovalRules, History, SensitivePaths, FiniteSets

CONSTANTS
  Responses,       \* what a provider may answer: [calls, thought, says, cut]
  Setups,          \* [asked, max_approval, limits, rules, sensitive, blocked]: what a
                   \* client asks for and what the host makes of it
  MaxTurns,        \* bound: turns on the conversation
  MaxSwaps,        \* bound: changes of the directory during a call
  MaxAnswers,      \* bound: answers of the provider on the conversation
  MaxStops,        \* bound: cancellations and deadlines that pass
  provider_requests, tool_calls, tool_calls_per_response, auto_continues,   \* max_limits
  LargeResult      \* bytes of a large tool result

\* The two paths, and what the name f may be bound to.
Components(path) == CASE path = "f" -> <<"root", "f">> [] path = "secret" -> <<"root", ".ssh", "id">>
Binding == {"file", "link_secret", "link_outside"}

\* The calls of an answer.  The tools are those a delegation asks for, None
\* when it has no task.  A call without what its tool needs does nothing and is
\* not among them.
ToolCall ==
  {c \in [id: Nat, tool: Tool \cup {"unknown"}, command: {None} \cup Command, path: {"f", "secret", None},
          tools: {"read_only", "inherit", None}] :
     /\ c.command # None <=> c.tool = "run_shell"
     /\ c.path # None <=> c.tool = "read_file"}

ASSUME EngineAssumption ==
  /\ {"f", "secret"} \subseteq Path
  /\ None \notin Path \cup {"outside", "read_only", "inherit", "completed", "cancelled", "exhausted", "failed", "aborted",
                         "stat", "readlink", "open", "opened"}
  /\ {provider_requests, tool_calls, tool_calls_per_response} \subseteq Nat \ {0}
  /\ {auto_continues, MaxTurns, MaxSwaps, MaxAnswers, MaxStops, LargeResult} \subseteq Nat
  /\ {MaxBytes, MinimumBytes, Marker} \subseteq Nat
  /\ \A r \in Responses : r.calls \in Seq(ToolCall) /\ r.thought \in Nat

VARIABLES
  setup,       \* the TurnPolicy
  stack,       \* the agents at work: the root agent and, above it, its subagent
  pc,          \* what the uppermost agent is at
  requests,    \* BudgetInner::provider_requests
  calls,       \* BudgetInner::tool_calls
  expired,     \* whether wall_time has passed
  cancelled,   \* CancellationFlag
  stops,       \* cancellations and deadlines so far
  answers,     \* answers of the provider so far
  turn,        \* number of the turn
  outcome,     \* how the last turn ended, None while a turn runs
  binding,     \* what the name f is bound to while a call reads it
  walk,        \* the preparation of a read-only call
  swaps,       \* changes of the directory during this call
  shell,       \* the process of a shell command: none, running; held (it has exited
               \* and one it started keeps its output open) or closed; left (it was
               \* killed and one that left its group keeps its output open) or gone
  decided,     \* the decision on the current call, and whether a human made it
  acted,       \* ghost: what was done in this turn, in order
  evicted      \* ghost: compaction has removed messages of this turn

world == <<binding, walk, swaps, shell>>
budget == <<requests, calls, expired>>
bounds == <<stops, answers>>
ghosts == <<acted, evicted>>
vars == <<setup, stack, pc, budget, bounds, cancelled, turn, outcome, world, decided, ghosts>>

top == stack[Len(stack)]
IsChild == Len(stack) = 2

NoWalk    == [at |-> None, reached |-> None, object |-> None]
Undecided == [decision |-> None, human |-> FALSE]

\* observed: observed_tool_activity.  seen: the ids of CallIds.  auto, retried,
\* delegations: the counters of the loop.
Frame(history, tools, scope) ==
  [history |-> history, rollback |-> history, response |-> <<>>, ids |-> <<>>, index |-> 1, observed |-> FALSE,
   auto |-> 0, retried |-> FALSE, delegations |-> 0, tools |-> tools, scope |-> scope, seen |-> {}]

Call == top.response[top.index]

ProviderIds(response) == [k \in DOMAIN response |-> response[k].id]

SetTop(frame) == [stack EXCEPT ![Len(stack)] = frame]

-----------------------------------------------------------------------------
(* What a client asks for, bounded by the host (ExecutionCoordinator).     *)

max_limits == [provider_requests |-> provider_requests, tool_calls |-> tool_calls,
               tool_calls_per_response |-> tool_calls_per_response, auto_continues |-> auto_continues]

\* TurnLimits::clamp_to
ClampLimits(l, ceiling) == [k \in DOMAIN ceiling |-> IF l[k] <= ceiling[k] THEN l[k] ELSE ceiling[k]]

\* ApprovalPolicy::clamp_to
permissiveness(m) == CASE m = "off" -> 0 [] m = "ask" -> 1 [] m = "auto" -> 2
ClampMode(m, ceiling) == IF permissiveness(m) <= permissiveness(ceiling) THEN m ELSE ceiling

\* TurnLimits::validate, of a client's limits.
LimitsAreValid(l) == l.provider_requests > 0 /\ l.tool_calls > 0 /\ l.tool_calls_per_response > 0

limits == ClampLimits(setup.limits, max_limits)
mode   == ClampMode(setup.asked, setup.max_approval)

ASSUME SetupAssumption ==
  \A s \in Setups :
    /\ {s.asked, s.max_approval} \subseteq Mode
    /\ s.limits \in [DOMAIN max_limits -> Nat] /\ LimitsAreValid(s.limits)
    /\ s.rules \in [base: Policy, overlay: {None} \cup Policy]

-----------------------------------------------------------------------------
(* Scoped ids of calls (call_id.rs).                                       *)

\* An id is kept at its first occurrence and numbered at the next ones.
Fresh(id, seen) ==
  IF id # 0 /\ <<id, 1>> \notin seen THEN <<id, 1>>
  ELSE <<id, CHOOSE n \in 1..(Cardinality(seen) + 2) :
               /\ <<id, n>> \notin seen
               /\ id # 0 => n > 1
               /\ \A m \in 1..(n - 1) : <<id, m>> \in seen \/ (id # 0 /\ m = 1)>>

\* CallIds::scoped for each call of a response.
Scoped(response, seen) ==
  LET ids[k \in 0..Len(response)] ==
        IF k = 0 THEN <<>>
        ELSE Append(ids[k - 1], Fresh(response[k].id, seen \cup {ids[k - 1][j] : j \in 1..(k - 1)}))
  IN ids[Len(response)]

-----------------------------------------------------------------------------
(* The end of an agent's turn.                                             *)

\* The root agent's turn ends with the history h; a subagent's becomes the
\* result of the call that started it.
Ends(h, how) ==
  IF IsChild
    THEN /\ stack' = <<[stack[1] EXCEPT !.history = Append(@, ToolMessage(stack[1].response[stack[1].index].id, 1, turn))]>>
         /\ pc' = IF how = "aborted" THEN "aborted" ELSE "after"
         /\ UNCHANGED outcome
    ELSE /\ stack' = <<Frame(h, Tool, 0)>>
         /\ pc' = "idle"
         /\ outcome' = how

\* Compaction of the root agent's history to h removes messages of this turn.
Evicts(h) ==
  LET Written(g) == {k \in DOMAIN g : g[k].turn = turn}
  IN ~IsChild /\ Cardinality(Written(h)) < Cardinality(Written(top.history))

FailsWith(h, how) ==
  Ends(preserve_or_rollback(h, top.rollback, top.observed, turn), how)

\* Results for the calls from the k-th on.
AnswersFrom(k, size) == Answers(SubSeq(ProviderIds(top.response), k, Len(top.response)), size, turn)

-----------------------------------------------------------------------------
(* Requests.                                                               *)

\* run_turn: a submitted message starts a turn with a fresh budget.
StartTurn ==
  /\ pc = "idle"
  /\ turn < MaxTurns
  /\ turn' = turn + 1
  /\ LET h == top.history
     IN stack' = <<[Frame(Append(h, UserMessage(turn + 1)), Tool, 0) EXCEPT !.rollback = h]>>
  /\ pc' = "charge"
  /\ requests' = 0 /\ calls' = 0 /\ expired' = FALSE /\ cancelled' = FALSE
  /\ acted' = <<>> /\ evicted' = FALSE
  /\ outcome' = None
  /\ decided' = Undecided
  /\ UNCHANGED <<setup, bounds, world>>

\* charge_provider_request.
MayRequest == ~expired /\ requests < limits.provider_requests

Charge ==
  /\ pc = "charge"
  /\ IF MayRequest
       THEN /\ requests' = requests + 1
            /\ pc' = "provider"
            /\ UNCHANGED <<stack, outcome>>
       ELSE /\ FailsWith(top.history, "exhausted")
            /\ UNCHANGED requests
  /\ UNCHANGED <<setup, bounds, calls, expired, cancelled, turn, world, decided, ghosts>>

\* stage_compaction: what the request is made of.  The history itself stays as
\* it is until the provider has accepted the request.
Staged == compact(top.history)

\* The request of the uppermost agent: staged, with its records at the head.
Request == merge_system_messages(Staged)

\* auto_continue_reason: the model stopped without an answer, or after it
\* announced a next step.  One that was cut off is left alone.
StoppedEarly(r) == r.calls = <<>> /\ ~r.cut /\ r.says \in {"nothing", "announcement"}

\* The provider has accepted the request, and compaction is kept.
Respond(r) ==
  LET h == Append(Staged, AssistantMessage(ProviderIds(r.calls), r.thought, turn))
      ids == Scoped(r.calls, top.seen)
      frame == [top EXCEPT !.history = h, !.response = r.calls, !.ids = ids, !.index = 1,
                           !.seen = @ \cup {ids[k] : k \in DOMAIN ids}]
  IN
  /\ pc = "provider"
  /\ answers < MaxAnswers
  /\ answers' = answers + 1
  /\ CASE r.calls # <<>> ->
            /\ stack' = SetTop(frame)
            /\ pc' = "calls"
            /\ UNCHANGED outcome
       [] StoppedEarly(r) /\ top.auto < limits.auto_continues ->
            /\ stack' = SetTop([frame EXCEPT !.history = Append(h, Nudge(turn)), !.auto = @ + 1])
            /\ pc' = "charge"
            /\ UNCHANGED outcome
       [] OTHER -> Ends(compact(h), "completed")
  /\ evicted' = (evicted \/ Evicts(h) \/ (pc' \notin {"calls", "charge"} /\ Evicts(compact(h))))
  /\ UNCHANGED <<setup, stops, budget, cancelled, turn, world, decided, acted>>

\* ContextOverflow, the first time: the history is shrunk, and so is what a
\* rollback would restore; if nothing can be shrunk, the turn ends.
Overflow ==
  LET h == compact_overflow(top.history)
      dropped == IF top.observed THEN drop_tool_payloads(top.history) ELSE top.history
      kept == preserve_or_rollback(dropped, top.rollback, top.observed, turn)
  IN
  /\ pc = "provider"
  /\ ~top.retried
  /\ IF h # top.history
       THEN /\ stack' = SetTop([top EXCEPT !.history = h, !.rollback = compact_overflow(@), !.retried = TRUE])
            /\ pc' = "charge"
            /\ evicted' = (evicted \/ Evicts(h))
            /\ UNCHANGED outcome
       ELSE /\ Ends(IF top.observed THEN kept ELSE Append(kept, SystemMessage(1, turn)), "failed")
            /\ UNCHANGED evicted
  /\ UNCHANGED <<setup, bounds, budget, cancelled, turn, world, decided, acted>>

\* Any other error of the provider.
ProviderFails ==
  /\ pc = "provider"
  /\ FailsWith(top.history, "failed")
  /\ UNCHANGED <<setup, bounds, budget, cancelled, turn, world, decided, ghosts>>

\* The wait for the provider ends at a cancellation or at the deadline.
ProviderStopped ==
  /\ pc = "provider"
  /\ cancelled \/ expired
  /\ FailsWith(top.history, IF cancelled THEN "cancelled" ELSE "exhausted")
  /\ UNCHANGED <<setup, bounds, budget, cancelled, turn, world, decided, ghosts>>

-----------------------------------------------------------------------------
(* The calls of a response, one after the other.                           *)

\* The calls from the k-th on are answered without being run.
WithAnswers(k) == top.history \o AnswersFrom(k, 1)

\* The turn stops at the k-th call because it was cancelled.
CancelledAt(k) == FailsWith(IF top.observed THEN WithAnswers(k) ELSE top.history, "cancelled")

\* The current call is answered with a result of this size, and is over.
Answered(frame, size) == [frame EXCEPT !.history = Append(@, ToolMessage(Call.id, size, turn))]
Passed(frame)         == [frame EXCEPT !.index = @ + 1]

\* What belonged to the call is dropped with it.
CallOver ==
  /\ binding' = None /\ walk' = NoWalk /\ swaps' = 0 /\ shell' = "none"
  /\ decided' = Undecided

AtCall == pc = "calls" /\ top.index <= Len(top.response)

CallsDone ==
  /\ pc = "calls"
  /\ top.index > Len(top.response)
  /\ pc' = "charge"
  /\ UNCHANGED <<setup, bounds, stack, budget, cancelled, turn, outcome, world, decided, ghosts>>

CallCancelled ==
  /\ AtCall
  /\ cancelled
  /\ CancelledAt(top.index)
  /\ UNCHANGED <<setup, bounds, budget, cancelled, turn, world, decided, ghosts>>

\* A call beyond tool_calls_per_response is refused without a charge.
CallOverLimit ==
  /\ AtCall
  /\ ~cancelled
  /\ top.index > limits.tool_calls_per_response
  /\ stack' = SetTop(Passed(Answered(top, 1)))
  /\ UNCHANGED <<setup, bounds, pc, budget, cancelled, turn, outcome, world, decided, ghosts>>

\* charge_tool_call
MayCall == ~expired /\ calls < limits.tool_calls

CallExhausted ==
  /\ AtCall
  /\ ~cancelled
  /\ top.index <= limits.tool_calls_per_response
  /\ ~MayCall
  /\ FailsWith(WithAnswers(top.index), "exhausted")
  /\ UNCHANGED <<setup, bounds, budget, cancelled, turn, world, decided, ghosts>>

\* The call is charged.  One to a tool that this agent was not given is
\* refused; a read is prepared first.
CallCharged ==
  /\ AtCall
  /\ ~cancelled
  /\ top.index <= limits.tool_calls_per_response
  /\ MayCall
  /\ calls' = calls + 1
  /\ CASE Call.tool \notin top.tools ->
            /\ stack' = SetTop(Passed(Answered(top, 1)))
            /\ UNCHANGED <<pc, walk, binding>>
       [] Call.tool \in top.tools /\ Call.tool # "read_file" ->
            /\ pc' = "decide"
            /\ UNCHANGED <<stack, walk, binding>>
       [] Call.tool \in top.tools /\ Call.tool = "read_file" ->
            /\ pc' = "prepare"
            /\ walk' = [NoWalk EXCEPT !.at = "stat", !.reached = Call.path]
            /\ binding' \in IF Call.path = "f" THEN Binding ELSE {None}
            /\ UNCHANGED stack
  /\ UNCHANGED <<setup, bounds, requests, expired, cancelled, turn, outcome, swaps, shell, decided, ghosts>>

-----------------------------------------------------------------------------
(* The walk to the object of a read (prepared.rs): each name is examined,  *)
(* and then followed or opened without following a link.                   *)

Bound(name) == IF name = "f" THEN binding ELSE "file"

Walks(from, to) ==
  /\ pc = "prepare"
  /\ walk.at = from
  /\ walk' = to
  /\ UNCHANGED <<setup, bounds, stack, pc, budget, cancelled, turn, outcome, binding, swaps, shell, decided, ghosts>>

FailedWalk == [NoWalk EXCEPT !.at = "failed"]

StatAt == Walks("stat", [walk EXCEPT !.at = IF Bound(walk.reached) = "file" THEN "open" ELSE "readlink"])

\* A target outside the root is refused.  The name may have become a file.
ReadLinkAt ==
  Walks("readlink", IF Bound(walk.reached) = "link_secret" THEN [NoWalk EXCEPT !.at = "stat", !.reached = "secret"]
                                                           ELSE FailedWalk)

\* Mutant: the open follows a link that took the place of the file.
Follows(name) == CASE Bound(name) = "file" -> name
                   [] Bound(name) = "link_secret" -> "secret"
                   [] Bound(name) = "link_outside" -> "outside"

\* open_at with O_NOFOLLOW: the file itself, or nothing.
Opens(name) == IF Bound(name) = "file" THEN name ELSE None

\* What the host has blocked is not even opened for a decision.
OpenAt ==
  LET object  == Opens(walk.reached)
      blocked == matches(setup.blocked, Components(walk.reached))
  IN Walks("open", IF object = None \/ blocked THEN FailedWalk
                   ELSE [walk EXCEPT !.at = "opened", !.object = object])

\* The file system does not answer within FILESYSTEM_DEADLINE.
WalkTimesOut ==
  \E at \in {"stat", "readlink", "open"} : Walks(at, FailedWalk)

WalkDone ==
  /\ pc = "prepare"
  /\ walk.at \in {"opened", "failed"}
  /\ pc' = "decide"
  /\ UNCHANGED <<setup, bounds, stack, budget, cancelled, turn, outcome, world, decided, ghosts>>

-----------------------------------------------------------------------------
(* The decision.                                                           *)

CallFacts ==
  LET opened == walk.at = "opened"
      sensitive == opened /\ matches(setup.sensitive, Components(walk.reached))
  IN [tool |-> Call.tool, command |-> Call.command,
      path |-> IF opened THEN walk.reached ELSE None,
      gated |-> Call.tool = "run_shell" \/ sensitive, sensitive |-> sensitive]

Decide ==
  LET d == RulesDecide(setup.rules, CallFacts, mode)
  IN
  /\ pc = "decide"
  /\ pc' = IF d = "prompt" THEN "approve" ELSE "decided"
  /\ decided' = [decision |-> IF d = "run" THEN "approve" ELSE d, human |-> FALSE]
  /\ UNCHANGED <<setup, bounds, stack, budget, cancelled, turn, outcome, world, ghosts>>

\* TurnObserver::approve returns: a human decides, also for a subagent, ...
Human(d) ==
  /\ pc = "approve"
  /\ pc' = "decided"
  /\ decided' = [decision |-> d, human |-> TRUE]
  /\ UNCHANGED <<setup, bounds, stack, budget, cancelled, turn, outcome, world, ghosts>>

\* Mutant: a cancellation does not end the wait for a human.
ApprovalWaits == FALSE /\ Human("abort_turn")

\* ... or a cancellation ends the wait.
ApprovalStopped == cancelled /\ Human("abort_turn")

DecidedCancelled ==
  /\ pc = "decided"
  /\ cancelled
  /\ CancelledAt(top.index)
  /\ CallOver
  /\ UNCHANGED <<setup, bounds, budget, cancelled, turn, ghosts>>

\* AbortTurn: this call and the rest are answered, and the turn is over.
Aborted ==
  /\ pc = "decided"
  /\ ~cancelled
  /\ decided.decision = "abort_turn"
  /\ Ends(WithAnswers(top.index), "aborted")
  /\ CallOver
  /\ UNCHANGED <<setup, bounds, budget, cancelled, turn, ghosts>>

Denied ==
  /\ pc = "decided"
  /\ ~cancelled
  /\ decided.decision = "deny"
  /\ stack' = SetTop(Answered(top, 1))
  /\ pc' = "after"
  /\ CallOver
  /\ UNCHANGED <<setup, bounds, budget, cancelled, turn, outcome, ghosts>>

-----------------------------------------------------------------------------
(* Execution.                                                              *)

Runs == pc = "decided" /\ ~cancelled /\ decided.decision = "approve"

\* What is done in the name of the current call.
Acts ==
  acted' = Append(acted, [scope |-> top.scope, id |-> top.ids[top.index], call |-> Call, object |-> walk.object,
                          facts |-> CallFacts, human |-> decided.human, tools |-> top.tools])

\* execute_prepared on a read: from the object that was opened, or the
\* error of the preparation.
ReadObject ==
  /\ Runs
  /\ Call.tool = "read_file"
  /\ stack' = SetTop([Answered(top, 1) EXCEPT !.observed = TRUE])
  /\ pc' = "after"
  /\ Acts
  /\ CallOver
  /\ UNCHANGED <<setup, bounds, budget, cancelled, turn, outcome, evicted>>

\* run_shell: a process group of its own.
StartShell ==
  /\ Runs
  /\ Call.tool = "run_shell"
  /\ stack' = SetTop([top EXCEPT !.observed = TRUE])
  /\ pc' = "shell"
  /\ shell' = "running"
  /\ Acts
  /\ UNCHANGED <<setup, bounds, budget, cancelled, turn, outcome, binding, walk, swaps, decided, evicted>>

\* The tools a delegation asks for.
Requested(c) == CASE c.tools = "read_only" -> {"read_file"} [] c.tools = "inherit" -> Tool

\* Mutant: a subagent may delegate.
SubagentMayDelegate(c) == Requested(c) \cap top.tools

\* What the subagent is given: never more than its parent has.
SubagentTools(c) == (Requested(c) \cap top.tools) \ {"delegate_task"}

\* run_delegation: a nested turn with a history of its own, the same budget
\* and the same cancellation.  Without a task it is only an error.
Delegate ==
  LET parent == [top EXCEPT !.observed = TRUE, !.delegations = @ + 1]
      prompt == <<SystemMessage(1, turn)>>
      child  == Frame(prompt, SubagentTools(Call), parent.delegations)
  IN
  /\ Runs
  /\ Call.tool = "delegate_task"
  /\ IF Call.tools = None
       THEN /\ stack' = SetTop(Answered(parent, 1))
            /\ pc' = "after"
       ELSE /\ stack' = Append(SetTop(parent), [child EXCEPT !.history = Append(prompt, UserMessage(turn))])
            /\ pc' = "charge"
  /\ Acts
  /\ CallOver
  /\ UNCHANGED <<setup, bounds, budget, cancelled, turn, outcome, evicted>>

\* The command exits.  A process it left behind may keep its output open, and
\* the readers are then awaited without a limit.
ShellExits(held) ==
  /\ pc \in {"shell", "direct"}
  /\ shell = "running"
  /\ shell' = IF held THEN "held" ELSE "closed"
  /\ UNCHANGED <<setup, bounds, stack, pc, budget, cancelled, turn, outcome, binding, walk, swaps, decided, ghosts>>

HolderEnds ==
  /\ pc \in {"shell", "direct"}
  /\ shell \in {"held", "left"}
  /\ shell' = IF shell = "held" THEN "closed" ELSE "gone"
  /\ UNCHANGED <<setup, bounds, stack, pc, budget, cancelled, turn, outcome, binding, walk, swaps, decided, ghosts>>

ShellResult(size) ==
  /\ stack' = SetTop(Answered(top, size))
  /\ pc' = "after"
  /\ CallOver
  /\ UNCHANGED <<setup, bounds, budget, cancelled, turn, outcome, ghosts>>

\* Both pipes are at their end.
ShellOutput(size) == pc = "shell" /\ shell = "closed" /\ ShellResult(size)

\* The cancellation, or the timeout, kills the group of a running command.
\* The sweep reaches a member that was being forked, but not a process that
\* has left the group, and the readers are awaited here too.
ShellKilled(left) ==
  /\ pc \in {"shell", "direct"}
  /\ shell = "running"
  /\ shell' = IF left THEN "left" ELSE "gone"
  /\ UNCHANGED <<setup, bounds, stack, pc, budget, cancelled, turn, outcome, binding, walk, swaps, decided, ghosts>>

\* The error that the kill is reported by.
ShellReaped == pc = "shell" /\ shell = "gone" /\ ShellResult(1)

-----------------------------------------------------------------------------
(* A command that the user types runs as a turn without an agent.          *)

DirectBegins(at) ==
  /\ pc = "idle"
  /\ turn < MaxTurns
  /\ turn' = turn + 1
  /\ pc' = at
  /\ requests' = 0 /\ calls' = 0 /\ expired' = FALSE /\ cancelled' = FALSE
  /\ acted' = <<>> /\ evicted' = FALSE
  /\ UNCHANGED <<setup, bounds, stack, binding, walk, swaps, decided>>

\* Nothing, or a cd without an operator of the shell: no process is started.
\* The directory it leads to may be refused.
DirectCaptured ==
  /\ DirectBegins("idle")
  /\ outcome' \in {"completed", "failed"}
  /\ UNCHANGED shell

DirectStarts == DirectBegins("direct") /\ shell' = "running" /\ outcome' = None

DirectDone ==
  /\ pc = "direct"
  /\ shell \in {"closed", "gone"}
  /\ outcome' = CASE shell = "closed" -> "completed"
                   [] shell = "gone"   -> IF cancelled THEN "cancelled" ELSE "failed"
  /\ pc' = "idle"
  /\ shell' = "none"
  /\ UNCHANGED <<setup, bounds, stack, budget, cancelled, turn, binding, walk, swaps, decided, ghosts>>

-----------------------------------------------------------------------------
(* After a call.                                                           *)

\* The user aborted the subagent: this turn is over too.
SubagentAborted ==
  /\ pc = "aborted"
  /\ Ends(WithAnswers(top.index + 1), "aborted")
  /\ UNCHANGED <<setup, bounds, budget, cancelled, turn, world, decided, ghosts>>

AfterCall ==
  /\ pc = "after"
  /\ IF cancelled
       THEN FailsWith(WithAnswers(top.index + 1), "cancelled")
       ELSE /\ stack' = SetTop(Passed(top))
            /\ pc' = "calls"
            /\ UNCHANGED outcome
  /\ UNCHANGED <<setup, bounds, budget, cancelled, turn, world, decided, ghosts>>

-----------------------------------------------------------------------------
(* What happens to a turn.                                                 *)

\* CancellationFlag::cancel, by a client or by an observer that cannot record.
Cancel ==
  /\ pc # "idle"
  /\ ~cancelled
  /\ stops < MaxStops
  /\ cancelled' = TRUE
  /\ stops' = stops + 1
  /\ UNCHANGED <<setup, answers, stack, pc, requests, calls, expired, turn, outcome, world, decided, ghosts>>

\* wall_time passes.
Expire ==
  /\ pc # "idle"
  /\ ~expired
  /\ stops < MaxStops
  /\ expired' = TRUE
  /\ stops' = stops + 1
  /\ UNCHANGED <<setup, answers, stack, pc, requests, calls, cancelled, turn, outcome, world, decided, ghosts>>

\* Another process changes what the name is bound to while a read is under way.
Swap(b) ==
  /\ pc \in {"prepare", "decide", "approve", "decided"}
  /\ binding # None
  /\ swaps < MaxSwaps
  /\ b # binding
  /\ binding' = b
  /\ swaps' = swaps + 1
  /\ UNCHANGED <<setup, bounds, stack, pc, budget, cancelled, turn, outcome, walk, shell, decided, ghosts>>

-----------------------------------------------------------------------------

Init ==
  /\ setup \in Setups
  /\ stack = <<Frame(<<SystemMessage(1, 0)>>, Tool, 0)>>
  /\ pc = "idle"
  /\ requests = 0 /\ calls = 0 /\ expired = FALSE /\ cancelled = FALSE
  /\ stops = 0 /\ answers = 0 /\ turn = 0 /\ outcome = "completed"
  /\ binding = None
  /\ walk = NoWalk /\ swaps = 0 /\ shell = "none"
  /\ decided = Undecided
  /\ acted = <<>> /\ evicted = FALSE

\* The steps the engine takes by itself; a timer's end is one of them.
Engine ==
  \/ Charge \/ ProviderStopped
  \/ CallsDone \/ CallCancelled \/ CallOverLimit \/ CallExhausted \/ CallCharged
  \/ StatAt \/ ReadLinkAt \/ OpenAt \/ WalkTimesOut \/ WalkDone
  \/ Decide \/ ApprovalStopped \/ DecidedCancelled \/ Aborted \/ Denied
  \/ ReadObject \/ StartShell \/ Delegate \/ ShellReaped \/ DirectDone
  \/ \E left \in BOOLEAN : ShellKilled(left)
  \/ \E size \in {1, LargeResult} : ShellOutput(size)
  \/ SubagentAborted \/ AfterCall

\* The provider, the human, the processes, the clock and the others.
Environment ==
  \/ StartTurn \/ DirectCaptured \/ DirectStarts
  \/ \E r \in Responses : Respond(r)
  \/ Overflow \/ ProviderFails
  \/ \E d \in {"approve", "deny", "abort_turn"} : Human(d)
  \/ \E held \in BOOLEAN : ShellExits(held)
  \/ HolderEnds
  \/ Cancel \/ Expire
  \/ \E b \in Binding : Swap(b)

Next == Engine \/ Environment

TurnSpec == Init /\ [][Next]_vars

\* The runtime takes every step of the engine that stays possible.  Nothing
\* is assumed of the provider, the human or the processes.
FairTurnSpec == TurnSpec /\ WF_vars(Engine)

-----------------------------------------------------------------------------

FrameOK(f) ==
  /\ f.index \in 1..(Len(f.response) + 1)
  /\ Len(f.ids) = Len(f.response)
  /\ f.tools \subseteq Tool
  /\ f.auto \in 0..auto_continues
  /\ \A k \in DOMAIN f.history : f.history[k].role \in {"system", "user", "assistant", "tool"}

\* The state is well typed.  An agent and its subagents together never spend
\* more than the host allows a turn, whatever the client asked for, and a subagent has no subagents
\* (TurnBudget, run_delegation).
EngineTypeOK ==
  /\ setup \in Setups
  /\ Len(stack) \in 1..2
  /\ \A k \in DOMAIN stack : FrameOK(stack[k])
  /\ pc \in {"idle", "charge", "provider", "calls", "prepare", "decide", "approve", "decided", "shell", "direct", "after", "aborted"}
  /\ pc = "idle" => Len(stack) = 1
  /\ requests \in 0..provider_requests
  /\ calls \in 0..tool_calls
  /\ stops \in 0..MaxStops /\ answers \in 0..MaxAnswers
  /\ {expired, cancelled, evicted} \subseteq BOOLEAN
  /\ outcome \in {"completed", "cancelled", "exhausted", "failed", "aborted", None}
  /\ (pc = "idle") = (outcome # None)
  /\ binding \in Binding \cup {None}
  /\ walk.at \in {None, "stat", "readlink", "open", "opened", "failed"}
  /\ shell \in {"none", "running", "held", "closed", "left", "gone"}
  /\ (shell # "none") = (pc \in {"shell", "direct"})
  /\ Len(acted) <= tool_calls

\* Whatever earlier turns were compacted, cancelled, cut off by the budget or
\* aborted half way through a batch of calls, the next request is one that a
\* provider accepts (compaction.rs, stub_unfinished_tool_calls,
\* merge_system_messages, preserve_or_rollback_failed_turn).
RequestIsWellFormed == pc = "provider" => WellFormed(Request)

RootActs == {k \in DOMAIN acted : acted[k].scope = 0}

\* h records the call a of this turn together with its result.
Records(h, a) ==
  \E k \in DOMAIN h : \E j \in DOMAIN h[k].calls :
    /\ h[k].turn = turn
    /\ h[k].calls[j] = a.id[1]
    /\ k + j \in DOMAIN h
    /\ h[k + j].role = "tool"

\* However a turn ends, what it did stays in the conversation: every call that
\* ran is on record with its result, unless compaction has removed that part
\* of the turn; and a turn that failed before it did anything leaves no prompt
\* and no answer behind (preserve_or_rollback_failed_turn).
EffectsAreKept ==
  pc = "idle" =>
    /\ evicted \/ \A k \in RootActs : Records(top.history, acted[k])
    /\ outcome \in {"failed", "cancelled", "exhausted"} /\ RootActs = {} /\ turn > 0 =>
         \A k \in DOMAIN top.history : top.history[k].turn = turn => top.history[k].role = "system"

\* The host's policy always allows the tool, or lists what it is called with.
HostAllows(tool, pattern) ==
  LET list == setup.rules.base.always_allowed
  IN \E k \in DOMAIN list : list[k].tool = tool /\ list[k].pattern \in {pattern, None}

HostNames(path) ==
  LET list == setup.rules.base.always_allowed
  IN \E k \in DOMAIN list : list[k].kind = "path" /\ list[k].pattern = path

\* Without a human only where client and host both say auto or the host has
\* listed it, and not at all where either says off.
Authorized(a, listed) ==
  /\ "off" \notin {setup.asked, setup.max_approval}
  /\ a.human \/ {setup.asked, setup.max_approval} = {"auto"} \/ listed

\* Whatever the model asks for, whatever the directory becomes meanwhile, and
\* whichever agent asks: no agent uses a tool it was not given; what a rule
\* forbids is not done, except by a human's decision on a command that could
\* not be read; a shell command runs, and what counts as sensitive is read,
\* only with such authority; nothing outside the root or blocked is read, and
\* what is read is what the decision was about; and no two actions of a turn
\* share an id (engine.rs, policy.rs, prepared.rs, call_id.rs).
ActedIsAuthorized ==
  \A k \in DOMAIN acted :
    LET a == acted[k] IN
    /\ a.call.tool \in a.tools
    /\ a.scope # 0 => a.call.tool # "delegate_task"
    /\ Forbidden(setup.rules, a.facts) => a.human /\ a.call.command # None /\ ~a.call.command.checked
    /\ a.call.tool = "run_shell" => Authorized(a, \A w \in a.call.command.runs : HostAllows("run_shell", w))
    /\ a.object # "outside" /\ a.object = a.facts.path
    /\ a.object # None =>
         /\ ~matches(setup.blocked, Components(a.object))
         /\ matches(setup.sensitive, Components(a.object)) => Authorized(a, HostNames(a.object))
    /\ \A j \in DOMAIN acted : j # k => <<a.scope, a.id>> # <<acted[j].scope, acted[j].id>>

OutputIsHeld == shell \in {"held", "left"}

\* A turn that is cancelled ends, whatever it waits for, and so does one whose
\* time is over unless it waits for a human, with one exception: a process
\* that a command left behind keeps the command's output open
\* (CancellationFlag, TurnBudget, run_shell, run_direct_shell).
TurnEnds ==
  /\ (cancelled /\ pc # "idle") ~> (pc = "idle" \/ OutputIsHeld)
  /\ (expired /\ pc # "idle") ~> (pc = "idle" \/ OutputIsHeld \/ pc = "approve")

=============================================================================

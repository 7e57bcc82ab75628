--------------------------- MODULE ClientSession ---------------------------
(***************************************************************************)
(* An interactive client among the sessions of several hosts: what         *)
(* SessionRuntime (session.rs) caches of them, the conversation the        *)
(* client works on, and the loop of main.rs that reads commands, follows   *)
(* turns and terminal jobs, moves between sessions and pushes its          *)
(* conversation to the daemon with sync().                                 *)
(*                                                                         *)
(* Every request is a step of its own.  Of a daemon there is what its      *)
(* answers depend on: who controls a session, what runs in it, and its     *)
(* conversation, which is the set of the turns it records and the model    *)
(* it is with.  How a turn and a job are followed is in TurnFollow and     *)
(* TerminalStream, and how a daemon handles a request in SessionDaemon.    *)
(***************************************************************************)
EXTENDS Naturals, Sequences, FiniteSets, SequencesExt

CONSTANTS
  Session,      \* session ids
  Host,         \* hosts that run xshelld
  Home,         \* the client's own host
  MaxSubmitted, \* bound: turns the client submits
  MaxEvents,    \* bound: terminal jobs started and connections lost
  Nil

ASSUME ClientAssumption ==
  /\ Home \in Host
  /\ {MaxSubmitted, MaxEvents} \subseteq Nat
  /\ IsFiniteSet(Session)
  /\ Nil \notin Session \cup Host \cup Nat \cup {"me", "other"}

VARIABLES
  hosted,            \* the sessions, as their daemons have them
  task,              \* the turns the client has submitted
  attached_session,  \* of the client's connection to each host
  conn,              \* that connection: none, open, or lost
  spent,             \* how many jobs were started and connections lost so far
  rt,                \* SessionRuntime, and the conversation of the main loop
  at                 \* where the main loop is

hosts == <<hosted, task, attached_session, conn, spent>>
clientVars == <<hosts, rt, at>>

\* What runs in a session: nothing, a turn, or a terminal job.
Idle == 0
Turn == 1..MaxSubmitted
ShellJob == MaxSubmitted + 1

\* host: where the session was created.
Hosted == [status: {"unborn", "open", "closed"}, host: Host \cup {Nil}, controller: {"me", "other", Nil},
           activity: 0..ShellJob, turns: SUBSET Turn, model: {0, 1}]

\* recorded: the daemon has added it to the session's conversation.
\* History, for the properties: cleared, the user has switched the model since,
\* which clears the conversation; dismissed, the client has noted that nothing
\* runs without taking the turn's conversation; displaced, the conversation of
\* another session was pushed over it.
Task == [session: Session \cup {Nil}, outcome: {"none", "running", "completed", "failed"},
         recorded: BOOLEAN, cleared: BOOLEAN, dismissed: BOOLEAN, displaced: BOOLEAN]

NoTask == [session |-> Nil, outcome |-> "none", recorded |-> FALSE, cleared |-> FALSE,
           dismissed |-> FALSE, displaced |-> FALSE]

\* of: the session it was taken from, which the code does not keep.
Conversation == [turns: SUBSET Turn, model: {0, 1}, of: Session \cup {Nil}]

Runtime == [connection: Host \cup {Nil}, parked: SUBSET Host, active: Session \cup {Nil},
            activity: 0..ShellJob, navigation_history: Seq(Session), local: Conversation]

NoRuntime == [connection |-> Nil, parked |-> {}, active |-> Nil, activity |-> Idle,
              navigation_history |-> <<>>, local |-> [turns |-> {}, model |-> 0, of |-> Nil]]

\* then: what follows sync().  back: what follows resume_active_session().
\* from: what stop_current_activity() or the focus loop was called by.
\* was: the session when the focus loop was entered.  choice: a session of the
\* catalog, and whether it had a job there.  rest: the fallbacks left to try.
Pc == {"gone", "top", "prompt", "sync", "push", "switch", "create", "connect", "close", "fallback",
       "detach", "leave", "resume", "follow", "stop", "stop_acts", "attach", "focus", "focus_switch",
       "focus_over"}

At == [pc: Pc, then: Pc \cup {Nil}, back: Pc \cup {Nil}, from: Pc \cup {Nil}, ok: BOOLEAN,
       was: Session \cup {Nil}, watched: Turn \cup {Nil},
       choice: [session: Session \cup {Nil}, job: BOOLEAN], rest: Seq(Session)]

NoChoice == [session |-> Nil, job |-> FALSE]

NowAt(pc) == [pc |-> pc, then |-> Nil, back |-> Nil, from |-> Nil, ok |-> TRUE, was |-> Nil,
              watched |-> Nil, choice |-> NoChoice, rest |-> <<>>]

\* The end of a command that does not continue: sync(), and the next prompt.
AtEnd == [NowAt("sync") EXCEPT !.then = "top"]

-----------------------------------------------------------------------------
(* Requests.                                                               *)

Connected == conn[rt.connection] = "open"

\* require_current.
Current == Connected /\ attached_session[rt.connection] = rt.active

Now == hosted[rt.active].activity

\* The client takes the turn it has noted for over, and its conversation stays.
Dismissed == [t \in Turn |-> [task[t] EXCEPT !.dismissed = @ \/ (rt.activity = t /\ Now # t)]]

\* A connection attaches to s and lets go of the session it had.
Attaches(s) ==
  LET h == hosted[s].host IN
  /\ hosted' = [x \in Session |->
       IF x = s THEN [hosted[x] EXCEPT !.controller = "me"]
       ELSE IF x = attached_session[h] THEN [hosted[x] EXCEPT !.controller = Nil]
       ELSE hosted[x]]
  /\ attached_session' = [attached_session EXCEPT ![h] = s]

Attachable(s) == hosted[s].status = "open" /\ hosted[s].controller # "other"

Snapshot(s) == [turns |-> hosted[s].turns, model |-> hosted[s].model, of |-> s]

\* restore_session_state: the session's binding is one that a client wrote.
Restored(s) == Snapshot(s)

\* list() drops the parked connections that do not answer.  The refresh of the
\* completions, after most commands, lists too.
Listed == {h \in rt.parked : conn[h] = "open"}
Refreshed(r) == [r EXCEPT !.parked = {h \in @ : conn[h] = "open"}]

Reachable(s) ==
  /\ hosted[s].status = "open"
  /\ hosted[s].host \in Listed \cup {rt.connection} /\ conn[hosted[s].host] = "open"

\* navigation_history is only read from its end and without repetitions, so an
\* id that is pushed again is moved.
Pushed(history, s) == IF s = Nil THEN history ELSE Append(RemoveFirst(history, s), s)

\* Mutant: the connection of the destination's host stays parked.
SwitchedInPlace(s) ==
  [rt EXCEPT !.parked = Listed, !.active = s, !.activity = hosted[s].activity,
             !.navigation_history = IF rt.active = s THEN @ ELSE Pushed(@, rt.active)]

\* SessionRuntime::switch, when the daemon has let the client in.
Switched(s) ==
  [rt EXCEPT !.connection = hosted[s].host,
             !.parked = (Listed \cup {rt.connection}) \ {hosted[s].host},
             !.active = s,
             !.activity = hosted[s].activity,
             !.navigation_history = IF rt.active = s THEN @ ELSE Pushed(@, rt.active)]

\* create, and create_sibling with the model of the session it is beside.
Created(s, model) ==
  [rt EXCEPT !.active = s, !.activity = Idle, !.navigation_history = Pushed(@, rt.active),
             !.local = [turns |-> {}, model |-> model, of |-> s]]

SwitchTo(s) ==
  /\ Attachable(s) /\ Reachable(s)
  /\ Attaches(s)
  /\ UNCHANGED <<task, conn, spent>>

\* A session that does not exist yet is created on host h, and attached.
Creates(s, h, model) ==
  /\ hosted[s].status = "unborn"
  /\ hosted' = [x \in Session |->
       IF x = s THEN [hosted[x] EXCEPT !.status = "open", !.host = h, !.controller = "me", !.model = model]
       ELSE IF x = attached_session[h] THEN [hosted[x] EXCEPT !.controller = Nil]
       ELSE hosted[x]]
  /\ attached_session' = [attached_session EXCEPT ![h] = s]

CreateNew(s, model) ==
  /\ Current
  /\ Creates(s, rt.connection, model)
  /\ UNCHANGED <<task, conn, spent>>

SiblingModel == hosted[rt.active].model

\* The process ends: every connection of its own is closed.
Ends ==
  /\ rt' = NoRuntime
  /\ at' = NowAt("gone")
  /\ hosted' = [s \in Session |-> IF hosted[s].controller = "me" THEN [hosted[s] EXCEPT !.controller = Nil] ELSE hosted[s]]
  /\ attached_session' = [h \in Host |-> Nil]
  /\ conn' = [h \in Host |-> "none"]
  /\ UNCHANGED <<task, spent>>

Goes(next) == at' = next /\ UNCHANGED <<rt, hosts>>

-----------------------------------------------------------------------------
(* The main loop.                                                          *)

\* SessionRuntime::start, and the first resume_active_session.
StartClient(s) ==
  /\ at.pc = "gone"
  /\ Creates(s, Home, 0) \/ (hosted[s].host = Home /\ Attachable(s) /\ Attaches(s))
  /\ conn' = [conn EXCEPT ![Home] = "open"]
  /\ rt' = [NoRuntime EXCEPT !.connection = Home, !.active = s, !.activity = hosted[s].activity,
                             !.local = Restored(s)]
  /\ at' = [NowAt("resume") EXCEPT !.back = "leave"]
  /\ UNCHANGED <<task, spent>>

\* take_finished_turn: a turn that was left running has ended.
TakeFinishedTurn ==
  /\ at.pc = "top"
  /\ at' = NowAt("prompt")
  /\ rt' = IF rt.activity \in Turn /\ Current
             THEN [rt EXCEPT !.activity = Now, !.local = IF Now \in Turn THEN @ ELSE Restored(rt.active)]
             ELSE rt
  /\ UNCHANGED hosts

AtPrompt == at.pc = "prompt"

\* An agent's turn, or a command that is captured.
Submit(t) ==
  /\ AtPrompt
  /\ task[t] = NoTask /\ \A u \in 1..(t - 1) : task[u] # NoTask
  /\ rt.activity # ShellJob
  /\ IF Current /\ Now = Idle
       THEN /\ task' = [Dismissed EXCEPT ![t] = [NoTask EXCEPT !.session = rt.active, !.outcome = "running"]]
            /\ hosted' = [hosted EXCEPT ![rt.active].activity = t]
            /\ rt' = [rt EXCEPT !.activity = t]
            /\ at' = [NowAt("resume") EXCEPT !.back = "top"]
            /\ UNCHANGED <<attached_session, conn, spent>>
       ELSE Goes(NowAt("top"))

\* run_session_pty, which is followed by a look at the session.
ShellCommand ==
  /\ AtPrompt
  /\ rt.activity # ShellJob
  /\ spent < MaxEvents
  /\ IF Current /\ Now = Idle
       THEN /\ hosted' = [hosted EXCEPT ![rt.active].activity = ShellJob]
            /\ spent' = spent + 1
            /\ rt' = [rt EXCEPT !.activity = ShellJob]
            /\ at' = [NowAt("focus") EXCEPT !.from = "prompt", !.was = rt.active]
            /\ task' = Dismissed
            /\ UNCHANGED <<attached_session, conn>>
       ELSE Goes([NowAt("focus_over") EXCEPT !.from = "prompt", !.was = rt.active, !.ok = FALSE])

\* //model: the conversation is cleared.
ModelCommand ==
  /\ AtPrompt
  /\ rt.local.model = 0
  /\ rt' = [rt EXCEPT !.local.turns = {}, !.local.model = 1]
  /\ task' = [t \in Turn |-> [task[t] EXCEPT !.cleared = @ \/ task[t].session \in {rt.active, rt.local.of}]]
  /\ at' = AtEnd
  /\ UNCHANGED <<hosted, attached_session, conn, spent>>

\* //sessions, and the commands that touch no session.
OtherCommand ==
  /\ AtPrompt
  /\ rt' \in {rt, Refreshed(rt)}
  /\ at' = AtEnd
  /\ UNCHANGED hosts

\* An interrupt, an escape key that moves nowhere, or a command that is misused.
NoCommand == AtPrompt /\ Goes(NowAt("top"))

\* //switch, //new, //connect, //close, //detach, //quit and the end of input.
SyncedCommand(then) == AtPrompt /\ Goes([NowAt("sync") EXCEPT !.then = then])

ResumeCommand == AtPrompt /\ Goes([NowAt("resume") EXCEPT !.back = "sync"])

\* //stop, or the escape key at the prompt, which does not end in sync().
StopAsked(back) == AtPrompt /\ Goes([NowAt("stop") EXCEPT !.from = back])

\* The escape keys at the prompt: another session, or a new one, without sync().
PromptSwitches(s) ==
  /\ AtPrompt
  /\ SwitchTo(s)
  /\ rt' = Refreshed([Switched(s) EXCEPT !.local = Restored(s)])
  /\ at' = [NowAt("resume") EXCEPT !.back = "leave"]

PromptCreates(s) ==
  /\ AtPrompt
  /\ CreateNew(s, SiblingModel)
  /\ rt' = Refreshed(Created(s, SiblingModel))
  /\ at' = [NowAt("resume") EXCEPT !.back = "leave"]

-----------------------------------------------------------------------------
(* sync().                                                                 *)

SyncReturns(ok) ==
  at' = IF ok THEN NowAt(at.then)
        ELSE IF at.then \in {"switch", "create"} THEN AtEnd
        ELSE IF at.then \in {"connect", "top"} THEN NowAt("top")
        ELSE NowAt("leave")

Unchanged == rt.local.turns = hosted[rt.active].turns /\ rt.local.model = hosted[rt.active].model

\* Mutant: a turn that has ended meanwhile does not keep the client from pushing.
SyncLooksAndPushes ==
  /\ at.pc = "sync" /\ rt.activity # Idle /\ Current
  /\ rt' = [rt EXCEPT !.activity = Now]
  /\ at' = [at EXCEPT !.pc = "push"]
  /\ UNCHANGED hosts

\* A turn or a job was running when the client last looked.  After a turn the
\* conversation is not pushed, whether or not it has ended.
SyncLooks ==
  /\ at.pc = "sync" /\ rt.activity # Idle /\ Current
  /\ IF rt.activity \in Turn
       THEN /\ rt' = IF Now \in Turn THEN [rt EXCEPT !.activity = Now] ELSE rt
            /\ SyncReturns(Now \in Turn => rt.local.model = hosted[rt.active].model)
       ELSE /\ rt' = [rt EXCEPT !.activity = Now]
            /\ IF Now = ShellJob THEN SyncReturns(Unchanged) ELSE at' = [at EXCEPT !.pc = "push"]
  /\ UNCHANGED hosts

\* The update request, which the daemon refuses while something runs.
SyncPushes ==
  /\ at.pc = "push" \/ (at.pc = "sync" /\ rt.activity = Idle)
  /\ Current
  /\ IF Now = Idle
       THEN /\ hosted' = [hosted EXCEPT ![rt.active].turns = rt.local.turns,
                                        ![rt.active].model = rt.local.model]
            /\ task' = [t \in Turn |->
                 [task[t] EXCEPT !.displaced = @ \/ (task[t].session = rt.active /\ rt.local.of # rt.active)]]
            /\ rt' = [rt EXCEPT !.activity = Idle]
            /\ SyncReturns(TRUE)
            /\ UNCHANGED <<attached_session, conn, spent>>
       ELSE /\ rt' = IF Now = ShellJob /\ Unchanged THEN [rt EXCEPT !.activity = ShellJob] ELSE rt
            /\ SyncReturns(Now = ShellJob /\ Unchanged)
            /\ UNCHANGED hosts

SyncFails ==
  /\ at.pc \in {"sync", "push"} /\ ~Current
  /\ SyncReturns(FALSE)
  /\ UNCHANGED <<rt, hosts>>

-----------------------------------------------------------------------------
(* What follows sync() in //switch, //new, //connect, //close and //detach. *)

SwitchCommand(s) ==
  /\ at.pc = "switch"
  /\ SwitchTo(s)
  /\ rt' = Refreshed([Switched(s) EXCEPT !.local = Restored(s)])
  /\ at' = [NowAt("resume") EXCEPT !.back = "sync"]

CreateCommand(s) ==
  /\ at.pc = "create"
  /\ CreateNew(s, rt.local.model)
  /\ rt' = Refreshed(Created(s, rt.local.model))
  /\ at' = AtEnd

\* connect_ssh: a host that is connected already is refused.
ConnectCommand(s, h) ==
  /\ at.pc = "connect"
  /\ h \notin rt.parked \cup {rt.connection}
  /\ \/ /\ Creates(s, h, rt.local.model)
        /\ rt' = [Refreshed([Created(s, rt.local.model) EXCEPT !.parked = @ \cup {rt.connection}]) EXCEPT !.connection = h]
     \/ /\ hosted[s].host = h /\ Attachable(s) /\ Attaches(s)
        /\ rt' = [Refreshed(Switched(s)) EXCEPT !.local = Restored(s)]
  /\ conn' = [conn EXCEPT ![h] = "open"]
  /\ at' = AtEnd
  /\ UNCHANGED <<task, spent>>

\* There is no such session, somebody else has it, or the host is not there.
CommandRefused ==
  /\ at.pc \in {"switch", "create", "connect"}
  /\ rt' = IF at.pc = "switch" THEN Refreshed(rt) ELSE rt
  /\ at' = AtEnd
  /\ UNCHANGED hosts

DetachCommand == at.pc = "detach" /\ IF Connected THEN Ends ELSE Goes(NowAt("top"))

\* //quit and the end of input, after their sync(), or an error that main returns.
Leave == at.pc = "leave" /\ Ends

\* A closed session takes its turn and its job with it.
Closes(s) ==
  /\ hosted' = [hosted EXCEPT ![s] = [@ EXCEPT !.status = "closed", !.controller = Nil, !.activity = Idle]]
  /\ task' = [t \in Turn |-> IF task[t].session = s /\ task[t].outcome = "running"
                               THEN [task[t] EXCEPT !.outcome = "failed"] ELSE task[t]]

\* fallback_candidates: where the client has been, latest first, and then the
\* sessions nobody controls, in an order of their own.
FallbackCandidates(history, id) ==
  LET idle == {s \in Session : s # id /\ Reachable(s) /\ hosted[s].controller = Nil /\ s \notin ToSet(history)}
  IN {Reverse(history) \o order : order \in SetToSeqs(idle)}

\* The request closes the session that the connection is attached to.
CloseCommand ==
  /\ at.pc = "close"
  /\ LET history == RemoveFirst(rt.navigation_history, rt.active) IN
     IF Connected
       THEN /\ Closes(attached_session[rt.connection])
            /\ attached_session' = [attached_session EXCEPT ![rt.connection] = Nil]
            /\ rt' = Refreshed([rt EXCEPT !.active = Nil, !.activity = Idle, !.navigation_history = history])
            /\ \E rest \in FallbackCandidates(history, rt.active) :
                 at' = [NowAt("fallback") EXCEPT !.rest = rest]
            /\ UNCHANGED <<conn, spent>>
       ELSE rt' = Refreshed(rt) /\ at' = NowAt("top") /\ UNCHANGED hosts

Fallback ==
  /\ at.pc = "fallback"
  /\ IF at.rest = <<>> THEN Ends
     ELSE LET s == Head(at.rest) IN
          IF Attachable(s) /\ Reachable(s)
            THEN /\ SwitchTo(s)
                 /\ rt' = Refreshed([Switched(s) EXCEPT !.local = Restored(s),
                                                        !.navigation_history = RemoveFirst(@, s)])
                 /\ at' = AtEnd
            ELSE rt' = Refreshed(rt) /\ at' = [at EXCEPT !.rest = Tail(@)] /\ UNCHANGED hosts

-----------------------------------------------------------------------------
(* resume_active_session, and follow_daemon_turn within it.                *)

ResumeReturns(ok) ==
  at' = IF at.back = "sync" THEN AtEnd
        ELSE IF at.back = "leave" /\ ~ok THEN NowAt("leave")
        ELSE NowAt("top")

ResumeFollows ==
  /\ at.pc = "resume" /\ rt.activity \in Turn
  /\ Goes([at EXCEPT !.pc = "follow", !.watched = rt.activity])

\* active_interactive_running.
ResumeLooks ==
  /\ at.pc = "resume" /\ rt.activity \notin Turn
  /\ IF ~Current THEN rt' = rt /\ ResumeReturns(FALSE)
     ELSE /\ rt' = [rt EXCEPT !.activity = Now]
          /\ IF Now = ShellJob THEN at' = [at EXCEPT !.pc = "attach", !.from = "resume", !.was = rt.active]
             ELSE ResumeReturns(TRUE)
  /\ UNCHANGED hosts

\* The conversation is taken over from a turn that has completed.  Of one that
\* has failed or was cancelled the client only learns that it is over.
FollowEnds ==
  /\ at.pc = "follow" /\ Current
  /\ task[at.watched].outcome # "running"
  /\ IF task[at.watched].outcome = "completed"
       THEN rt' = Refreshed([rt EXCEPT !.activity = Now, !.local = Restored(rt.active)]) /\ ResumeReturns(TRUE)
       ELSE rt' = [rt EXCEPT !.activity = Idle] /\ ResumeReturns(FALSE)
  /\ task' = IF task[at.watched].outcome = "completed" THEN task ELSE [task EXCEPT ![at.watched].dismissed = TRUE]
  /\ UNCHANGED <<hosted, attached_session, conn, spent>>

FollowLost == at.pc = "follow" /\ ~Current /\ ResumeReturns(FALSE) /\ UNCHANGED <<rt, hosts>>

FollowDetaches == at.pc = "follow" /\ ResumeReturns(TRUE) /\ UNCHANGED <<rt, hosts>>

FollowStops == at.pc = "follow" /\ Goes([at EXCEPT !.pc = "stop", !.from = "follow"])

FollowSwitches(s) ==
  /\ at.pc = "follow"
  /\ SwitchTo(s)
  /\ rt' = Refreshed([Switched(s) EXCEPT !.local = Restored(s)])
  /\ at' = [at EXCEPT !.pc = "resume", !.watched = Nil]

FollowCreates(s) ==
  /\ at.pc = "follow"
  /\ CreateNew(s, SiblingModel)
  /\ rt' = Refreshed(Created(s, SiblingModel))
  /\ at' = [at EXCEPT !.pc = "resume", !.watched = Nil]

FollowCannotSwitch == at.pc = "follow" /\ rt' = Refreshed(rt) /\ ResumeReturns(FALSE) /\ UNCHANGED hosts

-----------------------------------------------------------------------------
(* stop_current_activity: a look, and then a request.                      *)

StopReturns(ok) ==
  IF at.from = "sync" THEN at' = AtEnd
  ELSE IF at.from = "top" THEN at' = NowAt("top")
  ELSE IF ok THEN at' = [at EXCEPT !.pc = "follow", !.from = Nil]
  ELSE ResumeReturns(FALSE)

StopLooks ==
  /\ at.pc = "stop"
  /\ rt' = IF Current THEN [rt EXCEPT !.activity = Now] ELSE rt
  /\ IF Current /\ Now # Idle THEN at' = [at EXCEPT !.pc = "stop_acts"] ELSE StopReturns(FALSE)
  /\ task' = IF Current THEN Dismissed ELSE task
  /\ UNCHANGED <<hosted, attached_session, conn, spent>>

StopActs ==
  /\ at.pc = "stop_acts"
  /\ IF Current /\ Now = rt.activity
       THEN /\ hosted' = IF Now = ShellJob THEN [hosted EXCEPT ![rt.active].activity = Idle] ELSE hosted
            /\ task' = IF Now = ShellJob THEN task ELSE [task EXCEPT ![Now].dismissed = TRUE]
            /\ rt' = [rt EXCEPT !.activity = Idle]
            /\ StopReturns(TRUE)
            /\ UNCHANGED <<attached_session, conn, spent>>
       ELSE rt' = rt /\ StopReturns(FALSE) /\ UNCHANGED hosts

-----------------------------------------------------------------------------
(* run_pty_focus_loop.                                                     *)

FocusReturns(ok) == at' = [at EXCEPT !.pc = "focus_over", !.ok = ok, !.choice = NoChoice]

\* pty_attach_stream.
FocusAttaches ==
  /\ at.pc = "attach"
  /\ rt' = IF Current THEN [rt EXCEPT !.activity = Now] ELSE rt
  /\ IF Current /\ Now = ShellJob THEN at' = [at EXCEPT !.pc = "focus", !.choice = NoChoice] ELSE FocusReturns(FALSE)
  /\ UNCHANGED hosts

FocusEnds ==
  /\ at.pc = "focus"
  /\ ~Connected \/ Now # ShellJob
  /\ FocusReturns(Connected)
  /\ UNCHANGED <<rt, hosts>>

FocusDetaches == at.pc = "focus" /\ FocusReturns(TRUE) /\ UNCHANGED <<rt, hosts>>

FocusTerminates ==
  /\ at.pc = "focus"
  /\ FocusReturns(Current /\ Now = ShellJob)
  /\ IF Current /\ Now = ShellJob
       THEN /\ hosted' = [hosted EXCEPT ![rt.active].activity = Idle]
            /\ rt' = [rt EXCEPT !.activity = Idle]
            /\ UNCHANGED <<task, attached_session, conn, spent>>
       ELSE UNCHANGED <<rt, hosts>>

\* A session of the catalog, which the user picks or the keys step to.
FocusChooses(s) ==
  /\ at.pc = "focus"
  /\ Reachable(s)
  /\ rt' = Refreshed(rt)
  /\ at' = [at EXCEPT !.pc = "focus_switch", !.choice = [session |-> s, job |-> hosted[s].activity = ShellJob]]
  /\ UNCHANGED hosts

FocusCreates(s) ==
  /\ at.pc = "focus"
  /\ CreateNew(s, SiblingModel)
  /\ rt' = Refreshed([Created(s, SiblingModel) EXCEPT !.local = rt.local])
  /\ FocusReturns(TRUE)

\* The name of a new session is left blank, or the choice is not one.
FocusReattaches == at.pc = "focus" /\ rt' = Refreshed(rt) /\ at' = [at EXCEPT !.pc = "attach"] /\ UNCHANGED hosts
FocusFails == at.pc = "focus" /\ rt' = Refreshed(rt) /\ FocusReturns(FALSE) /\ UNCHANGED hosts

\* The conversation stays that of the session before; whether there is a job
\* to attach to was in the catalog.
FocusSwitches ==
  LET s == at.choice.session
      Arrives == IF at.choice.job THEN at' = [at EXCEPT !.pc = "attach"] ELSE FocusReturns(TRUE)
  IN
  /\ at.pc = "focus_switch"
  /\ IF s = rt.active THEN Arrives /\ UNCHANGED <<rt, hosts>>
     ELSE IF Attachable(s) /\ Reachable(s) THEN SwitchTo(s) /\ rt' = Switched(s) /\ Arrives
     ELSE rt' = Refreshed(rt) /\ FocusReturns(FALSE) /\ UNCHANGED hosts

\* After a command the client looks at the session it is in.  Within
\* resume_active_session an error returns before the look.
FocusOver ==
  LET looked == Refreshed([rt EXCEPT !.activity = Now, !.local = Restored(rt.active)])
      moved == rt.active # at.was
  IN
  /\ at.pc = "focus_over"
  /\ IF at.from = "prompt"
       THEN IF ~Current THEN rt' = rt /\ at' = NowAt("leave")
            ELSE /\ rt' = IF moved THEN looked ELSE [rt EXCEPT !.activity = Now]
                 /\ at' = IF moved THEN [NowAt("resume") EXCEPT !.back = "leave"] ELSE NowAt("top")
       ELSE IF ~Current \/ ~at.ok THEN rt' = rt /\ ResumeReturns(FALSE)
            ELSE /\ rt' = looked
                 /\ IF moved THEN at' = [NowAt("resume") EXCEPT !.back = at.back] ELSE ResumeReturns(TRUE)
  /\ task' = IF at.from = "prompt" /\ Current /\ ~moved THEN Dismissed ELSE task
  /\ UNCHANGED <<hosted, attached_session, conn, spent>>

-----------------------------------------------------------------------------
(* The daemons, their other clients and the network.                       *)

\* A turn that completes is recorded, and one that fails or is cancelled is if
\* it has had effects.
TurnEnds(t, outcome, recorded) ==
  /\ task[t].outcome = "running"
  /\ outcome = "completed" => recorded
  /\ task' = [task EXCEPT ![t].outcome = outcome, ![t].recorded = recorded]
  /\ hosted' = [hosted EXCEPT ![task[t].session].activity = Idle,
                              ![task[t].session].turns = IF recorded THEN @ \cup {t} ELSE @]
  /\ UNCHANGED <<attached_session, conn, spent, rt, at>>

JobExits(s) ==
  /\ hosted[s].activity = ShellJob
  /\ hosted' = [hosted EXCEPT ![s].activity = Idle]
  /\ UNCHANGED <<task, attached_session, conn, spent, rt, at>>

OtherTakes(s) ==
  /\ hosted[s].status = "open" /\ hosted[s].controller = Nil
  /\ hosted' = [hosted EXCEPT ![s].controller = "other"]
  /\ UNCHANGED <<task, attached_session, conn, spent, rt, at>>

OtherLeaves(s) ==
  /\ hosted[s].controller = "other"
  /\ hosted' = [hosted EXCEPT ![s].controller = Nil]
  /\ UNCHANGED <<task, attached_session, conn, spent, rt, at>>

OtherCloses(s) ==
  /\ hosted[s].controller = "other"
  /\ Closes(s)
  /\ UNCHANGED <<attached_session, conn, spent, rt, at>>

ConnectionBreaks(h) ==
  /\ conn[h] = "open" /\ spent < MaxEvents
  /\ conn' = [conn EXCEPT ![h] = "lost"]
  /\ spent' = spent + 1
  /\ hosted' = [s \in Session |-> IF s = attached_session[h] THEN [hosted[s] EXCEPT !.controller = Nil] ELSE hosted[s]]
  /\ attached_session' = [attached_session EXCEPT ![h] = Nil]
  /\ UNCHANGED <<task, rt, at>>

-----------------------------------------------------------------------------
ClientInit ==
  /\ hosted = [s \in Session |-> [status |-> "unborn", host |-> Nil, controller |-> Nil, activity |-> Idle, turns |-> {}, model |-> 0]]
  /\ task = [t \in Turn |-> NoTask]
  /\ attached_session = [h \in Host |-> Nil]
  /\ conn = [h \in Host |-> "none"]
  /\ spent = 0
  /\ rt = NoRuntime
  /\ at = NowAt("gone")

PromptStep ==
  \/ TakeFinishedTurn \/ ShellCommand \/ ModelCommand \/ OtherCommand \/ NoCommand \/ ResumeCommand
  \/ \E t \in Turn : Submit(t)
  \/ \E then \in {"switch", "create", "connect", "close", "detach", "leave"} : SyncedCommand(then)
  \/ \E back \in {"sync", "top"} : StopAsked(back)
  \/ \E s \in Session : StartClient(s) \/ PromptSwitches(s) \/ PromptCreates(s)

CommandStep ==
  \/ SyncLooks \/ SyncPushes \/ SyncFails
  \/ CommandRefused \/ CloseCommand \/ Fallback \/ DetachCommand \/ Leave
  \/ StopLooks \/ StopActs
  \/ \E s \in Session : SwitchCommand(s) \/ CreateCommand(s)
  \/ \E s \in Session, h \in Host : ConnectCommand(s, h)

FollowStep ==
  \/ ResumeFollows \/ ResumeLooks
  \/ FollowEnds \/ FollowLost \/ FollowDetaches \/ FollowStops \/ FollowCannotSwitch
  \/ FocusAttaches \/ FocusEnds \/ FocusDetaches \/ FocusTerminates \/ FocusReattaches \/ FocusFails
  \/ FocusSwitches \/ FocusOver
  \/ \E s \in Session : FollowSwitches(s) \/ FollowCreates(s) \/ FocusChooses(s) \/ FocusCreates(s)

HostStep ==
  \/ \E t \in Turn, outcome \in {"completed", "failed"}, recorded \in BOOLEAN : TurnEnds(t, outcome, recorded)
  \/ \E s \in Session : JobExits(s) \/ OtherTakes(s) \/ OtherLeaves(s) \/ OtherCloses(s)
  \/ \E h \in Host : ConnectionBreaks(h)

ClientNext == PromptStep \/ CommandStep \/ FollowStep \/ HostStep

ClientSpec == ClientInit /\ [][ClientNext]_clientVars

-----------------------------------------------------------------------------
(* Properties.                                                             *)

ClientTypeOK ==
  /\ hosted \in [Session -> Hosted] /\ task \in [Turn -> Task]
  /\ attached_session \in [Host -> Session \cup {Nil}]
  /\ conn \in [Host -> {"none", "open", "lost"}] /\ spent \in 0..MaxEvents
  /\ rt \in Runtime /\ at \in At

\* The session the client shows is the one its connection is attached to, on
\* the host it is on, and every connection is either that one or parked: what
\* the prompt names is what a request reaches and //close closes, however the
\* client got there (session.rs: switch, connect_ssh, close_current_and_fallback).
ActiveIsAttached ==
  /\ at.pc \notin {"gone", "fallback"} =>
       /\ rt.active # Nil /\ rt.connection = hosted[rt.active].host
       /\ Connected => /\ attached_session[rt.connection] = rt.active
                       /\ hosted[rt.active].status = "open" /\ hosted[rt.active].controller = "me"
  /\ rt.connection \notin rt.parked
  /\ \A h \in Host : conn[h] = "open" => h \in rt.parked \cup {rt.connection}

\* What a turn has left in its session's conversation stays there: a client that
\* left the turn, switched away, lost its connection or ended pushes no
\* conversation that predates it (session.rs: sync, take_finished_turn).  The
\* exceptions are the user's //model, a turn the client has dismissed, and a
\* conversation that was left over from another session.
TurnIsKept ==
  \A t \in Turn :
    task[t].recorded /\ hosted[task[t].session].status = "open" /\ t \notin hosted[task[t].session].turns
      => task[t].cleared \/ task[t].dismissed \/ task[t].displaced

=============================================================================

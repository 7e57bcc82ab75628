----------------------------- MODULE TurnFollow -----------------------------
(***************************************************************************)
(* The clients that follow the turns of one session: interactive           *)
(* controllers (follow_daemon_turn in turn.rs, redraw_if_pending in        *)
(* backlog.rs, resume_active_session in pty_ui.rs, the cursors of          *)
(* SessionRuntime in session.rs) and headless runs (headless.rs), over the *)
(* execution state of module TurnEvents.                                   *)
(*                                                                         *)
(* Every request a client makes is a step of its own, so the turn and the  *)
(* journal move between any two of them.  A session has one controller at  *)
(* a time (module SessionRegistry); a client that leaves makes room for    *)
(* another one.                                                            *)
(***************************************************************************)
EXTENDS TurnEvents

CONSTANTS
  Controller,   \* interactive xshell processes
  Headless      \* invocations of xshell run, wait, result and cancel

ASSUME ClientAssumption ==
  /\ Controller \cap Headless = {}
  /\ None \notin Controller \cup Headless
  /\ None \notin {"completed", "failed", "unaudited", "cancelled", "unreported"}

VARIABLES
  owner,        \* the client attached to the session, or None
  ctl,          \* the interactive controllers
  run           \* the headless invocations

vars == <<daemon, owner, ctl, run>>

Client == Controller \cup Headless

CtlPc == {"away", "attached", "submitting", "resume", "follow", "handle", "prompt"}

\* cursor: the entry of event_cursors, or None.  cached: the turn in the cached
\* descriptor.  batch: events fetched and not handled.  redraw: redraw_pending.
\* gone: the truncation notice shown for
\* the events to come, or 0.  missed: the turn that ended
\* "without a terminal event".  submitted: the turn of the request under way.
Ctl == [pc: CtlPc, submitted: Turn \cup {None}, cursor: Nat \cup {None}, cached: Turn \cup {None}, batch: Seq(Event),
        redraw: BOOLEAN, gone: Nat, missed: Turn \cup {None}]

NoCtl == [pc |-> "away", submitted |-> None, cursor |-> None, cached |-> None, batch |-> <<>>,
          redraw |-> FALSE, gone |-> 0, missed |-> None]

RunPc == {"none", "owner", "job", "submit", "submitting", "follow", "handle", "done"}
Role  == {"owner", "waiter", "observer"}

Outcome == {"completed", "failed", "unavailable", "cancelled", "running", "unreported"}

\* after: the local cursor, None before it is set.  told: the turn's terminal
\* event among those of this batch that are handled.
Run == [pc: RunPc, role: Role \cup {None}, turn: Turn \cup {None}, after: Nat \cup {None},
        batch: Seq(Event), gone: Nat, told: Terminal \cup {None}, outcome: Outcome \cup {None},
        signalled: BOOLEAN]

NoRun == [pc |-> "none", role |-> None, turn |-> None, after |-> None, batch |-> <<>>,
          gone |-> 0, told |-> None, outcome |-> None, signalled |-> FALSE]

-----------------------------------------------------------------------------
(* Interactive controllers.                                                *)

\* SessionRuntime::start, switch and connect_ssh: the session is attached and
\* its snapshot cached.  Only switch asks for a redraw.
Attach(i, redraw) ==
  /\ ctl[i].pc = "away"
  /\ owner = None
  /\ owner' = i
  /\ ctl' = [ctl EXCEPT ![i].pc = "attached", ![i].cached = active, ![i].redraw = redraw]
  /\ UNCHANGED <<daemon, run>>

\* initial_event_cursor
InitialCursor ==
  IF active # None /\ events # <<>> THEN Head(events).sequence - 1 ELSE next_sequence - 1

\* ensure_event_cursor
EnsureCursor(i) ==
  /\ ctl[i].pc = "attached"
  /\ ctl' = [ctl EXCEPT ![i].pc = "resume",
                        ![i].cursor = IF @ = None THEN InitialCursor ELSE @]
  /\ UNCHANGED <<daemon, owner, run>>

\* backlog_end: the redraw stops before the first retained event of a live turn.
backlog_end(cursor) ==
  LET live == {k \in DOMAIN events : events[k].turn = active}
      first == CHOOSE k \in live : \A j \in live : k <= j
  IN IF active = None THEN next_sequence - 1
     ELSE IF live = {} THEN cursor
     ELSE IF events[first].sequence - 1 > cursor THEN events[first].sequence - 1 ELSE cursor

\* redraw_if_pending, then the choice of resume_active_session.  DROPPED_NOTICE
\* is shown when what there is to show fits the screen.  A controller with a
\* cached turn follows it; a terminal job is module PtyStream's.
Resume(i, fits) ==
  LET end     == backlog_end(ctl[i].cursor)
      shown   == \E k \in DOMAIN events : events[k].sequence <= end
      dropped == truncated_before(0) # 0 /\ (fits \/ ~shown)
  IN
  /\ ctl[i].pc = "resume"
  /\ ctl' = [ctl EXCEPT ![i].redraw = FALSE,
                        ![i].cursor = IF ctl[i].redraw /\ end > @ THEN end ELSE @,
                        ![i].gone = IF ~ctl[i].redraw THEN @
                                    ELSE IF dropped /\ truncated_before(0) > end + 1
                                      THEN truncated_before(0) ELSE 0,
                        ![i].pc = IF ctl[i].cached # None THEN "follow" ELSE "prompt"]
  /\ UNCHANGED <<daemon, owner, run>>

Truncation(gone, sequence) == IF truncated_before(sequence) # 0 THEN truncated_before(sequence) ELSE gone

\* One round of follow_daemon_turn.  The request waits on the daemon for an
\* event; it returns early when no turn is active, and late with nothing.
Poll(i) ==
  LET batch == After(ctl[i].cursor) IN
  /\ ctl[i].pc = "follow"
  /\ IF batch = <<>> /\ active = None
       THEN ctl' = [ctl EXCEPT ![i].pc = "prompt", ![i].missed = ctl[i].cached]
       ELSE /\ batch # <<>>
            /\ ctl' = [ctl EXCEPT ![i].pc = "handle", ![i].batch = batch,
                                  ![i].gone = Truncation(@, ctl[i].cursor)]
  /\ UNCHANGED <<daemon, owner, run>>

\* acknowledge_event, and on to the next event or the next round.
Acknowledged(k) ==
  [k EXCEPT !.cursor = IF Head(k.batch).sequence > @ THEN Head(k.batch).sequence ELSE @,
            !.batch = Tail(@),
            !.gone = 0,
            !.pc = IF Tail(k.batch) = <<>> THEN "follow" ELSE "handle"]

\* Any event that is neither a request nor the end of a turn is drawn.
HandleOutput(i) ==
  /\ ctl[i].pc = "handle"
  /\ Head(ctl[i].batch).kind \in {"started", "output", "decision"}
  /\ ctl' = [ctl EXCEPT ![i] = Acknowledged(ctl[i])]
  /\ UNCHANGED <<daemon, owner, run>>

\* Mutant: the request is acknowledged before it is answered.
AcknowledgeFirst(i, d) ==
  /\ ctl[i].pc = "handle"
  /\ Head(ctl[i].batch).kind = "request"
  /\ ctl' = [ctl EXCEPT ![i] = Acknowledged(ctl[i])]
  /\ UNCHANGED <<daemon, owner, run>>

\* The user answers the prompt and the reply is accepted.
HandleRequest(i, d) ==
  LET event == Head(ctl[i].batch) IN
  /\ ctl[i].pc = "handle"
  /\ event.kind = "request"
  /\ approve(event.turn, event.call, d)
  /\ ctl' = [ctl EXCEPT ![i] = Acknowledged(ctl[i])]
  /\ UNCHANGED <<owner, run>>

\* The reply is refused: the error ends follow_daemon_turn, and the request
\* stays unacknowledged.
RequestRefused(i) ==
  LET event == Head(ctl[i].batch) IN
  /\ ctl[i].pc = "handle"
  /\ event.kind = "request"
  /\ ~Awaited(event.turn, event.call)
  /\ ctl' = [ctl EXCEPT ![i].pc = "prompt", ![i].batch = <<>>]
  /\ UNCHANGED <<daemon, owner, run>>

\* mark_turn_finished, acknowledge_event, and what refresh_snapshot caches when
\* the turn completed.
HandleTerminal(i) ==
  LET event == Head(ctl[i].batch) IN
  /\ ctl[i].pc = "handle"
  /\ event.kind \in Terminal
  /\ ctl' = [ctl EXCEPT ![i] = [Acknowledged(ctl[i]) EXCEPT
               !.pc = "prompt", !.batch = <<>>,
               !.cached = IF event.kind = "completed" THEN active ELSE None]]
  /\ UNCHANGED <<daemon, owner, run>>

\* The escape prefix, at the top of the loop or at an approval prompt, gives
\* the focus back to the prompt, or to another session.
AtFocusPoint(i) ==
  \/ ctl[i].pc = "follow"
  \/ ctl[i].pc = "handle" /\ Head(ctl[i].batch).kind = "request"

FocusPrompt(i) ==
  /\ AtFocusPoint(i)
  /\ ctl' = [ctl EXCEPT ![i].pc = "prompt", ![i].batch = <<>>]
  /\ UNCHANGED <<daemon, owner, run>>

\* //switch, //detach, the end of the process, or the connection's loss.
Leave(i) ==
  /\ AtFocusPoint(i) \/ ctl[i].pc \in {"attached", "submitting", "resume", "prompt"}
  /\ owner' = None
  /\ \E cursor \in {ctl[i].cursor, None} :   \* None: the process is over
       ctl' = [ctl EXCEPT ![i] = [NoCtl EXCEPT !.cursor = cursor,
                                   !.gone = IF cursor = None THEN 0 ELSE ctl[i].gone]]
  /\ UNCHANGED <<daemon, run>>

\* stop_current_activity of the active turn, while following or at the prompt.
Terminate(i) ==
  /\ ctl[i].pc \in {"follow", "prompt"}
  /\ active # None
  /\ cancel(active)
  /\ ctl' = [ctl EXCEPT ![i].cached = None]
  /\ UNCHANGED <<owner, run>>

\* stop_current_activity when the session turns out to be idle: an error.
TerminateIdle(i) ==
  /\ ctl[i].pc \in {"follow", "prompt"}
  /\ active = None
  /\ ctl' = [ctl EXCEPT ![i].pc = "prompt", ![i].cached = None]
  /\ UNCHANGED <<daemon, owner, run>>

\* take_finished_turn, before every prompt line.
TakeFinishedTurn(i) ==
  /\ ctl[i].pc = "prompt"
  /\ ctl[i].cached # None
  /\ ctl' = [ctl EXCEPT ![i].cached = active, ![i].missed = None]
  /\ UNCHANGED <<daemon, owner, run>>

\* //resume, and the return to the prompt's session from elsewhere.
ResumeCommand(i) ==
  /\ ctl[i].pc = "prompt"
  /\ ctl[i].cached # None
  /\ ctl' = [ctl EXCEPT ![i].pc = "resume", ![i].missed = None]
  /\ UNCHANGED <<daemon, owner, run>>

\* Agent or shell input: SessionRuntime::submit, then resume_active_session.
CtlSubmit(i) ==
  /\ ctl[i].pc = "prompt"
  /\ submit
  /\ ctl' = [ctl EXCEPT ![i].pc = "submitting", ![i].submitted = active', ![i].missed = None]
  /\ UNCHANGED <<owner, run>>

Started(t) == \E k \in DOMAIN published : published[k].turn = t
Refused(t) == active # t /\ ~Started(t)

CtlAccepted(i) ==
  /\ ctl[i].pc = "submitting"
  /\ Started(ctl[i].submitted)
  /\ ctl' = [ctl EXCEPT ![i].pc = "resume", ![i].cached = ctl[i].submitted, ![i].submitted = None]
  /\ UNCHANGED <<daemon, owner, run>>

CtlRefused(i) ==
  /\ ctl[i].pc = "submitting"
  /\ Refused(ctl[i].submitted)
  /\ ctl' = [ctl EXCEPT ![i].pc = "prompt", ![i].submitted = None]
  /\ UNCHANGED <<daemon, owner, run>>

-----------------------------------------------------------------------------
(* Headless invocations.                                                   *)

\* execute and execute_job up to the attachment.
RunAttach(h, pc) ==
  /\ run[h].pc = "none"
  /\ owner = None
  /\ owner' = h
  /\ run' = [run EXCEPT ![h].pc = pc]
  /\ UNCHANGED <<daemon, ctl>>

\* run: events(session, 0, 0) for the end of the journal.
RunCursor(h) ==
  /\ run[h].pc = "owner"
  /\ run' = [run EXCEPT ![h].pc = "submit", ![h].after = next_sequence - 1]
  /\ UNCHANGED <<daemon, owner, ctl>>

RunSubmit(h) ==
  /\ run[h].pc = "submit"
  /\ submit
  /\ run' = [run EXCEPT ![h].pc = "submitting", ![h].role = "owner", ![h].turn = active']
  /\ UNCHANGED <<owner, ctl>>

RunAccepted(h) ==
  /\ run[h].pc = "submitting"
  /\ Started(run[h].turn)
  /\ run' = [run EXCEPT ![h].pc = "follow"]
  /\ UNCHANGED <<daemon, owner, ctl>>

\* The daemon refuses the turn: another one is active, or it cannot be recorded.
RunRefused(h) ==
  /\ \/ run[h].pc = "submit" /\ active # None
     \/ run[h].pc = "submitting" /\ Refused(run[h].turn)
  /\ run' = [run EXCEPT ![h].pc = "done", ![h].outcome = "failed"]
  /\ UNCHANGED <<daemon, owner, ctl>>

\* wait, result and cancel: the active turn, or the last one the journal knows,
\* from its first retained event on.
JobTurn == IF active # None THEN active
           ELSE IF events # <<>> THEN events[Len(events)].turn ELSE None

JobCursor ==
  LET of == {k \in DOMAIN events : events[k].turn = JobTurn}
  IN IF of = {} THEN next_sequence - 1
     ELSE events[CHOOSE k \in of : \A j \in of : k <= j].sequence - 1

JobStart(h) ==
  /\ run[h].pc = "job"
  /\ JobTurn # None
  /\ run' = [run EXCEPT ![h].pc = "follow", ![h].turn = JobTurn, ![h].after = JobCursor,
                        ![h].role = IF active # None THEN "waiter" ELSE "observer"]
  /\ UNCHANGED <<daemon, owner, ctl>>

\* result while a turn runs; a job on a session without any turn.
JobEndsAtOnce(h) ==
  /\ run[h].pc = "job"
  /\ \E outcome \in {"running" : t \in {active} \ {None}}
                      \cup {"failed" : t \in {JobTurn} \cap {None}} :
       run' = [run EXCEPT ![h].pc = "done", ![h].outcome = outcome]
  /\ UNCHANGED <<daemon, owner, ctl>>

\* cancel, then watch how the turn ends.
JobCancel(h) ==
  /\ run[h].pc = "job"
  /\ active # None
  /\ cancel(active)
  /\ run' = [run EXCEPT ![h].pc = "follow", ![h].turn = active, ![h].after = JobCursor,
                        ![h].role = "observer"]
  /\ UNCHANGED <<owner, ctl>>

\* SIGINT or SIGTERM, noticed at the top of follow_turn: the owner cancels (the
\* daemon may refuse that), a waiter stops waiting, an observer goes on.
Interrupted(h) ==
  /\ run[h].pc = "follow"
  /\ ~run[h].signalled
  /\ run' = [run EXCEPT ![h].signalled = TRUE,
               ![h].pc = IF run[h].role = "waiter" THEN "done" ELSE @,
               ![h].outcome = IF run[h].role = "waiter" THEN "running" ELSE @]
  /\ IF run[h].role = "owner" /\ active = run[h].turn THEN cancel(active) ELSE UNCHANGED daemon
  /\ UNCHANGED <<owner, ctl>>

RunPoll(h) ==
  LET batch == After(run[h].after) IN
  /\ run[h].pc = "follow"
  /\ batch # <<>>
  /\ run' = [run EXCEPT ![h].pc = "handle", ![h].batch = batch,
                        ![h].gone = Truncation(@, run[h].after)]
  /\ UNCHANGED <<daemon, owner, ctl>>

\* Five seconds without an event of a turn that is not active any more.
RunTimesOut(h) ==
  /\ run[h].pc = "follow"
  /\ After(run[h].after) = <<>>
  /\ active # run[h].turn
  /\ run' = [run EXCEPT ![h].pc = "done", ![h].outcome = "unreported"]
  /\ UNCHANGED <<daemon, owner, ctl>>

OutcomeOf(kind) ==
  CASE kind = "unaudited" -> "unavailable" [] OTHER -> kind

\* One event of the batch is done: the cursor moves before it is handled.
\* After the last one the turn's outcome, if it was among them, is reported.
Consumed(k, kind) ==
  LET told == IF kind \in Terminal THEN kind ELSE k.told
      last == Tail(k.batch) = <<>>
  IN [k EXCEPT !.after = Head(k.batch).sequence,
               !.batch = Tail(@),
               !.gone = 0,
               !.told = IF last THEN None ELSE told,
               !.outcome = IF last /\ told # None THEN OutcomeOf(told) ELSE @,
               !.pc = IF ~last THEN "handle" ELSE IF told # None THEN "done" ELSE "follow"]

Mine(h) == Head(run[h].batch).turn = run[h].turn

\* handle_event of everything but a request that is to be answered.
RunHandles(h) ==
  LET event == Head(run[h].batch) IN
  /\ run[h].pc = "handle"
  /\ Mine(h) /\ event.kind = "request" => run[h].role = "observer"
  /\ run' = [run EXCEPT ![h] = Consumed(run[h], IF Mine(h) THEN event.kind ELSE "output")]
  /\ UNCHANGED <<daemon, owner, ctl>>

\* What a run reads from its approval channel: a decision on a call, a line that
\* lacks one of them, or nothing (no channel, a closed one, an interrupt).
Line == [call: Call \cup {None}, decision: Reply \cup {None}] \cup {None}

\* Responder::decide: a denial, unless the line decides on this very call.
decide(line, c) ==
  IF line # None /\ line.call = c /\ line.decision # None THEN line.decision ELSE "deny"

\* handle_execution of a request; a refusal by the daemon is ignored.
RunAnswers(h, line) ==
  LET event == Head(run[h].batch)
      d     == decide(line, event.call)
  IN
  /\ run[h].pc = "handle"
  /\ Mine(h) /\ event.kind = "request" /\ run[h].role # "observer"
  /\ run' = [run EXCEPT ![h] = Consumed(run[h], "request")]
  /\ IF Awaited(event.turn, event.call) THEN approve(event.turn, event.call, d) ELSE UNCHANGED daemon
  /\ UNCHANGED <<owner, ctl>>

\* The process exits, after its result or at any time, and is detached.
RunExits(h) ==
  /\ run[h].pc # "none"
  /\ owner' = None
  /\ run' = [run EXCEPT ![h] = NoRun]
  /\ UNCHANGED <<daemon, ctl>>

-----------------------------------------------------------------------------

FollowInit ==
  /\ EventsInit
  /\ owner = None
  /\ ctl = [i \in Controller |-> NoCtl]
  /\ run = [h \in Headless |-> NoRun]

ControllerStep(i) ==
  \/ CtlAccepted(i) \/ CtlRefused(i) \/ EnsureCursor(i) \/ Poll(i)
  \/ \E fits \in BOOLEAN : Resume(i, fits)
  \/ HandleOutput(i) \/ HandleTerminal(i) \/ RequestRefused(i)
  \/ \E d \in Reply : HandleRequest(i, d)

ControllerChoice(i) ==
  \/ \E redraw \in BOOLEAN : Attach(i, redraw)
  \/ FocusPrompt(i) \/ Leave(i) \/ Terminate(i) \/ TerminateIdle(i)
  \/ TakeFinishedTurn(i) \/ ResumeCommand(i) \/ CtlSubmit(i)

HeadlessStep(h) ==
  \/ RunCursor(h) \/ RunSubmit(h) \/ RunAccepted(h) \/ RunRefused(h)
  \/ JobStart(h) \/ JobEndsAtOnce(h) \/ JobCancel(h)
  \/ RunPoll(h) \/ RunTimesOut(h) \/ RunHandles(h)
  \/ \E line \in Line : RunAnswers(h, line)

HeadlessChoice(h) ==
  \/ \E pc \in {"owner", "job"} : RunAttach(h, pc)
  \/ Interrupted(h) \/ RunExits(h)

DaemonStep == WorkerStep /\ UNCHANGED <<owner, ctl, run>>

FollowNext ==
  \/ DaemonStep
  \/ \E i \in Controller : ControllerStep(i) \/ ControllerChoice(i)
  \/ \E h \in Headless : HeadlessStep(h) \/ HeadlessChoice(h)

FollowSpec == FollowInit /\ [][FollowNext]_vars

\* The worker thread runs; the engine looks at the cancellation and returns.
FairFollowSpec ==
  /\ FollowSpec
  /\ WF_vars(WorkerStep /\ UNCHANGED <<owner, ctl, run>>)

-----------------------------------------------------------------------------

FollowTypeOK ==
  /\ EventsTypeOK
  /\ owner \in Client \cup {None}
  /\ ctl \in [Controller -> Ctl]
  /\ run \in [Headless -> Run]

Waiting == worker.pc \in {"gate", "peek", "wait"} /\ active \notin cancelled

\* An approval request nobody has answered is still in the journal, and no
\* controller has it behind its cursor: whoever attaches next is prompted.
PendingIsReachable ==
  \A p \in pending_approvals :
    Waiting /\ p.turn = active /\ p.call = worker.call =>
      \E k \in DOMAIN events :
        /\ events[k].kind = "request" /\ events[k].turn = p.turn /\ events[k].call = p.call
        /\ \A i \in Controller :
             ctl[i].cursor # None => ctl[i].cursor < events[k].sequence

\* What the turn does with a tool call is the one thing that was replied to that
\* call of that turn, whatever ids earlier turns used and however often the
\* request was replayed; only a cancellation overrides it.
DecisionIsTheReply ==
  worker.pc = "decided" =>
    \/ {a \in answered : a.turn = active /\ a.call = worker.call}
          = {[turn |-> active, call |-> worker.call, decision |-> worker.decision]}
    \/ worker.decision = "abort" /\ active \in cancelled

\* Nobody who follows a turn is left without its end.  A controller to which a
\* turn seems to have ended in silence has handled or redrawn its terminal event
\* before, and a headless run meets this only for a turn that was reserved and
\* then refused, which never had an event.
EndIsSeen ==
  /\ \A i \in Controller : LET t == ctl[i].missed IN
       t # None /\ Started(t) =>
         \E k \in DOMAIN published :
           published[k] = [turn |-> t, over |-> TRUE] /\ k <= ctl[i].cursor
  /\ \A h \in Headless : run[h].outcome = "unreported" => ~Started(run[h].turn)

\* The journal and its readers implement EventFeed: a reader advances event by
\* event, and skips one only after a truncation notice.
Feed == INSTANCE EventFeed WITH
  Reader   <- Client,
  Absent   <- None,
  log      <- published,
  kept     <- next_sequence - Len(events),
  position <- [r \in Client |-> IF r \in Controller THEN ctl[r].cursor ELSE run[r].after],
  gone     <- [r \in Client |-> IF r \in Controller THEN ctl[r].gone ELSE run[r].gone]

FeedIsImplemented == Feed!FeedSpec

\* A reply or a cancellation reaches the turn that waits, whenever it arrives.
TurnIsWoken ==
  (worker.pc \in {"gate", "peek", "wait"} /\
     (active \in cancelled \/ \E a \in approvals : a.turn = active /\ a.call = worker.call))
  ~> (worker.pc \notin {"gate", "peek", "wait"})

=============================================================================

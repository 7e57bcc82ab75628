----------------------------- MODULE TurnEvents -----------------------------
(***************************************************************************)
(* The execution state of one session (SessionExecution in execution.rs):  *)
(* the event journal with its two limits, the turn that runs, the approval *)
(* requests it waits for and the replies to them, and the DaemonObserver   *)
(* through which the turn's worker emits events and asks for approval.     *)
(*                                                                         *)
(* The steps of the mutex-protected state are single actions; whatever     *)
(* happens between two acquisitions of the mutex is two actions.  What the *)
(* engine does between two events is in module TurnEngine; the reservation *)
(* of the session among its other activities is in module SessionDaemon.   *)
(***************************************************************************)
EXTENDS Naturals, Sequences, FiniteSets

CONSTANTS
  MaxTurns,           \* bound: turns submitted in a behaviour
  MaxOutput,          \* bound: output events of one turn
  Call,               \* tool call ids; a provider may repeat them in another turn
  Reply,              \* the decisions that clients send
  Oversized,          \* the kinds of events that may exceed the journal on their own
  MaxJournalEvents,   \* MAX_JOURNAL_EVENTS
  MaxJournalBytes,    \* MAX_JOURNAL_BYTES
  None

ASSUME JournalAssumption ==
  /\ MaxTurns \in Nat /\ MaxOutput \in Nat
  /\ None \notin Nat /\ None \notin Call
  /\ None \notin {"approve", "deny", "abort"}
  /\ MaxJournalEvents \in Nat \ {0}
  /\ MaxJournalBytes \in Nat \ {0}
  /\ Reply \subseteq {"approve", "deny", "abort"}
  /\ Oversized \subseteq {"started", "output"}

VARIABLES
  events,             \* ExecutionState::events, the retained part of the journal
  next_sequence,
  active,             \* the id of the active turn, or None
  cancelled,          \* the active turn, if its CancellationFlag is set
  pending_approvals,  \* requests nobody has replied to
  approvals,          \* replies the turn has not taken yet
  worker,             \* the thread of the active turn
  published,          \* history: the turn of every event ever appended, and if it ended it
  answered            \* history: the replies that were accepted for the active turn

execution == <<events, next_sequence, active, cancelled, pending_approvals, approvals>>
history   == <<published, answered>>
daemon    == <<execution, worker, history>>

Turn     == 1..MaxTurns
Decision == {"approve", "deny", "abort"}
Terminal == {"completed", "failed", "unaudited", "cancelled"}
Kind     == {"started", "output", "request", "decision"} \cup Terminal

\* A small event, and one whose encoding alone exceeds the journal: the input
\* of a turn and the text of a response can be that long, while arguments,
\* results and messages are kept far shorter (1 MiB, 64 KiB).
Small == 1
Huge  == MaxJournalBytes + 1
Size(kind) == IF kind \in Oversized THEN {Small, Huge} ELSE {Small}

Event == [sequence: Nat, turn: Turn, kind: Kind, call: Call \cup {None}, size: {Small, Huge}]

WorkerPc == {"none", "submitted", "run", "asked", "gate", "peek", "wait", "decided", "aborted", "ended"}

\* call: the call being decided on.  woken: the Notified future was signalled.
\* decision: what approve() returned.  left: output still to come.
Worker == [pc: WorkerPc, call: Call \cup {None}, woken: BOOLEAN,
           decision: Decision \cup {None}, left: 0..MaxOutput,
           unasked: SUBSET Call, unaudited: BOOLEAN]

NoWorker == [pc |-> "none", call |-> None, woken |-> FALSE, decision |-> None,
             left |-> 0, unasked |-> {}, unaudited |-> FALSE]

-----------------------------------------------------------------------------
(* The journal.                                                            *)

\* The sum of the sizes, of which there are two.
Bytes(s) ==
  LET Of(size) == Cardinality({k \in DOMAIN s : s[k].size = size})
  IN Of(Small) * Small + Of(Huge) * Huge

Within(s) == Len(s) <= MaxJournalEvents /\ Bytes(s) <= MaxJournalBytes

\* Mutant: only the number of events is limited.
EvictedByCount(s) == IF Len(s) > MaxJournalEvents THEN Tail(s) ELSE s

\* The longest suffix within both limits: events are evicted from the front
\* until what is left fits, and that may leave nothing.
Evicted(s) ==
  LET keep == CHOOSE i \in 1..(Len(s) + 1) :
                /\ Within(SubSeq(s, i, Len(s)))
                /\ \A j \in 1..(i - 1) : ~Within(SubSeq(s, j, Len(s)))
  IN SubSeq(s, keep, Len(s))

append_locked(t, kind, call, size) ==
  LET event == [sequence |-> next_sequence, turn |-> t, kind |-> kind,
                call |-> call, size |-> size]
  IN /\ next_sequence' = next_sequence + 1
     /\ events' = Evicted(Append(events, event))
     /\ published' = Append(published, [turn |-> t, over |-> kind \in Terminal])

\* The retained events after a sequence number; the journal is in their order.
After(sequence) ==
  LET first == CHOOSE i \in 1..(Len(events) + 1) :
                 \A k \in DOMAIN events : events[k].sequence > sequence <=> k >= i
  IN SubSeq(events, first, Len(events))

\* Mutant: lost events are not mentioned.
never_truncated(sequence) == 0

\* EventBatch::truncated_before, 0 when it is absent.
truncated_before(sequence) ==
  IF events # <<>> /\ sequence + 1 < Head(events).sequence THEN Head(events).sequence ELSE 0

-----------------------------------------------------------------------------
(* Requests of clients, each under the mutex.                              *)

\* The id of the next turn; a turn that was refused has left no trace of its own.
NewTurn == IF published = <<>> THEN 1 ELSE published[Len(published)].turn + 1

\* submit: the reservation.  approvals and pending_approvals are cleared.
submit ==
  /\ active = None
  /\ NewTurn \in Turn
  /\ active' = NewTurn
  /\ approvals' = {}
  /\ pending_approvals' = {}
  /\ worker' = [NoWorker EXCEPT !.pc = "submitted", !.left = MaxOutput, !.unasked = Call]
  /\ UNCHANGED <<events, next_sequence, cancelled, history>>

\* Mutant: a call that was answered can be answered again.
AwaitedOrNot(t, c) == active = t

Awaited(t, c) == active = t /\ [turn |-> t, call |-> c] \in pending_approvals

\* Mutant: the reply is stored and nobody is woken.
approve_quietly(t, c, d) ==
  /\ Awaited(t, c)
  /\ pending_approvals' = pending_approvals \ {[turn |-> t, call |-> c]}
  /\ approvals' = approvals \cup {[turn |-> t, call |-> c, decision |-> d]}
  /\ answered' = answered \cup {[turn |-> t, call |-> c, decision |-> d]}
  /\ UNCHANGED <<events, next_sequence, active, cancelled, published, worker>>

\* approve: notify_waiters() wakes the Notified futures that exist already.
approve(t, c, d) ==
  /\ Awaited(t, c)
  /\ pending_approvals' = pending_approvals \ {[turn |-> t, call |-> c]}
  /\ approvals' = approvals \cup {[turn |-> t, call |-> c, decision |-> d]}
  /\ answered' = answered \cup {[turn |-> t, call |-> c, decision |-> d]}
  /\ worker' = [worker EXCEPT !.woken = @ \/ worker.pc \in {"peek", "wait"}]
  /\ UNCHANGED <<events, next_sequence, active, cancelled, published>>

cancel(t) ==
  /\ active = t
  /\ cancelled' = cancelled \cup {t}
  /\ UNCHANGED <<events, next_sequence, active, pending_approvals, approvals, worker, history>>

-----------------------------------------------------------------------------
(* The turn's worker.                                                      *)

\* begin_execution succeeded and the worker is spawned.
TurnStarts ==
  /\ worker.pc = "submitted"
  /\ \E size \in Size("started") : append_locked(active, "started", None, size)
  /\ worker' = [worker EXCEPT !.pc = "run"]
  /\ UNCHANGED <<active, cancelled, pending_approvals, approvals, answered>>

\* The input could not be audited, or the marker could not be saved: finish().
SubmitRefused ==
  /\ worker.pc = "submitted"
  /\ active' = None
  /\ cancelled' = cancelled \ {active}
  /\ worker' = NoWorker
  /\ pending_approvals' = {p \in pending_approvals : p.turn # active}
  /\ approvals' = {a \in approvals : a.turn # active}
  /\ UNCHANGED <<events, next_sequence, history>>

\* DaemonObserver::audit: the first failure is kept and cancels the turn.
Audited(w, recorded) == IF recorded THEN w ELSE [w EXCEPT !.unaudited = TRUE]
CancelledBy(recorded) == IF recorded THEN cancelled ELSE cancelled \cup {active}

\* emit() of anything but an approval request, and the output of a shell.
WorkerEmits(recorded) ==
  /\ worker.pc = "run"
  /\ worker.left > 0
  /\ \E size \in Size("output") : append_locked(active, "output", None, size)
  /\ worker' = Audited([worker EXCEPT !.left = @ - 1], recorded)
  /\ cancelled' = CancelledBy(recorded)
  /\ UNCHANGED <<active, pending_approvals, approvals, answered>>

\* emit() of ApprovalRequested takes the mutex twice: for the request, then
\* for the event that announces it.
WorkerAsks(c) ==
  /\ worker.pc = "run"
  /\ c \in worker.unasked
  /\ pending_approvals' = pending_approvals \cup {[turn |-> active, call |-> c]}
  /\ worker' = [worker EXCEPT !.pc = "asked", !.call = c, !.unasked = @ \ {c}]
  /\ UNCHANGED <<events, next_sequence, active, cancelled, approvals, history>>

WorkerAnnounces ==
  /\ worker.pc = "asked"
  /\ append_locked(active, "request", worker.call, Small)
  /\ worker' = [worker EXCEPT !.pc = "gate"]
  /\ UNCHANGED <<active, cancelled, pending_approvals, approvals, answered>>

\* The top of the loop of DaemonObserver::approve.
Gate ==
  /\ worker.pc = "gate"
  /\ worker' = IF active \in cancelled
                 THEN [worker EXCEPT !.pc = "decided", !.decision = "abort"]
                 ELSE [worker EXCEPT !.pc = "peek", !.woken = FALSE]
  /\ UNCHANGED <<execution, history>>

Peek ==
  LET replies == {a \in approvals : a.turn = active /\ a.call = worker.call} IN
  /\ worker.pc = "peek"
  /\ IF replies = {}
       THEN worker' = [worker EXCEPT !.pc = "wait"] /\ UNCHANGED approvals
       ELSE \E a \in replies :
              /\ worker' = [worker EXCEPT !.pc = "decided", !.decision = a.decision]
              /\ approvals' = approvals \ {a}
  /\ UNCHANGED <<events, next_sequence, active, cancelled, pending_approvals, history>>

\* select! over the future and the cancellation.
Wake ==
  /\ worker.pc = "wait"
  /\ worker.woken \/ active \in cancelled
  /\ worker' = [worker EXCEPT !.pc = "gate"]
  /\ UNCHANGED <<execution, history>>

\* ToolDecision is emitted, and the cancellation looked at once more before
\* the decision is acted on.
WorkerDecides(recorded) ==
  LET next == CASE active \in cancelled' -> "ended"
                [] worker.decision = "abort" -> "aborted"
                [] OTHER -> "run"
  IN
  /\ worker.pc = "decided"
  /\ append_locked(active, "decision", worker.call, Small)
  /\ cancelled' = CancelledBy(recorded)
  /\ worker' = Audited([worker EXCEPT !.pc = next, !.call = None, !.decision = None], recorded)
  /\ UNCHANGED <<active, pending_approvals, approvals, answered>>

\* TurnAborted is the last event of a turn the user stopped; run_agent_turn
\* returns without an error.
WorkerAborts ==
  /\ worker.pc = "aborted"
  /\ append_locked(active, "output", None, Small)
  /\ worker' = [worker EXCEPT !.pc = "ended"]
  /\ UNCHANGED <<active, cancelled, pending_approvals, approvals, answered>>

\* The end of run_turn: what is reported, given whether the state was persisted
\* and whether the engine returned an error.
TerminalKind(persisted, failed) ==
  CASE ~persisted           -> "failed"
    [] worker.unaudited     -> "unaudited"
    [] active \in cancelled -> "cancelled"
    [] failed               -> "failed"
    [] OTHER                -> "completed"

\* The engine returns at any time between two events, and after an abort
\* without an error.
Ending(failed) == worker.pc = "run" \/ (worker.pc = "ended" /\ ~failed)

\* Mutant: the turn is released and its terminal event is lost.
ReleaseSilently(persisted, failed) ==
  /\ Ending(failed)
  /\ active' = None
  /\ worker' = NoWorker
  /\ UNCHANGED <<events, next_sequence, cancelled, pending_approvals, approvals, history>>

\* conclude: the terminal event and the release of the turn are one step.
Conclude(persisted, failed) ==
  /\ Ending(failed)
  /\ append_locked(active, TerminalKind(persisted, failed), None, Small)
  /\ active' = None
  /\ pending_approvals' = {p \in pending_approvals : p.turn # active}
  /\ approvals' = {a \in approvals : a.turn # active}
  /\ cancelled' = cancelled \ {active}
  /\ answered' = {}
  /\ worker' = NoWorker

-----------------------------------------------------------------------------

EventsInit ==
  /\ events = <<>>
  /\ next_sequence = 1
  /\ active = None
  /\ cancelled = {}
  /\ pending_approvals = {}
  /\ approvals = {}
  /\ worker = NoWorker
  /\ published = <<>>
  /\ answered = {}

WorkerStep ==
  \/ TurnStarts \/ SubmitRefused
  \/ \E recorded \in BOOLEAN : WorkerEmits(recorded) \/ WorkerDecides(recorded)
  \/ \E c \in Call : WorkerAsks(c)
  \/ WorkerAnnounces \/ Gate \/ Peek \/ Wake \/ WorkerAborts
  \/ \E persisted, failed \in BOOLEAN : Conclude(persisted, failed)

EventsTypeOK ==
  /\ events \in Seq(Event)
  /\ Within(events)
  /\ next_sequence = Len(published) + 1
  /\ active \in Turn \cup {None}
  /\ cancelled \subseteq Turn
  /\ pending_approvals \subseteq [turn: Turn, call: Call]
  /\ approvals \subseteq [turn: Turn, call: Call, decision: Decision]
  /\ worker \in Worker
  /\ published \in Seq([turn: Turn, over: BOOLEAN])
  /\ answered \subseteq [turn: Turn, call: Call, decision: Decision]

=============================================================================

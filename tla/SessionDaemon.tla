---------------------------- MODULE SessionDaemon ----------------------------
(***************************************************************************)
(* xshelld as a whole: the connection threads of bin/xshelld.rs, the turn  *)
(* workers of execution.rs and the terminal jobs of pty.rs, all working on *)
(* the registry of module SessionRegistry.                                 *)
(*                                                                         *)
(* A connection serves one request at a time.  A request that takes one    *)
(* lock is one action; a request that takes several is a chain of actions, *)
(* one for each lock it releases in between, and conn[c].pc says where it  *)
(* stands.  Reads that only the connection itself could invalidate are     *)
(* merged with the step that follows them.                                 *)
(*                                                                         *)
(* Not here: what a turn does while it runs (engine.rs), the event journal *)
(* and the approvals, the byte stream of a terminal job, and the audit     *)
(* trail, of which only the refusal in required mode is kept.              *)
(***************************************************************************)
EXTENDS SessionRegistry, FiniteSetsExt

CONSTANTS
  MaxActivePtys   \* MAX_ACTIVE_PTYS

VARIABLES
  conn,           \* the state of each connection thread
  active,         \* ExecutionState::active of the entry each session maps to
  turn,           \* the turns: submitted, running, over
  job,            \* the terminal jobs
  phase           \* how far the shutdown sequence of main() has come

daemon == <<conn, active, turn, job, phase>>
vars   == <<regvars, daemon>>

ASSUME MaxActivePtysAssumption == MaxActivePtys \in Nat \ {0}

ConnPc == {"idle", "gone",
           "detach_snapshot", "detach_cancel", "detach_terminate", "detach_wait",
           "detach_registry",
           "close_terminate", "close_wait", "close_cancel",
           "submit_reserve", "submit_audit", "submit_begin", "submit_spawn",
           "pty_reap", "pty_admit", "pty_audit", "pty_begin", "pty_spawn", "pty_insert",
           "ptyclose_wait"}

\* attached is attached_session of handle_client; session, op, next and leaving
\* are the local variables of the request being served: the session it works
\* on, the operation it starts, the session it will leave attached, and
\* whether the connection is ending.
Conn == [pc: ConnPc, attached: SessionId \cup {None}, session: SessionId \cup {None},
         op: Operation \cup {None}, next: SessionId \cup {None}, leaving: BOOLEAN]

IdleConn == [pc |-> "idle", attached |-> None, session |-> None,
             op |-> None, next |-> None, leaving |-> FALSE]

TurnStage == {"unborn", "submitting", "spawned", "running", "ended", "persisted", "over"}

Turn == [stage: TurnStage, session: SessionId \cup {None},
         cwd: Directory \cup {None}, history: Seq(Message), cancelled: BOOLEAN]

NoTurn == [stage |-> "unborn", session |-> None, cwd |-> None,
           history |-> <<>>, cancelled |-> FALSE]

\* A job's process exists in stages starting and running; exited means that
\* exit_status is set, finished that worker_finished is.
JobStage == {"unborn", "starting", "running", "exited", "finished"}

\* listed: the job is in the coordinator's map.  taken: the connection that
\* removed it from the map and waits for its worker.
Job == [stage: JobStage, session: SessionId \cup {None}, listed: BOOLEAN,
        shutdown: BOOLEAN, taken: Client \cup {None}]

NoJob == [stage |-> "unborn", session |-> None, listed |-> FALSE,
          shutdown |-> FALSE, taken |-> None]

Phase == {"serving", "admission_closed", "cancelled", "ptys_closed", "drained"}

-----------------------------------------------------------------------------
(* What the coordinators can be asked.                                     *)

Admission == phase = "serving"
Accepting == phase \in {"serving", "admission_closed", "cancelled"}

JobsOf(s) == {o \in Operation : job[o].listed /\ job[o].session = s}

\* PtyCoordinator::has_session
has_session(s) == \E o \in JobsOf(s) : job[o].stage = "running"

Fresh(o) == turn[o] = NoTurn /\ job[o] = NoJob /\ accepted[o] = None
            /\ \A c \in Client : conn[c].op # o

TurnAlive(o) == turn[o].stage \in {"spawned", "running", "ended", "persisted"}
ProcessAlive(o) == job[o].stage \in {"starting", "running"}

-----------------------------------------------------------------------------
(* Returning from a request, and the pieces requests share.                *)

Step(c, from, to) ==
  /\ up
  /\ conn[c].pc = from
  /\ conn' = [conn EXCEPT ![c].pc = to]

\* The request ends, with s as the connection's current session.
Return(c, s) ==
  conn' = [conn EXCEPT ![c] = IF conn[c].leaving
                                THEN [IdleConn EXCEPT !.pc = "gone"]
                                ELSE [IdleConn EXCEPT !.attached = s]]

\* attached_session.take(), then detach_session() on what it held.
Detaching(k, next, leaving) ==
  [pc |-> "detach_snapshot", attached |-> None, session |-> k.attached,
   op |-> None, next |-> next, leaving |-> leaving]

\* Mutant: create and switch do not detach from the previous session.
AcquireOnly(k, s) == [k EXCEPT !.attached = s]

\* create and switch own the destination before they let go of the previous one.
Acquired(k, s) ==
  IF k.attached \in {None, s} THEN [k EXCEPT !.attached = s] ELSE Detaching(k, s, FALSE)

\* Mutant: the entry is removed and its active turn left running.
RemoveWithoutCancel(s) == active' = [active EXCEPT ![s] = None] /\ UNCHANGED turn

\* ExecutionCoordinator::cancel_and_remove
cancel_and_remove(s) ==
  /\ active' = [active EXCEPT ![s] = None]
  /\ turn' = [o \in Operation |->
       IF active[s] = o THEN [turn[o] EXCEPT !.cancelled = TRUE] ELSE turn[o]]

\* Mutant: the job is dropped from the map and its worker not told.
UnlistOnly(c, s) ==
  job' = [o \in Operation |->
            IF o \in JobsOf(s) THEN [job[o] EXCEPT !.listed = FALSE] ELSE job[o]]

\* shutdown(), up to the wait: a worker that has not finished is told to.
Taken(o, c) ==
  LET busy == job[o].stage # "finished"
  IN  [job[o] EXCEPT !.listed = FALSE, !.shutdown = busy, !.taken = IF busy THEN c ELSE None]

\* PtyCoordinator::terminate_session, up to the wait for the worker.
terminate_session(c, s) ==
  job' = [o \in Operation |-> IF o \in JobsOf(s) THEN Taken(o, c) ELSE job[o]]

\* shutdown() has returned for every job that connection c took.
WorkersFinished(c) == \A o \in Operation : job[o].taken # c

\* SessionExecution::finish: the reservation is released, the turn never ran.
Unreserve(c) ==
  LET o == conn[c].op IN
  /\ active' = [active EXCEPT ![conn[c].session] = IF @ = o THEN None ELSE @]
  /\ turn' = [turn EXCEPT ![o] = NoTurn]

-----------------------------------------------------------------------------
(* create, attach, switch, detach, close and the end of a connection.      *)

CreateRequest(c, id, n, p, d, h, ok) ==
  /\ conn[c].pc = "idle"
  /\ create(c, id, n, p, d, h, ok)
  /\ conn' = [conn EXCEPT ![c] = IF ok THEN Acquired(@, id) ELSE @]
  /\ UNCHANGED <<active, turn, job, phase>>

AttachRequest(c, selector, s) ==
  /\ conn[c].pc = "idle" /\ conn[c].attached = None
  /\ Resolves(selector, s)
  /\ attach(c, s)
  /\ conn' = [conn EXCEPT ![c].attached = s]
  /\ UNCHANGED <<active, turn, job, phase>>

SwitchRequest(c, selector, s) ==
  /\ conn[c].pc = "idle"
  /\ Resolves(selector, s)
  /\ attach(c, s)
  /\ conn' = [conn EXCEPT ![c] = Acquired(@, s)]
  /\ UNCHANGED <<active, turn, job, phase>>

DetachRequest(c) ==
  /\ up /\ conn[c].pc = "idle" /\ conn[c].attached # None
  /\ conn' = [conn EXCEPT ![c] = Detaching(@, None, FALSE)]
  /\ UNCHANGED <<regvars, active, turn, job, phase>>

\* End of file or a broken socket: detach_on_disconnect.
Disconnect(c) ==
  /\ up /\ conn[c].pc = "idle"
  /\ conn' = [conn EXCEPT ![c] =
       IF @.attached = None THEN [IdleConn EXCEPT !.pc = "gone"] ELSE Detaching(@, None, TRUE)]
  /\ UNCHANGED <<regvars, active, turn, job, phase>>

\* detach_session reads the persistence mode; an unknown session is an error.
DetachSnapshot(c) ==
  LET s == conn[c].session IN
  /\ up /\ conn[c].pc = "detach_snapshot"
  /\ IF ~Live(s) THEN Return(c, None)
     ELSE IF sessions[s].snapshot.persistence = "Ephemeral"
       THEN Step(c, "detach_snapshot", "detach_cancel")
       ELSE Step(c, "detach_snapshot", "detach_registry")
  /\ UNCHANGED <<regvars, active, turn, job, phase>>

DetachCancel(c) ==
  /\ Step(c, "detach_cancel", "detach_terminate")
  /\ cancel_and_remove(conn[c].session)
  /\ UNCHANGED <<regvars, job, phase>>

DetachTerminate(c) ==
  /\ Step(c, "detach_terminate", "detach_wait")
  /\ terminate_session(c, conn[c].session)
  /\ UNCHANGED <<regvars, active, turn, phase>>

DetachWait(c) ==
  /\ WorkersFinished(c)
  /\ Step(c, "detach_wait", "detach_registry")
  /\ UNCHANGED <<regvars, active, turn, job, phase>>

\* A failed persist() is returned to the client after the attachment is gone,
\* and the session that was to become current is forgotten.
DetachRegistry(c, ok) ==
  /\ conn[c].pc = "detach_registry"
  /\ detach(c, conn[c].session, ok)
  /\ Return(c, IF ok THEN conn[c].next ELSE None)
  /\ UNCHANGED <<active, turn, job, phase>>

CloseRequest(c, selector, s, ok) ==
  /\ conn[c].pc = "idle"
  /\ Resolves(selector, s)
  /\ close(c, s, ok)
  /\ conn' = [conn EXCEPT ![c].pc = IF ok THEN "close_terminate" ELSE "idle",
                          ![c].session = IF ok THEN s ELSE None]
  /\ UNCHANGED <<active, turn, job, phase>>

CloseTerminate(c) ==
  /\ Step(c, "close_terminate", "close_wait")
  /\ terminate_session(c, conn[c].session)
  /\ UNCHANGED <<regvars, active, turn, phase>>

CloseWait(c) ==
  /\ WorkersFinished(c)
  /\ Step(c, "close_wait", "close_cancel")
  /\ UNCHANGED <<regvars, active, turn, job, phase>>

CloseCancel(c) ==
  LET s == conn[c].session IN
  /\ up /\ conn[c].pc = "close_cancel"
  /\ cancel_and_remove(s)
  /\ Return(c, IF conn[c].attached = s THEN None ELSE conn[c].attached)
  /\ UNCHANGED <<regvars, job, phase>>

-----------------------------------------------------------------------------
(* update and cancel.                                                      *)

UpdateRequest(c, d, h, ok) ==
  LET s == conn[c].attached IN
  /\ conn[c].pc = "idle" /\ s # None
  /\ active[s] = None
  /\ ~has_session(s)
  /\ update(c, s, d, h, ok)
  /\ UNCHANGED daemon

CancelRequest(c) ==
  LET s == conn[c].attached IN
  /\ up /\ conn[c].pc = "idle" /\ s # None /\ active[s] # None
  /\ turn' = [turn EXCEPT ![active[s]].cancelled = TRUE]
  /\ UNCHANGED <<regvars, conn, active, job, phase>>

-----------------------------------------------------------------------------
(* submit: the registry's snapshot is read before the turn is reserved.    *)

SubmitSnapshot(c, o) ==
  LET s == conn[c].attached IN
  /\ up /\ conn[c].pc = "idle" /\ s # None
  /\ Fresh(o)
  /\ ~has_session(s)
  /\ Admission
  /\ Live(s)
  /\ conn' = [conn EXCEPT ![c].pc = "submit_reserve", ![c].session = s, ![c].op = o]
  /\ turn' = [turn EXCEPT ![o] =
       [stage |-> "submitting", session |-> s, cwd |-> sessions[s].snapshot.cwd,
        history |-> sessions[s].snapshot.history, cancelled |-> FALSE]]
  /\ UNCHANGED <<regvars, active, job, phase>>

\* Mutant: the active turn is overwritten instead of refusing the submission.
ReserveUnchecked(c) ==
  /\ Step(c, "submit_reserve", "submit_audit")
  /\ active' = [active EXCEPT ![conn[c].session] = conn[c].op]
  /\ UNCHANGED <<regvars, turn, job, phase>>

\* Mutant: the reservation is entered under the wrong identity.
ReserveSwapped(c) ==
  /\ Step(c, "submit_reserve", "submit_audit")
  /\ active' = [active EXCEPT ![conn[c].session] = conn[c].session]
  /\ UNCHANGED <<regvars, turn, job, phase>>

SubmitReserve(c) ==
  LET s == conn[c].session IN
  /\ up /\ conn[c].pc = "submit_reserve"
  /\ IF active[s] # None
       THEN /\ Return(c, s)
            /\ turn' = [turn EXCEPT ![conn[c].op] = NoTurn]
            /\ UNCHANGED active
       ELSE /\ Step(c, "submit_reserve", "submit_audit")
            /\ active' = [active EXCEPT ![s] = conn[c].op]
            /\ UNCHANGED turn
  /\ UNCHANGED <<regvars, job, phase>>

\* Required auditing may refuse the input record, and with it the turn.
SubmitAudit(c, recorded) ==
  /\ up /\ conn[c].pc = "submit_audit"
  /\ IF recorded
       THEN Step(c, "submit_audit", "submit_begin") /\ UNCHANGED <<active, turn>>
       ELSE Return(c, conn[c].session) /\ Unreserve(c)
  /\ UNCHANGED <<regvars, job, phase>>

\* begin_execution refuses: the session is unknown or still carries a marker.
BeginRefused(s) == ~Live(s) \/ (IsDurable(s) /\ in_flight[s] # None)

SubmitBegin(c, ok) ==
  LET s == conn[c].session IN
  /\ up /\ conn[c].pc = "submit_begin"
  /\ \/ /\ BeginRefused(s) /\ ~ok
        /\ UNCHANGED regvars
     \/ begin_execution(s, conn[c].op, ok)
  /\ IF ok THEN Step(c, "submit_begin", "submit_spawn") /\ UNCHANGED <<active, turn>>
           ELSE Return(c, s) /\ Unreserve(c)
  /\ UNCHANGED <<job, phase>>

\* conclude(): the terminal event and the release of the turn, under one lock.
Conclude(o) ==
  /\ active' = [active EXCEPT ![turn[o].session] = IF @ = o THEN None ELSE @]
  /\ turn' = [turn EXCEPT ![o] = [NoTurn EXCEPT !.stage = "over", !.session = turn[o].session,
                                                !.cancelled = turn[o].cancelled]]

\* Mutant: admission is not looked at again before the worker is spawned.
SpawnWithoutAdmission(c) ==
  LET s == conn[c].session  o == conn[c].op IN
  /\ up /\ conn[c].pc = "submit_spawn"
  /\ turn' = [turn EXCEPT ![o].stage = "spawned"]
  /\ Return(c, s)
  /\ UNCHANGED <<regvars, active, job, phase>>

\* Under the admission lock: the second check of admission, then the worker.
SubmitSpawn(c) ==
  LET s == conn[c].session  o == conn[c].op IN
  /\ up /\ conn[c].pc = "submit_spawn"
  /\ Admission
  /\ turn' = [turn EXCEPT ![o].stage = "spawned"]
  /\ Return(c, s)
  /\ UNCHANGED <<regvars, active, job, phase>>

\* Admission has closed, or the thread cannot be started: the marker is
\* cleared and the turn concluded.  If clearing fails because admission closed,
\* `?' returns before conclude and the reservation stays.
SubmitNotSpawned(c, ok) ==
  LET s == conn[c].session  o == conn[c].op IN
  /\ up /\ conn[c].pc = "submit_spawn"
  /\ finish_execution(s, o, ok)
  /\ IF ok \/ Admission THEN Conclude(o) ELSE UNCHANGED <<active, turn>>
  /\ Return(c, s)
  /\ UNCHANGED <<job, phase>>

-----------------------------------------------------------------------------
(* run_turn.                                                               *)

TurnRuns(o) ==
  /\ up /\ turn[o].stage = "spawned"
  /\ turn' = [turn EXCEPT ![o].stage = "running"]
  /\ UNCHANGED <<regvars, conn, active, job, phase>>

\* The runtime cannot be built: concluded without touching the registry.
RuntimeFails(o) ==
  /\ up /\ turn[o].stage = "spawned"
  /\ Conclude(o)
  /\ UNCHANGED <<regvars, conn, job, phase>>

\* The agent turn or captured command is over; a `cd' has moved the cwd.
TurnEnds(o, d) ==
  /\ up /\ turn[o].stage = "running"
  /\ d \in directories \cup {turn[o].cwd}
  /\ turn' = [turn EXCEPT ![o].stage = "ended", ![o].cwd = d]
  /\ UNCHANGED <<regvars, conn, active, job, phase>>

\* What compaction may leave of a history: the messages before its first turn,
\* and the turns from some point on, always with the last.  A recovery message
\* is a system message: it starts no turn.
Compacted(h) ==
  LET starts == {i \in 1..Len(h) : h[i] = Recorded(h[i].operation)}
  IN  {h} \cup {SubSeq(h, 1, Min(starts) - 1) \o SubSeq(h, i, Len(h)) : i \in starts}

\* What a turn may make of the history it was given: a turn that is rolled back,
\* like a captured command, leaves no record of its own.
TurnResults(given, o) == Compacted(given) \cup Compacted(Append(given, Recorded(o)))

\* Mutant: the turn's end is kept in memory and not written to the file.
PersistInMemory(o, h, ok) ==
  LET t == turn[o] IN
  /\ up /\ ok /\ t.stage = "ended"
  /\ IF Live(t.session) /\ t.cwd \in directories
       THEN /\ sessions' = [sessions EXCEPT ![t.session] = WithState(@, t.cwd, h)]
            /\ in_flight' = [in_flight EXCEPT ![t.session] = None]
            /\ settled' = settled \cup {o}
            /\ UNCHANGED <<up, disk, directories, issued, accepted, concluded, dirty>>
       ELSE UNCHANGED regvars
  /\ turn' = [turn EXCEPT ![o].stage = "persisted"]
  /\ UNCHANGED <<conn, active, job, phase>>

TurnPersists(o, h, ok) ==
  LET t == turn[o] IN
  /\ up /\ t.stage = "ended"
  /\ IF Live(t.session) /\ t.cwd \in directories
       THEN update_execution_state(t.session, o, t.cwd, h, ok)
       ELSE ok /\ UNCHANGED regvars
  /\ turn' = [turn EXCEPT ![o].stage = "persisted"]
  /\ UNCHANGED <<conn, active, job, phase>>

TurnConcludes(o) ==
  /\ up /\ turn[o].stage = "persisted"
  /\ Conclude(o)
  /\ UNCHANGED <<regvars, conn, job, phase>>

-----------------------------------------------------------------------------
(* Terminal jobs: PtyStart, PtyClose and the worker.                       *)

PtyStartRequest(c, o) ==
  LET s == conn[c].attached IN
  /\ up /\ conn[c].pc = "idle" /\ s # None /\ Fresh(o)
  /\ active[s] = None
  /\ Live(s)
  /\ Accepting
  /\ conn' = [conn EXCEPT ![c].pc = "pty_reap", ![c].session = s, ![c].op = o]
  /\ UNCHANGED <<regvars, active, turn, job, phase>>

\* remove_completed_for_session: a job that has exited is taken out of the map,
\* and its worker waited for.
PtyReap(c) ==
  LET s == conn[c].session IN
  /\ Step(c, "pty_reap", "pty_admit")
  /\ job' = [o \in Operation |->
       IF o \in JobsOf(s) /\ job[o].stage \in {"exited", "finished"}
         THEN Taken(o, c) ELSE job[o]]
  /\ UNCHANGED <<regvars, active, turn, phase>>

Room(s) ==
  /\ Cardinality({o \in Operation : job[o].listed}) < MaxActivePtys
  /\ JobsOf(s) = {}

PtyAdmit(c) ==
  LET s == conn[c].session IN
  /\ up /\ conn[c].pc = "pty_admit"
  /\ WorkersFinished(c)
  /\ IF Room(s) THEN Step(c, "pty_admit", "pty_audit") ELSE Return(c, s)
  /\ UNCHANGED <<regvars, active, turn, job, phase>>

PtyAudit(c, recorded) ==
  /\ up /\ conn[c].pc = "pty_audit"
  /\ IF recorded THEN Step(c, "pty_audit", "pty_begin") ELSE Return(c, conn[c].session)
  /\ UNCHANGED <<regvars, active, turn, job, phase>>

PtyBegin(c, ok) ==
  LET s == conn[c].session IN
  /\ up /\ conn[c].pc = "pty_begin"
  /\ \/ /\ BeginRefused(s) /\ ~ok
        /\ UNCHANGED regvars
     \/ begin_execution(s, conn[c].op, ok)
  /\ IF ok THEN Step(c, "pty_begin", "pty_spawn") ELSE Return(c, s)
  /\ UNCHANGED <<active, turn, job, phase>>

PtySpawn(c) ==
  /\ Step(c, "pty_spawn", "pty_insert")
  /\ job' = [job EXCEPT ![conn[c].op] =
               [NoJob EXCEPT !.stage = "starting", !.session = conn[c].session]]
  /\ UNCHANGED <<regvars, active, turn, phase>>

PtySpawnFails(c, ok) ==
  /\ up /\ conn[c].pc = "pty_spawn"
  /\ finish_execution(conn[c].session, conn[c].op, ok)
  /\ Return(c, conn[c].session)
  /\ UNCHANGED <<active, turn, job, phase>>

\* Under the map's lock: the second check of accepting and of the room.
PtyInsert(c) ==
  LET s == conn[c].session IN
  /\ up /\ conn[c].pc = "pty_insert"
  /\ Accepting /\ Room(s)
  /\ job' = [job EXCEPT ![conn[c].op].stage = "running", ![conn[c].op].listed = TRUE]
  /\ Return(c, s)
  /\ UNCHANGED <<regvars, active, turn, phase>>

\* Otherwise the process is dropped, which kills it, and the marker cleared.
PtyInsertRefused(c, ok) ==
  LET s == conn[c].session IN
  /\ up /\ conn[c].pc = "pty_insert"
  /\ ~(Accepting /\ Room(s))
  /\ finish_execution(s, conn[c].op, ok)
  /\ job' = [job EXCEPT ![conn[c].op].stage = "finished"]
  /\ Return(c, s)
  /\ UNCHANGED <<active, turn, phase>>

PtyCloseRequest(c) ==
  LET s == conn[c].attached IN
  /\ up /\ conn[c].pc = "idle" /\ s # None
  /\ JobsOf(s) # {}
  /\ terminate_session(c, s)
  /\ conn' = [conn EXCEPT ![c].pc = "ptyclose_wait", ![c].session = s]
  /\ UNCHANGED <<regvars, active, turn, phase>>

PtyCloseWait(c) ==
  LET s == conn[c].session IN
  /\ up /\ conn[c].pc = "ptyclose_wait"
  /\ WorkersFinished(c)
  /\ Return(c, s)
  /\ UNCHANGED <<regvars, active, turn, job, phase>>

\* The process exits by itself, or its worker was told to terminate it.
JobExits(o) ==
  /\ up /\ job[o].stage = "running"
  /\ job' = [job EXCEPT ![o].stage = "exited"]
  /\ UNCHANGED <<regvars, conn, active, turn, phase>>

\* Mutant: finish() returns without waking who waits for worker_finished.
FinishWithoutNotify(o, ok) ==
  /\ job[o].stage = "exited"
  /\ finish_execution(job[o].session, o, ok)
  /\ job' = [job EXCEPT ![o].stage = "finished"]
  /\ UNCHANGED <<conn, active, turn, phase>>

\* finish(): the marker is cleared, then worker_finished wakes who waits.
JobFinishes(o, ok) ==
  /\ job[o].stage = "exited"
  /\ finish_execution(job[o].session, o, ok)
  /\ job' = [job EXCEPT ![o].stage = "finished", ![o].taken = None]
  /\ UNCHANGED <<conn, active, turn, phase>>

-----------------------------------------------------------------------------
(* The shutdown sequence of main(), the end of the process and a restart.  *)

StopAdmission ==
  /\ up /\ phase = "serving"
  /\ phase' = "admission_closed"
  /\ UNCHANGED <<regvars, conn, active, turn, job>>

\* Mutant: stop_accepting_and_cancel() only closes admission.
CancelNobody ==
  /\ up /\ phase = "admission_closed"
  /\ phase' = "cancelled"
  /\ UNCHANGED <<regvars, conn, active, turn, job>>

CancelActive ==
  /\ up /\ phase = "admission_closed"
  /\ phase' = "cancelled"
  /\ turn' = [o \in Operation |->
       IF \E s \in SessionId : active[s] = o
         THEN [turn[o] EXCEPT !.cancelled = TRUE] ELSE turn[o]]
  /\ UNCHANGED <<regvars, conn, active, job>>

StopPtys ==
  /\ up /\ phase = "cancelled"
  /\ phase' = "ptys_closed"
  /\ UNCHANGED <<regvars, conn, active, turn, job>>

DrainPtys ==
  /\ up /\ phase = "ptys_closed"
  /\ phase' = "drained"
  /\ job' = [o \in Operation |->
       IF job[o].listed
         THEN Taken(o, None) ELSE job[o]]
  /\ UNCHANGED <<regvars, conn, active, turn>>

\* The process ends: killed at any moment, or exiting once workers are done or
\* the shutdown deadline has passed.  Its threads and processes end with it.
Stop ==
  /\ Crash
  /\ conn' = [c \in Client |-> IdleConn]
  /\ active' = [s \in SessionId |-> None]
  /\ turn' = [o \in Operation |->
       IF turn[o] = NoTurn THEN NoTurn ELSE [NoTurn EXCEPT !.stage = "over"]]
  /\ job' = [o \in Operation |->
       IF job[o] = NoJob THEN NoJob ELSE [NoJob EXCEPT !.stage = "finished"]]
  /\ phase' = "serving"

\* A new process loads the registry.  Its connections have new identities, but
\* nothing it loaded knows the old ones, so the same names serve again.
Restart == load /\ UNCHANGED daemon

-----------------------------------------------------------------------------

DaemonInit ==
  /\ Init
  /\ conn = [c \in Client |-> IdleConn]
  /\ active = [s \in SessionId |-> None]
  /\ turn = [o \in Operation |-> NoTurn]
  /\ job = [o \in Operation |-> NoJob]
  /\ phase = "serving"

Requests(c) ==
  \/ \E id \in SessionId, n \in Name, p \in PersistenceMode, d \in Directory,
        h \in ClientHistories, ok \in PersistOutcome : CreateRequest(c, id, n, p, d, h, ok)
  \/ \E selector \in SessionId \cup Name, s \in SessionId :
       \/ AttachRequest(c, selector, s)
       \/ SwitchRequest(c, selector, s)
       \/ \E ok \in PersistOutcome : CloseRequest(c, selector, s, ok)
  \/ DetachRequest(c)
  \/ Disconnect(c)
  \/ \E d \in Directory, h \in ClientHistories, ok \in PersistOutcome :
       UpdateRequest(c, d, h, ok)
  \/ CancelRequest(c)
  \/ \E o \in Operation : SubmitSnapshot(c, o) \/ PtyStartRequest(c, o)
  \/ PtyCloseRequest(c)

\* What a connection thread does on its own once it has a request.
Handler(c) ==
  \/ DetachSnapshot(c) \/ DetachCancel(c) \/ DetachTerminate(c) \/ DetachWait(c)
  \/ CloseTerminate(c) \/ CloseWait(c) \/ CloseCancel(c)
  \/ SubmitReserve(c) \/ SubmitSpawn(c)
  \/ PtyReap(c) \/ PtyAdmit(c) \/ PtySpawn(c) \/ PtyInsert(c) \/ PtyCloseWait(c)
  \/ \E recorded \in BOOLEAN : SubmitAudit(c, recorded) \/ PtyAudit(c, recorded)
  \/ \E ok \in BOOLEAN : SubmitBegin(c, ok) \/ PtyBegin(c, ok)
  \/ \E ok \in PersistOutcome :
       \/ DetachRegistry(c, ok) \/ SubmitNotSpawned(c, ok)
       \/ PtySpawnFails(c, ok) \/ PtyInsertRefused(c, ok)

TurnWorker(o) ==
  \/ TurnRuns(o) \/ RuntimeFails(o) \/ TurnConcludes(o)
  \/ \E h \in TurnResults(turn[o].history, o), ok \in PersistOutcome : TurnPersists(o, h, ok)
  \/ \E d \in Directory : TurnEnds(o, d)

JobWorker(o) == JobExits(o) \/ \E ok \in PersistOutcome : JobFinishes(o, ok)

Shutdown == StopAdmission \/ CancelActive \/ StopPtys \/ DrainPtys

Environment ==
  /\ \E d \in Directory : RemoveDirectory(d) \/ MakeDirectory(d)
  /\ UNCHANGED daemon

DaemonNext ==
  \/ \E c \in Client : Requests(c) \/ Handler(c)
  \/ \E o \in Operation : TurnWorker(o) \/ JobWorker(o)
  \/ Shutdown
  \/ Stop
  \/ Restart
  \/ Environment

DaemonSpec == DaemonInit /\ [][DaemonNext]_vars

(***************************************************************************)
(* Fairness.  A thread that can run is scheduled.  A connection thread that *)
(* has a request finishes it.  A turn's worker advances, but what the turn *)
(* itself does may take for ever unless it is cancelled: the engine and the *)
(* command runner poll the flag and kill what they run.  A terminal        *)
(* process may run for ever unless its worker is told to shut down, which  *)
(* kills it.  main() completes its shutdown sequence once it has begun it.  *)
(***************************************************************************)
TurnProgress(o) ==
  \/ TurnRuns(o) \/ RuntimeFails(o) \/ TurnConcludes(o)
  \/ \E h \in TurnResults(turn[o].history, o), ok \in PersistOutcome : TurnPersists(o, h, ok)
  \/ turn[o].cancelled /\ \E d \in Directory : TurnEnds(o, d)

JobProgress(o) ==
  \/ job[o].shutdown /\ JobExits(o)
  \/ \E ok \in PersistOutcome : JobFinishes(o, ok)

Fairness ==
  /\ \A c \in Client : WF_vars(Handler(c))
  /\ \A o \in Operation : WF_vars(TurnProgress(o)) /\ WF_vars(JobProgress(o))
  /\ WF_vars(CancelActive \/ StopPtys \/ DrainPtys)

FairDaemonSpec == DaemonSpec /\ Fairness

-----------------------------------------------------------------------------
(* Properties.                                                             *)

\* Every variable of the daemon has its type.
DaemonTypeOK ==
  /\ TypeOK
  /\ conn \in [Client -> Conn]
  /\ active \in [SessionId -> Operation \cup {None}]
  /\ turn \in [Operation -> Turn]
  /\ job \in [Operation -> Job]
  /\ phase \in Phase

\* A terminal process that the daemon's shutdown has already told to go.
Drained(o) == phase = "drained" /\ job[o].shutdown

\* One session runs one thing: never two turns, two terminal processes, or a
\* turn beside a terminal process, although the checks are made by different
\* connections under different locks and controllers come and go meanwhile.
\* (A process drained by the shutdown may be met by one that is still starting
\* and will be refused.)
OneActivity ==
  \A o, q \in Operation : o # q /\ ~Drained(o) /\ ~Drained(q) =>
    /\ TurnAlive(o) /\ TurnAlive(q) => turn[o].session # turn[q].session
    /\ ProcessAlive(o) /\ ProcessAlive(q) => job[o].session # job[q].session
    /\ TurnAlive(o) /\ ProcessAlive(q) => turn[o].session # job[q].session

\* No request is working on s.
Quiet(s) == \A c \in Client : conn[c].session # s

\* Work does not outlive its session: once the close or the detach that
\* removed a session has returned, its turn is cancelled and its terminal
\* process is gone (or, when the daemon is stopping, has been told to go).
RemovedWorkIsStopped ==
  \A s \in SessionId : up /\ s \in issued /\ ~Live(s) /\ Quiet(s) =>
    \A o \in Operation :
      /\ TurnAlive(o) /\ turn[o].session = s => turn[o].cancelled
      /\ ProcessAlive(o) /\ job[o].session = s => Drained(o)

\* The graceful shutdown reaches everything that was admitted, however a
\* submission or a terminal start is interleaved with it: after the cancel
\* pass no worker runs uncancelled, after the drain no process runs whose
\* worker was not told (one still starting will be refused and killed).
ShutdownReachesAll ==
  /\ phase \notin {"serving", "admission_closed"} =>
       \A o \in Operation : TurnAlive(o) => turn[o].cancelled
  /\ phase = "drained" =>
       \A o \in Operation : job[o].stage = "running" => job[o].shutdown

\* Every request returns, although close, detach and a terminal start wait,
\* without a timeout, for the worker of another thread.
HandlersReturn ==
  \A c \in Client :
    conn[c].pc \notin {"idle", "gone"} ~> conn[c].pc \in {"idle", "gone"}

\* Work of a session that has been removed.
Orphaned(o) ==
  \E s \in issued : /\ up /\ ~Live(s)
                     /\ \/ TurnAlive(o) /\ turn[o].session = s
                        \/ ProcessAlive(o) /\ job[o].session = s

\* Closing a session, or leaving an ephemeral one, ends its turn and its
\* terminal process even if they would run for ever.
RemovedWorkEnds ==
  \A o \in Operation : Orphaned(o) ~> ~(TurnAlive(o) \/ ProcessAlive(o))

\* A shutdown that has begun ends all work, including what was being admitted
\* when it began, so that waiting for the workers can succeed.
ShutdownDrains ==
  phase = "admission_closed" ~> \A o \in Operation : ~(TurnAlive(o) \/ ProcessAlive(o))

\* A connection's idea of its current session is the registry's: between
\* requests it is attached to exactly the session it believes in.
AttachmentsAgree ==
  \A c \in Client : up /\ conn[c].pc \in {"idle", "gone"} =>
    {s \in SessionId : Live(s) /\ c \in sessions[s].attachments} =
      IF conn[c].attached = None THEN {} ELSE {conn[c].attached}

\* Nobody is doing anything: no request, no turn, no terminal job.
AtRest ==
  /\ up
  /\ \A c \in Client : conn[c].pc \in {"idle", "gone"}
  /\ \A o \in Operation : /\ turn[o].stage \in {"unborn", "over"}
                          /\ job[o].stage \in {"unborn", "finished"}

\* "durable | retained | conversation, model, and cwd restored" (README.md): at
\* rest, sessions.json names no operation of a session that it does not hold,
\* for which the next load() would refuse the whole file.
FileStaysLoadable ==
  AtRest => \A s \in SessionId : disk.in_flight[s] # None => disk.sessions[s] # None

\* The history that a turn's end replaces is the one that the turn was given:
\* nothing another turn has recorded meanwhile is overwritten.
NoLostHistory ==
  [][ \A o \in Operation :
        LET s == turn[o].session IN
        turn[o].stage = "ended" /\ turn'[o].stage = "persisted" /\ Live(s) =>
          sessions[s].snapshot.history = turn[o].history
    ]_vars

\* "so a client that sees the event can immediately start the next operation"
\* (execution.rs, conclude): no marker of a concluded turn is left to refuse it.
NextOperationCanStart ==
  \A s \in SessionId : Live(s) /\ in_flight[s] # None =>
    turn[in_flight[s]].stage # "over"

=============================================================================

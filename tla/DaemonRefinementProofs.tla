----------------------- MODULE DaemonRefinementProofs -----------------------
(***************************************************************************)
(* Proofs about xshelld as a whole, for any number of sessions, clients,   *)
(* operations and terminal jobs, with a disk that may fail.                *)
(*                                                                         *)
(* First the types, one lemma per operation, and what the operations do to *)
(* the fields of a connection, a turn and a job.  Then how a connection    *)
(* thread, the operation it starts and the turn it reserves belong         *)
(* together.                                                               *)
(*                                                                         *)
(* On this rests that xshelld uses the registry as module SessionRegistry  *)
(* says a caller does: it begins fresh operations only, ends each at most  *)
(* once on the session that accepted it, and the histories it hands back   *)
(* speak only of operations that have ended, once each.  So DaemonSpec     *)
(* implements Spec, and every theorem about the registry holds of the      *)
(* whole daemon.                                                           *)
(***************************************************************************)
EXTENDS SessionDaemon, SessionRegistryProofs, FiniteSetTheorems, SequenceTheorems

-----------------------------------------------------------------------------
(* Types.                                                                  *)

ConnType == conn \in [Client -> Conn]
TurnType == turn \in [Operation -> Turn]
JobType  == job \in [Operation -> Job]

\* The connection threads other than c are where they were.
OthersStay(c) == \A d \in Client \ {c} : conn'[d] = conn[d]

\* Connection c goes on to the point `to' of its request.
Moved(c, to) ==
  /\ OthersStay(c)
  /\ conn'[c].pc = to
  /\ conn'[c].attached = conn[c].attached /\ conn'[c].session = conn[c].session
  /\ conn'[c].op = conn[c].op /\ conn'[c].next = conn[c].next
  /\ conn'[c].leaving = conn[c].leaving

\* Connection c is done with its request, and attached to s.
Returned(c, s) ==
  /\ OthersStay(c)
  /\ conn'[c].pc = "idle" /\ conn'[c].attached = s /\ conn'[c].session = None
  /\ conn'[c].op = None /\ conn'[c].next = None /\ ~conn'[c].leaving

\* Connection c has ended.
Left(c) ==
  /\ OthersStay(c)
  /\ conn'[c].pc = "gone" /\ conn'[c].attached = None /\ conn'[c].session = None
  /\ conn'[c].op = None /\ conn'[c].next = None /\ ~conn'[c].leaving

\* Connection c lets go of its session, to be attached to next afterwards.
LetsGo(c, next, leaving) ==
  /\ OthersStay(c)
  /\ conn'[c].pc = "detach_snapshot" /\ conn'[c].attached = None
  /\ conn'[c].session = conn[c].attached /\ conn'[c].op = None
  /\ conn'[c].next = next /\ conn'[c].leaving = leaving

\* A connection that has returned from its request knows only its session, and
\* one that was leaving is gone.
LEMMA ReturnFields ==
  ASSUME ConnType, NEW c \in Client, NEW s \in SessionId \cup {None}, Return(c, s)
  PROVE  /\ ConnType'
         /\ conn[c].leaving => Left(c)
         /\ ~conn[c].leaving => Returned(c, s)
BY DEF Return, ConnType, Conn, ConnPc, IdleConn, OthersStay, Left, Returned

\* A handler that goes on to its next lock changes nothing else of its thread.
LEMMA StepFields ==
  ASSUME ConnType, NEW c \in Client, NEW from, NEW to \in ConnPc, Step(c, from, to)
  PROVE  ConnType' /\ Moved(c, to) /\ up /\ conn[c].pc = from
BY DEF Step, ConnType, Conn, OthersStay, Moved

\* A connection that lets go of its session has it as the request's session.
LEMMA DetachingFields ==
  ASSUME ConnType, NEW c \in Client, NEW next \in SessionId \cup {None},
         NEW leaving \in BOOLEAN,
         conn' = [conn EXCEPT ![c] = Detaching(conn[c], next, leaving)]
  PROVE  ConnType' /\ LetsGo(c, next, leaving)
BY DEF Detaching, ConnType, Conn, ConnPc, OthersStay, LetsGo

\* Connection c, in no request, is attached to s.
Attaches(c, s) ==
  /\ OthersStay(c)
  /\ conn'[c].attached = s
  /\ conn'[c].pc = conn[c].pc /\ conn'[c].session = conn[c].session
  /\ conn'[c].op = conn[c].op /\ conn'[c].next = conn[c].next
  /\ conn'[c].leaving = conn[c].leaving

\* create and switch: the destination is held, and the previous session too
\* until the detach that follows is done.
LEMMA AcquiredFields ==
  ASSUME ConnType, NEW c \in Client, NEW s \in SessionId,
         conn' = [conn EXCEPT ![c] = Acquired(conn[c], s)]
  PROVE  /\ ConnType'
         /\ \/ conn[c].attached \in {None, s} /\ Attaches(c, s)
            \/ conn[c].attached \notin {None, s} /\ LetsGo(c, s, FALSE)
<1>1. CASE conn[c].attached \in {None, s}
  BY <1>1 DEF Acquired, ConnType, Conn, OthersStay, Attaches
<1>2. CASE conn[c].attached \notin {None, s}
  <2>1. conn' = [conn EXCEPT ![c] = Detaching(conn[c], s, FALSE)]
    BY <1>2 DEF Acquired
  <2> QED
    BY <1>2, <2>1, DetachingFields
<1> QED
  BY <1>1, <1>2

\* cancel_and_remove: the session has no active turn, and the one it had is
\* told to stop; nothing else about any turn changes.
LEMMA CancelFields ==
  ASSUME TurnType, active \in [SessionId -> Operation \cup {None}],
         NEW s \in SessionId, cancel_and_remove(s)
  PROVE  /\ TurnType' /\ active' \in [SessionId -> Operation \cup {None}]
         /\ active'[s] = None
         /\ \A t \in SessionId \ {s} : active'[t] = active[t]
         /\ \A o \in Operation :
              /\ turn'[o].stage = turn[o].stage /\ turn'[o].session = turn[o].session
              /\ turn'[o].cwd = turn[o].cwd /\ turn'[o].history = turn[o].history
              /\ turn'[o].cancelled = (turn[o].cancelled \/ active[s] = o)
              /\ active[s] # o => turn'[o] = turn[o]
BY DEF cancel_and_remove, TurnType, Turn

ActiveType == active \in [SessionId -> Operation \cup {None}]

\* A turn that is over, or never was, is well typed.
LEMMA NoTurnType ==
  /\ NoTurn \in Turn /\ NoTurn.stage = "unborn" /\ NoTurn.session = None
  /\ NoTurn.history = <<>> /\ NoTurn.cancelled = FALSE
  /\ \A s \in SessionId \cup {None}, b \in BOOLEAN :
       LET t == [NoTurn EXCEPT !.stage = "over", !.session = s, !.cancelled = b]
       IN  t \in Turn /\ t.stage = "over" /\ t.history = <<>>
  /\ [NoTurn EXCEPT !.stage = "over"] \in Turn
  /\ [NoTurn EXCEPT !.stage = "over"].stage = "over"
  /\ [NoTurn EXCEPT !.stage = "over"].history = <<>>
<1>1. <<>> \in Seq(Message)
  OBVIOUS
<1> QED
  BY <1>1 DEF NoTurn, Turn, TurnStage

\* conclude(): the turn is over and its session released, if it was still its.
LEMMA ConcludeFields ==
  ASSUME TurnType, ActiveType, NEW o \in Operation, turn[o].session \in SessionId,
         Conclude(o)
  PROVE  /\ TurnType' /\ ActiveType'
         /\ \A q \in Operation \ {o} : turn'[q] = turn[q]
         /\ turn'[o].stage = "over" /\ turn'[o].history = <<>>
         /\ \A s \in SessionId \ {turn[o].session} : active'[s] = active[s]
         /\ active'[turn[o].session] =
              IF active[turn[o].session] = o THEN None ELSE active[turn[o].session]
<1> DEFINE t == [NoTurn EXCEPT !.stage = "over", !.session = turn[o].session,
                              !.cancelled = turn[o].cancelled]
<1>1. turn[o].session \in SessionId \cup {None} /\ turn[o].cancelled \in BOOLEAN
  BY DEF TurnType, Turn
<1>2. t \in Turn /\ t.stage = "over" /\ t.history = <<>>
  BY <1>1, NoTurnType
<1>3. turn' = [turn EXCEPT ![o] = t]
  BY DEF Conclude
<1>4. active' = [active EXCEPT ![turn[o].session] =
                   IF active[turn[o].session] = o THEN None ELSE active[turn[o].session]]
  BY DEF Conclude, ActiveType
<1> HIDE DEF t
<1>5. TurnType' /\ (\A q \in Operation \ {o} : turn'[q] = turn[q]) /\ turn'[o] = t
  BY <1>2, <1>3 DEF TurnType
<1>6. ActiveType'
  BY <1>4 DEF ActiveType
<1> QED
  BY <1>2, <1>4, <1>5, <1>6 DEF ActiveType

\* finish(): the reservation is released and the turn as if it had never been.
LEMMA UnreserveFields ==
  ASSUME TurnType, ActiveType, NEW c \in Client, conn[c].op \in Operation,
         conn[c].session \in SessionId, Unreserve(c)
  PROVE  /\ TurnType' /\ ActiveType'
         /\ \A q \in Operation \ {conn[c].op} : turn'[q] = turn[q]
         /\ turn'[conn[c].op] = NoTurn
         /\ \A s \in SessionId \ {conn[c].session} : active'[s] = active[s]
         /\ active'[conn[c].session] =
              IF active[conn[c].session] = conn[c].op THEN None ELSE active[conn[c].session]
BY NoTurnType DEF Unreserve, TurnType, ActiveType

\* shutdown(), up to the wait: the job leaves the map, and unless its worker is
\* done it is told to go and has somebody waiting for it.
LEMMA TakenFields ==
  ASSUME JobType, NEW o \in Operation, NEW c \in Client \cup {None}
  PROVE  /\ Taken(o, c) \in Job
         /\ Taken(o, c).stage = job[o].stage /\ Taken(o, c).session = job[o].session
         /\ Taken(o, c).listed = FALSE
         /\ Taken(o, c).shutdown = (job[o].stage # "finished")
         /\ Taken(o, c).taken = IF job[o].stage # "finished" THEN c ELSE None
BY DEF Taken, JobType, Job

\* terminate_session: every listed job of the session, and no other, is taken.
LEMMA TerminateFields ==
  ASSUME JobType, NEW c \in Client, NEW s, terminate_session(c, s)
  PROVE  /\ JobType'
         /\ \A o \in Operation :
              /\ job'[o].stage = job[o].stage /\ job'[o].session = job[o].session
              /\ o \in JobsOf(s) => /\ ~job'[o].listed
                                    /\ job'[o].shutdown = (job[o].stage # "finished")
                                    /\ job[o].stage # "finished" => job'[o].taken = c
              /\ o \notin JobsOf(s) => job'[o] = job[o]
<1>1. \A o \in Operation : job'[o] = IF o \in JobsOf(s) THEN Taken(o, c) ELSE job[o]
  BY DEF terminate_session
<1>2. JobType'
  BY TakenFields DEF terminate_session, JobType
<1>3. ASSUME NEW o \in Operation, o \in JobsOf(s)
      PROVE  /\ job'[o].stage = job[o].stage /\ job'[o].session = job[o].session
             /\ ~job'[o].listed /\ job'[o].shutdown = (job[o].stage # "finished")
             /\ job[o].stage # "finished" => job'[o].taken = c
  <2>1. job'[o] = Taken(o, c)
    BY <1>1, <1>3
  <2>2. c \in Client \cup {None}
    OBVIOUS
  <2> QED
    BY <2>1, <2>2, TakenFields, Zenon
<1> QED
  BY <1>1, <1>2, <1>3

\* No job: unborn, unlisted, nobody waiting.
LEMMA NoJobType ==
  /\ NoJob \in Job /\ NoJob.stage = "unborn"
  /\ [NoJob EXCEPT !.stage = "finished"] \in Job
  /\ [NoJob EXCEPT !.stage = "finished"].stage = "finished"
  /\ \A s \in SessionId :
       LET j == [NoJob EXCEPT !.stage = "starting", !.session = s]
       IN  j \in Job /\ j.stage = "starting" /\ j.session = s /\ j.listed = FALSE
BY DEF NoJob, Job, JobStage

-----------------------------------------------------------------------------
(***************************************************************************)
(* Who works on what.  A connection thread has an operation exactly while  *)
(* it starts one; no two threads start the same one, and an operation is a *)
(* turn or a terminal job, never both.  A session's active turn is a turn  *)
(* of that session.                                                        *)
(***************************************************************************)

ReservedPc == {"submit_audit", "submit_begin", "submit_spawn"}
SubmitPc   == {"submit_reserve", "submit_audit", "submit_begin", "submit_spawn"}
StartPc    == {"pty_reap", "pty_admit", "pty_audit", "pty_begin", "pty_spawn"}
PtyPc      == {"pty_reap", "pty_admit", "pty_audit", "pty_begin", "pty_spawn", "pty_insert"}
ClosePc    == {"close_terminate", "close_wait", "close_cancel"}
DetachPc   == {"detach_snapshot", "detach_cancel", "detach_terminate", "detach_wait",
               "detach_registry"}

\* What the local variables of a connection thread hold at each point.
Shape(c) ==
  /\ conn[c].pc \in {"idle", "gone"} <=> conn[c].session = None
  /\ conn[c].op # None <=> conn[c].pc \in SubmitPc \cup PtyPc
  /\ conn[c].pc \notin DetachPc => conn[c].next = None /\ ~conn[c].leaving
  /\ conn[c].pc \in DetachPc \cup {"gone"} => conn[c].attached = None
  /\ conn[c].pc \in SubmitPc \cup PtyPc \cup {"ptyclose_wait"} =>
       conn[c].attached = conn[c].session

\* The turn or job that a connection thread is starting is as far as the thread.
Starting(c) ==
  /\ conn[c].pc \in SubmitPc => /\ turn[conn[c].op].stage = "submitting"
                                /\ turn[conn[c].op].session = conn[c].session
  /\ conn[c].pc \in StartPc => turn[conn[c].op] = NoTurn /\ job[conn[c].op] = NoJob
  /\ conn[c].pc = "pty_insert" => /\ job[conn[c].op].stage = "starting"
                                  /\ job[conn[c].op].session = conn[c].session
  /\ conn[c].pc = "submit_reserve" => \A s \in SessionId : active[s] # conn[c].op

\* An operation is a turn or a job, and has a session until it is over.
OneRole(o) ==
  /\ turn[o] = NoTurn \/ job[o] = NoJob
  /\ turn[o].stage \notin {"unborn", "over"} => turn[o].session # None
  /\ job[o].stage \notin {"unborn", "finished"} => job[o].session # None

ActiveIsTurn(s) ==
  active[s] # None => /\ turn[active[s]].stage \notin {"unborn", "over"}
                      /\ turn[active[s]].session = s

OpsApart == \A c, d \in Client : c # d /\ conn[c].op # None => conn[d].op # conn[c].op

Threads ==
  /\ \A c \in Client : Shape(c) /\ Starting(c)
  /\ OpsApart
  /\ \A o \in Operation : OneRole(o)
  /\ \A s \in SessionId : ActiveIsTurn(s)

DaemonTypes == ConnType /\ ActiveType /\ TurnType /\ JobType /\ phase \in Phase

\* What a thread's place in its request says about its local variables.
LEMMA ThreadFacts ==
  ASSUME DaemonTypes, Threads, NEW c \in Client
  PROVE  /\ conn[c].pc \notin {"idle", "gone"} => conn[c].session \in SessionId
         /\ conn[c].pc \in {"idle", "gone"} =>
              conn[c].session = None /\ conn[c].op = None /\ conn[c].next = None
              /\ ~conn[c].leaving
         /\ conn[c].attached \in SessionId \cup {None}
         /\ conn[c].next \in SessionId \cup {None}
         /\ conn[c].pc \in SubmitPc \cup PtyPc =>
              conn[c].op \in Operation /\ conn[c].op # None
         /\ conn[c].pc \in SubmitPc \cup PtyPc \cup {"ptyclose_wait"} =>
              conn[c].attached = conn[c].session
         /\ conn[c].pc \notin DetachPc => conn[c].next = None /\ ~conn[c].leaving
         /\ conn[c].pc \notin SubmitPc \cup PtyPc => conn[c].op = None
BY DEF DaemonTypes, ConnType, Conn, Threads, Shape, SubmitPc, PtyPc, DetachPc

-----------------------------------------------------------------------------
(* What each step of the daemon does, field by field.                      *)

TurnsStay(o) == \A q \in Operation \ {o} : turn'[q] = turn[q]
JobsStay(o)  == \A q \in Operation \ {o} : job'[q] = job[q]

\* Only the stage of turn o, and possibly its cwd, has changed.
TurnReaches(o, stage) ==
  /\ TurnsStay(o)
  /\ turn'[o].stage = stage /\ turn'[o].session = turn[o].session
  /\ turn'[o].history = turn[o].history /\ turn'[o].cancelled = turn[o].cancelled

\* Connection c has begun operation o on its session.
Begins(c, o, pc) ==
  /\ OthersStay(c)
  /\ conn'[c].pc = pc /\ conn'[c].op = o
  /\ conn'[c].attached = conn[c].attached /\ conn'[c].session = conn[c].attached
  /\ conn'[c].next = conn[c].next /\ conn'[c].leaving = conn[c].leaving

\* A request that starts an operation notes it and the session.
LEMMA BeginsFields ==
  ASSUME ConnType, NEW c \in Client, NEW o \in Operation, NEW pc \in ConnPc,
         conn[c].attached \in SessionId,
         conn' = [conn EXCEPT ![c].pc = pc, ![c].session = conn[c].attached, ![c].op = o]
  PROVE  ConnType' /\ Begins(c, o, pc)
BY DEF ConnType, Conn, OthersStay, Begins

\* submit reads the session's snapshot.
LEMMA SubmitSnapshotDoes ==
  ASSUME TypeOK, DaemonTypes, NEW c \in Client, NEW o \in Operation, SubmitSnapshot(c, o)
  PROVE  /\ DaemonTypes' /\ Begins(c, o, "submit_reserve")
         /\ TurnsStay(o) /\ turn'[o].stage = "submitting"
         /\ turn'[o].session = conn[c].attached /\ ~turn'[o].cancelled
         /\ turn'[o].history = sessions[conn[c].attached].snapshot.history
<1> DEFINE s == conn[c].attached
           t == [stage |-> "submitting", session |-> s, cwd |-> sessions[s].snapshot.cwd,
                 history |-> sessions[s].snapshot.history, cancelled |-> FALSE]
<1>1. s \in SessionId /\ Live(s)
  BY DEF SubmitSnapshot, DaemonTypes, ConnType, Conn
<1>2. t \in Turn
  BY <1>1, LiveType DEF Turn, TurnStage, Snapshot
<1>3. TurnType' /\ TurnsStay(o) /\ turn'[o] = t
  BY <1>2 DEF SubmitSnapshot, DaemonTypes, TurnType, TurnsStay
<1>4. ConnType' /\ Begins(c, o, "submit_reserve")
  BY <1>1, BeginsFields DEF SubmitSnapshot, DaemonTypes, ConnPc
<1>5. UNCHANGED <<active, job, phase>>
  BY DEF SubmitSnapshot
<1> QED
  BY <1>3, <1>4, <1>5 DEF DaemonTypes, ActiveType, JobType

\* PtyStart begins a terminal job.
LEMMA PtyStartDoes ==
  ASSUME DaemonTypes, NEW c \in Client, NEW o \in Operation, PtyStartRequest(c, o)
  PROVE  DaemonTypes' /\ Begins(c, o, "pty_reap")
<1>1. conn[c].attached \in SessionId
  BY DEF PtyStartRequest, DaemonTypes, ConnType, Conn
<1>2. ConnType' /\ Begins(c, o, "pty_reap")
  BY <1>1, BeginsFields DEF PtyStartRequest, DaemonTypes, ConnPc
<1>3. UNCHANGED <<active, turn, job, phase>>
  BY DEF PtyStartRequest
<1> QED
  BY <1>2, <1>3 DEF DaemonTypes, ActiveType, TurnType, JobType

\* PtyClose takes the session's jobs and waits for their workers.
LEMMA PtyCloseDoes ==
  ASSUME DaemonTypes, NEW c \in Client, PtyCloseRequest(c)
  PROVE  /\ DaemonTypes' /\ OthersStay(c)
         /\ conn'[c].pc = "ptyclose_wait" /\ conn'[c].session = conn[c].attached
         /\ conn'[c].attached = conn[c].attached /\ conn'[c].op = conn[c].op
         /\ conn'[c].next = conn[c].next /\ conn'[c].leaving = conn[c].leaving
<1>1. JobType'
  BY TerminateFields DEF PtyCloseRequest, DaemonTypes
<1> QED
  BY <1>1 DEF PtyCloseRequest, DaemonTypes, ConnType, Conn, ConnPc, OthersStay, ActiveType, TurnType

\* submit reserves the session's turn, or is refused.
LEMMA SubmitReserveDoes ==
  ASSUME DaemonTypes, Threads, NEW c \in Client, SubmitReserve(c)
  PROVE  /\ DaemonTypes'
         /\ LET s == conn[c].session  o == conn[c].op IN
            \/ /\ Returned(c, s) /\ active' = active
               /\ TurnsStay(o) /\ turn'[o] = NoTurn
            \/ /\ Moved(c, "submit_audit") /\ turn' = turn /\ active[s] = None
               /\ active' = [active EXCEPT ![s] = o]
<1>1. conn[c].session \in SessionId /\ conn[c].op \in Operation /\ ~conn[c].leaving
  BY ThreadFacts DEF SubmitReserve, SubmitPc, DetachPc
<1>2. CASE active[conn[c].session] # None
  <2>1. ConnType' /\ Returned(c, conn[c].session)
    BY <1>1, <1>2, ReturnFields DEF SubmitReserve, DaemonTypes
  <2>2. TurnType' /\ TurnsStay(conn[c].op) /\ turn'[conn[c].op] = NoTurn
    BY <1>1, <1>2, NoTurnType DEF SubmitReserve, DaemonTypes, TurnType, TurnsStay
  <2> QED
    BY <1>2, <2>1, <2>2 DEF SubmitReserve, DaemonTypes, ActiveType, JobType
<1>3. CASE active[conn[c].session] = None
  <2>1. ConnType' /\ Moved(c, "submit_audit")
    BY <1>3, StepFields DEF SubmitReserve, DaemonTypes, ConnPc
  <2> QED
    BY <1>1, <1>3, <2>1 DEF SubmitReserve, DaemonTypes, ActiveType, TurnType, JobType
<1> QED
  BY <1>2, <1>3

\* The input record is written, or the reservation released.
LEMMA SubmitAuditDoes ==
  ASSUME DaemonTypes, Threads, NEW c \in Client, NEW recorded \in BOOLEAN,
         SubmitAudit(c, recorded)
  PROVE  /\ DaemonTypes'
         /\ \/ Moved(c, "submit_begin") /\ UNCHANGED <<active, turn>>
            \/ Returned(c, conn[c].session) /\ Unreserve(c)
<1>1. conn[c].session \in SessionId /\ conn[c].op \in Operation /\ ~conn[c].leaving
  BY ThreadFacts DEF SubmitAudit, SubmitPc, DetachPc
<1>2. UNCHANGED <<job, phase>>
  BY DEF SubmitAudit
<1>3. CASE recorded
  BY <1>2, <1>3, StepFields
     DEF SubmitAudit, DaemonTypes, ConnPc, ActiveType, TurnType, JobType
<1>4. CASE ~recorded
  BY <1>1, <1>2, <1>4, ReturnFields, UnreserveFields DEF SubmitAudit, DaemonTypes, JobType
<1> QED
  BY <1>3, <1>4

\* begin_execution accepts the turn, or the reservation is released.
LEMMA SubmitBeginDoes ==
  ASSUME DaemonTypes, Threads, NEW c \in Client, NEW ok \in BOOLEAN, SubmitBegin(c, ok)
  PROVE  /\ DaemonTypes'
         /\ \/ ok /\ Moved(c, "submit_spawn") /\ UNCHANGED <<active, turn>>
            \/ ~ok /\ Returned(c, conn[c].session) /\ Unreserve(c)
<1>1. conn[c].session \in SessionId /\ conn[c].op \in Operation /\ ~conn[c].leaving
  BY ThreadFacts DEF SubmitBegin, SubmitPc, DetachPc
<1>2. UNCHANGED <<job, phase>>
  BY DEF SubmitBegin
<1>3. CASE ok
  BY <1>2, <1>3, StepFields
     DEF SubmitBegin, DaemonTypes, ConnPc, ActiveType, TurnType, JobType
<1>4. CASE ~ok
  BY <1>1, <1>2, <1>4, ReturnFields, UnreserveFields DEF SubmitBegin, DaemonTypes, JobType
<1> QED
  BY <1>3, <1>4

\* A step that changes the stage of one turn.
LEMMA TurnReachesType ==
  ASSUME TurnType, NEW o \in Operation, NEW stage \in TurnStage,
         turn' = [turn EXCEPT ![o].stage = stage]
  PROVE  TurnType' /\ TurnReaches(o, stage)
BY DEF TurnType, Turn, TurnReaches, TurnsStay

\* The worker is spawned.
LEMMA SubmitSpawnDoes ==
  ASSUME DaemonTypes, Threads, NEW c \in Client, SubmitSpawn(c)
  PROVE  /\ DaemonTypes' /\ Returned(c, conn[c].session)
         /\ TurnReaches(conn[c].op, "spawned")
<1>1. conn[c].session \in SessionId /\ conn[c].op \in Operation /\ ~conn[c].leaving
  BY ThreadFacts DEF SubmitSpawn, SubmitPc, DetachPc
<1>2. ConnType' /\ Returned(c, conn[c].session)
  BY <1>1, ReturnFields DEF SubmitSpawn, DaemonTypes
<1>3. TurnType' /\ TurnReaches(conn[c].op, "spawned")
  BY <1>1, TurnReachesType DEF SubmitSpawn, DaemonTypes, TurnStage
<1> QED
  BY <1>2, <1>3 DEF SubmitSpawn, DaemonTypes, ActiveType, JobType

\* The worker is not spawned: the turn is concluded, or its reservation stays.
LEMMA SubmitNotSpawnedDoes ==
  ASSUME DaemonTypes, Threads, NEW c \in Client, NEW ok, SubmitNotSpawned(c, ok)
  PROVE  /\ DaemonTypes' /\ Returned(c, conn[c].session)
         /\ Conclude(conn[c].op) \/ UNCHANGED <<active, turn>>
<1>1. conn[c].session \in SessionId /\ conn[c].op \in Operation /\ ~conn[c].leaving
  BY ThreadFacts DEF SubmitNotSpawned, SubmitPc, DetachPc
<1>2. turn[conn[c].op].session \in SessionId
  BY <1>1 DEF SubmitNotSpawned, Threads, Starting, SubmitPc
<1>3. ConnType' /\ Returned(c, conn[c].session)
  BY <1>1, ReturnFields DEF SubmitNotSpawned, DaemonTypes
<1>4. CASE Conclude(conn[c].op)
  BY <1>1, <1>2, <1>3, <1>4, ConcludeFields DEF SubmitNotSpawned, DaemonTypes, JobType
<1>5. CASE UNCHANGED <<active, turn>>
  BY <1>3, <1>5 DEF SubmitNotSpawned, DaemonTypes, ActiveType, TurnType, JobType
<1> QED
  BY <1>4, <1>5 DEF SubmitNotSpawned

\* The jobs of the session that have exited are taken out of the map.
LEMMA PtyReapDoes ==
  ASSUME DaemonTypes, NEW c \in Client, PtyReap(c)
  PROVE  /\ DaemonTypes' /\ Moved(c, "pty_admit")
         /\ \A o \in Operation :
              /\ job'[o].stage = job[o].stage /\ job'[o].session = job[o].session
              /\ job[o].stage \in {"starting", "running"} => job'[o] = job[o]
              /\ ~job[o].listed => job'[o] = job[o]
              /\ job'[o].listed => job[o].listed
<1> DEFINE R(o) == o \in JobsOf(conn[c].session) /\ job[o].stage \in {"exited", "finished"}
<1>1. \A o \in Operation : job'[o] = IF R(o) THEN Taken(o, c) ELSE job[o]
  BY DEF PtyReap
<1>0. JobType /\ c \in Client \cup {None}
  BY DEF DaemonTypes
<1>2. job' \in [Operation -> Job]
  <2>1. \A o \in Operation : Taken(o, c) \in Job
    BY <1>0, TakenFields, Zenon
  <2> QED
    BY <1>0, <2>1 DEF PtyReap, JobType
<1>3. ConnType' /\ Moved(c, "pty_admit")
  BY StepFields DEF PtyReap, DaemonTypes, ConnPc
<1>4. ASSUME NEW o \in Operation
      PROVE  /\ job'[o].stage = job[o].stage /\ job'[o].session = job[o].session
             /\ job[o].stage \in {"starting", "running"} => job'[o] = job[o]
             /\ ~job[o].listed => job'[o] = job[o]
             /\ job'[o].listed => job[o].listed
  <2>1. CASE R(o)
    <3>1. job'[o] = Taken(o, c)
      BY <1>1, <2>1
    <3>2. /\ Taken(o, c).stage = job[o].stage /\ Taken(o, c).session = job[o].session
          /\ Taken(o, c).listed = FALSE
      BY <1>0, TakenFields, Zenon
    <3> QED
      BY <2>1, <3>1, <3>2 DEF JobsOf
  <2>2. CASE ~R(o)
    BY <1>1, <2>2
  <2> QED
    BY <2>1, <2>2
<1> QED
  BY <1>2, <1>3, <1>4 DEF PtyReap, DaemonTypes, ActiveType, TurnType, JobType

\* A step of a thread that starts a job, before the process is there.
LEMMA PtyWaitsDo ==
  ASSUME DaemonTypes, Threads, NEW c \in Client,
         PtyAdmit(c) \/ (\E recorded \in BOOLEAN : PtyAudit(c, recorded))
  PROVE  /\ DaemonTypes' /\ conn[c].pc \in {"pty_admit", "pty_audit"}
         /\ \/ Returned(c, conn[c].session)
            \/ conn[c].pc = "pty_admit" /\ Room(conn[c].session) /\ Moved(c, "pty_audit")
            \/ conn[c].pc = "pty_audit" /\ Moved(c, "pty_begin")
<1>0. conn[c].pc \in {"pty_admit", "pty_audit"}
  BY DEF PtyAdmit, PtyAudit
<1>1. conn[c].session \in SessionId \cup {None} /\ ~conn[c].leaving
  BY <1>0, ThreadFacts DEF PtyPc, DetachPc
<1>2. UNCHANGED <<active, turn, job, phase>>
  BY DEF PtyAdmit, PtyAudit
<1>3. CASE Return(c, conn[c].session)
  BY <1>0, <1>1, <1>2, <1>3, ReturnFields DEF DaemonTypes, ActiveType, TurnType, JobType
<1>4. CASE Room(conn[c].session) /\ Step(c, "pty_admit", "pty_audit")
  BY <1>0, <1>2, <1>4, StepFields DEF DaemonTypes, ConnPc, ActiveType, TurnType, JobType
<1>5. CASE Step(c, "pty_audit", "pty_begin")
  BY <1>0, <1>2, <1>5, StepFields DEF DaemonTypes, ConnPc, ActiveType, TurnType, JobType
<1> QED
  BY <1>3, <1>4, <1>5 DEF PtyAdmit, PtyAudit

\* begin_execution accepts the job, or the request is refused.
LEMMA PtyBeginDoes ==
  ASSUME DaemonTypes, Threads, NEW c \in Client, NEW ok \in BOOLEAN, PtyBegin(c, ok)
  PROVE  /\ DaemonTypes'
         /\ \/ ok /\ Moved(c, "pty_spawn")
            \/ ~ok /\ Returned(c, conn[c].session)
<1>1. conn[c].session \in SessionId \cup {None} /\ ~conn[c].leaving
  BY ThreadFacts DEF PtyBegin, PtyPc, DetachPc
<1>2. UNCHANGED <<active, turn, job, phase>>
  BY DEF PtyBegin
<1>3. CASE ok
  BY <1>2, <1>3, StepFields
     DEF PtyBegin, DaemonTypes, ConnPc, ActiveType, TurnType, JobType
<1>4. CASE ~ok
  BY <1>1, <1>2, <1>4, ReturnFields
     DEF PtyBegin, DaemonTypes, ActiveType, TurnType, JobType
<1> QED
  BY <1>3, <1>4

\* The terminal process is spawned.
LEMMA PtySpawnDoes ==
  ASSUME DaemonTypes, Threads, NEW c \in Client, PtySpawn(c)
  PROVE  /\ DaemonTypes' /\ Moved(c, "pty_insert") /\ JobsStay(conn[c].op)
         /\ job'[conn[c].op].stage = "starting"
         /\ job'[conn[c].op].session = conn[c].session /\ ~job'[conn[c].op].listed
<1>0. ConnType' /\ Moved(c, "pty_insert") /\ conn[c].pc = "pty_spawn"
  BY StepFields DEF PtySpawn, DaemonTypes, ConnPc
<1>1. conn[c].session \in SessionId /\ conn[c].op \in Operation
  BY <1>0, ThreadFacts DEF PtyPc
<1> DEFINE j == [NoJob EXCEPT !.stage = "starting", !.session = conn[c].session]
<1>2. j \in Job /\ j.stage = "starting" /\ j.session = conn[c].session /\ j.listed = FALSE
  BY <1>1, NoJobType
<1>3. job' = [job EXCEPT ![conn[c].op] = j]
  BY DEF PtySpawn
<1> HIDE DEF j
<1>4. JobType' /\ JobsStay(conn[c].op) /\ job'[conn[c].op] = j
  BY <1>1, <1>2, <1>3 DEF DaemonTypes, JobType, JobsStay
<1> QED
  BY <1>0, <1>2, <1>4 DEF PtySpawn, DaemonTypes, ActiveType, TurnType

\* The process cannot be spawned.
LEMMA PtySpawnFailsDoes ==
  ASSUME DaemonTypes, Threads, NEW c \in Client, NEW ok, PtySpawnFails(c, ok)
  PROVE  DaemonTypes' /\ Returned(c, conn[c].session)
<1>1. conn[c].session \in SessionId \cup {None} /\ ~conn[c].leaving
  BY ThreadFacts DEF PtySpawnFails, PtyPc, DetachPc
<1> QED
  BY <1>1, ReturnFields DEF PtySpawnFails, DaemonTypes, ActiveType, TurnType, JobType

\* The job enters the map.
LEMMA PtyInsertDoes ==
  ASSUME DaemonTypes, Threads, NEW c \in Client, PtyInsert(c)
  PROVE  /\ DaemonTypes' /\ Returned(c, conn[c].session) /\ JobsStay(conn[c].op)
         /\ job'[conn[c].op].stage = "running" /\ job'[conn[c].op].listed
         /\ job'[conn[c].op].session = job[conn[c].op].session
<1>1. conn[c].session \in SessionId /\ conn[c].op \in Operation /\ ~conn[c].leaving
  BY ThreadFacts DEF PtyInsert, PtyPc, DetachPc
<1>2. ConnType' /\ Returned(c, conn[c].session)
  BY <1>1, ReturnFields DEF PtyInsert, DaemonTypes
<1>3. job' = [job EXCEPT ![conn[c].op].stage = "running", ![conn[c].op].listed = TRUE]
  BY DEF PtyInsert
<1>4. /\ JobType' /\ JobsStay(conn[c].op) /\ job'[conn[c].op].stage = "running"
      /\ job'[conn[c].op].listed /\ job'[conn[c].op].session = job[conn[c].op].session
  BY <1>1, <1>3 DEF DaemonTypes, JobType, Job, JobStage, JobsStay
<1> QED
  BY <1>2, <1>4 DEF PtyInsert, DaemonTypes, ActiveType, TurnType

\* The job is refused and its process killed.
LEMMA PtyInsertRefusedDoes ==
  ASSUME DaemonTypes, Threads, NEW c \in Client, NEW ok, PtyInsertRefused(c, ok)
  PROVE  /\ DaemonTypes' /\ Returned(c, conn[c].session) /\ JobsStay(conn[c].op)
         /\ job'[conn[c].op].stage = "finished"
<1>1. conn[c].session \in SessionId /\ conn[c].op \in Operation /\ ~conn[c].leaving
  BY ThreadFacts DEF PtyInsertRefused, PtyPc, DetachPc
<1>2. ConnType' /\ Returned(c, conn[c].session)
  BY <1>1, ReturnFields DEF PtyInsertRefused, DaemonTypes
<1>3. job' = [job EXCEPT ![conn[c].op].stage = "finished"]
  BY DEF PtyInsertRefused
<1>4. JobType' /\ JobsStay(conn[c].op) /\ job'[conn[c].op].stage = "finished"
  BY <1>1, <1>3 DEF DaemonTypes, JobType, Job, JobStage, JobsStay
<1> QED
  BY <1>2, <1>4 DEF PtyInsertRefused, DaemonTypes, ActiveType, TurnType

\* The workers that PtyClose waited for are done.
LEMMA PtyCloseWaitDoes ==
  ASSUME DaemonTypes, Threads, NEW c \in Client, PtyCloseWait(c)
  PROVE  DaemonTypes' /\ Returned(c, conn[c].session)
<1>1. conn[c].session \in SessionId \cup {None} /\ ~conn[c].leaving
  BY ThreadFacts DEF PtyCloseWait, DetachPc
<1> QED
  BY <1>1, ReturnFields DEF PtyCloseWait, DaemonTypes, ActiveType, TurnType, JobType

\* A worker reports the exit of its process, or that it is done.
LEMMA JobWorkerDoes ==
  ASSUME DaemonTypes, NEW o \in Operation, JobWorker(o)
  PROVE  /\ DaemonTypes' /\ UNCHANGED <<conn, active, turn, phase>> /\ JobsStay(o)
         /\ job'[o].session = job[o].session /\ job'[o].listed = job[o].listed
         /\ \/ job[o].stage = "running" /\ job'[o].stage = "exited"
            \/ job[o].stage = "exited" /\ job'[o].stage = "finished"
<1>1. UNCHANGED <<conn, active, turn, phase>>
  BY DEF JobWorker, JobExits, JobFinishes
<1>2. CASE JobExits(o)
  <2>1. /\ JobType' /\ JobsStay(o) /\ job'[o].stage = "exited"
        /\ job'[o].session = job[o].session /\ job'[o].listed = job[o].listed
    BY <1>2 DEF JobExits, DaemonTypes, JobType, Job, JobStage, JobsStay
  <2> QED
    BY <1>1, <1>2, <2>1 DEF JobExits, DaemonTypes, ConnType, ActiveType, TurnType
<1>3. ASSUME NEW ok, JobFinishes(o, ok)
      PROVE  /\ DaemonTypes' /\ JobsStay(o)
             /\ job'[o].session = job[o].session /\ job'[o].listed = job[o].listed
             /\ job[o].stage = "exited" /\ job'[o].stage = "finished"
  <2>1. job' = [job EXCEPT ![o].stage = "finished", ![o].taken = None]
    BY <1>3 DEF JobFinishes
  <2>2. /\ JobType' /\ JobsStay(o) /\ job'[o].stage = "finished"
        /\ job'[o].session = job[o].session /\ job'[o].listed = job[o].listed
    BY <2>1 DEF DaemonTypes, JobType, Job, JobStage, JobsStay
  <2> QED
    BY <1>1, <1>3, <2>2 DEF JobFinishes, DaemonTypes, ConnType, ActiveType, TurnType
<1> QED
  BY <1>1, <1>2, <1>3 DEF JobWorker

\* create: the client is attached to the new session if the file was written.
LEMMA CreateDoes ==
  ASSUME DaemonTypes, NEW c \in Client, NEW id \in SessionId, NEW n \in Name,
         NEW p \in PersistenceMode, NEW d \in Directory, NEW h \in ClientHistories,
         NEW ok \in PersistOutcome, CreateRequest(c, id, n, p, d, h, ok)
  PROVE  /\ DaemonTypes' /\ UNCHANGED <<active, turn, job, phase>>
         /\ \/ ~ok /\ conn' = conn
            \/ ok /\ conn[c].attached \in {None, id} /\ Attaches(c, id)
            \/ ok /\ conn[c].attached \notin {None, id} /\ LetsGo(c, id, FALSE)
<1>1. UNCHANGED <<active, turn, job, phase>>
  BY DEF CreateRequest
<1>2. CASE ok
  <2>1. conn' = [conn EXCEPT ![c] = Acquired(conn[c], id)]
    BY <1>2 DEF CreateRequest
  <2> QED
    BY <1>1, <1>2, <2>1, AcquiredFields DEF DaemonTypes, ActiveType, TurnType, JobType
<1>3. CASE ~ok
  <2>1. conn' = conn
    BY <1>3 DEF CreateRequest, DaemonTypes, ConnType
  <2> QED
    BY <1>1, <1>3, <2>1 DEF DaemonTypes, ConnType, ActiveType, TurnType, JobType
<1> QED
  BY <1>2, <1>3

\* attach and switch.
LEMMA AttachDoes ==
  ASSUME DaemonTypes, NEW c \in Client, NEW selector, NEW s \in SessionId,
         AttachRequest(c, selector, s) \/ SwitchRequest(c, selector, s)
  PROVE  /\ DaemonTypes' /\ UNCHANGED <<active, turn, job, phase>>
         /\ \/ conn[c].attached \in {None, s} /\ Attaches(c, s)
            \/ conn[c].attached \notin {None, s} /\ LetsGo(c, s, FALSE)
<1>1. UNCHANGED <<active, turn, job, phase>>
  BY DEF AttachRequest, SwitchRequest
<1>2. CASE AttachRequest(c, selector, s)
  <2>1. ConnType' /\ Attaches(c, s) /\ conn[c].attached = None
    BY <1>2 DEF AttachRequest, DaemonTypes, ConnType, Conn, Attaches, OthersStay
  <2> QED
    BY <1>1, <2>1 DEF DaemonTypes, ActiveType, TurnType, JobType
<1>3. CASE SwitchRequest(c, selector, s)
  BY <1>1, <1>3, AcquiredFields
     DEF SwitchRequest, DaemonTypes, ActiveType, TurnType, JobType
<1> QED
  BY <1>2, <1>3

\* A detach request, or the end of the connection.
LEMMA LeaveDoes ==
  ASSUME DaemonTypes, NEW c \in Client, DetachRequest(c) \/ Disconnect(c)
  PROVE  /\ DaemonTypes' /\ UNCHANGED <<regvars, active, turn, job, phase>>
         /\ up /\ conn[c].pc = "idle"
         /\ \/ conn[c].attached = None /\ Left(c)
            \/ /\ conn[c].attached # None
               /\ \E leaving \in BOOLEAN : LetsGo(c, None, leaving)
<1>1. UNCHANGED <<regvars, active, turn, job, phase>> /\ up /\ conn[c].pc = "idle"
  BY DEF DetachRequest, Disconnect
<1>2. CASE \E leaving \in BOOLEAN : conn' = [conn EXCEPT ![c] = Detaching(conn[c], None, leaving)]
           /\ conn[c].attached # None
  BY <1>1, <1>2, DetachingFields DEF DaemonTypes, ActiveType, TurnType, JobType
<1>3. CASE conn' = [conn EXCEPT ![c] = [IdleConn EXCEPT !.pc = "gone"]]
           /\ conn[c].attached = None
  <2>1. ConnType' /\ Left(c)
    BY <1>3 DEF DaemonTypes, ConnType, Conn, ConnPc, IdleConn, Left, OthersStay
  <2> QED
    BY <1>1, <1>3, <2>1 DEF DaemonTypes, ActiveType, TurnType, JobType
<1> QED
  BY <1>2, <1>3 DEF DetachRequest, Disconnect

\* close: the thread goes on to the session's work if the file was written.
LEMMA CloseDoes ==
  ASSUME DaemonTypes, NEW c \in Client, NEW selector, NEW s \in SessionId,
         NEW ok \in BOOLEAN, CloseRequest(c, selector, s, ok)
  PROVE  /\ DaemonTypes' /\ UNCHANGED <<active, turn, job, phase>> /\ OthersStay(c)
         /\ conn'[c].attached = conn[c].attached /\ conn'[c].op = conn[c].op
         /\ conn'[c].next = conn[c].next /\ conn'[c].leaving = conn[c].leaving
         /\ \/ ok /\ conn'[c].pc = "close_terminate" /\ conn'[c].session = s
            \/ ~ok /\ conn'[c].pc = "idle" /\ conn'[c].session = None
<1> DEFINE to == IF ok THEN "close_terminate" ELSE "idle"
           held == IF ok THEN s ELSE None
<1>1. conn' = [conn EXCEPT ![c].pc = to, ![c].session = held]
  BY DEF CloseRequest
<1>2. to \in ConnPc /\ held \in SessionId \cup {None}
  BY DEF ConnPc
<1>3. \/ ok /\ to = "close_terminate" /\ held = s
      \/ ~ok /\ to = "idle" /\ held = None
  OBVIOUS
<1> HIDE DEF to, held
<1>4. /\ ConnType' /\ OthersStay(c) /\ conn'[c].pc = to /\ conn'[c].session = held
      /\ conn'[c].attached = conn[c].attached /\ conn'[c].op = conn[c].op
      /\ conn'[c].next = conn[c].next /\ conn'[c].leaving = conn[c].leaving
  BY <1>1, <1>2 DEF DaemonTypes, ConnType, Conn, OthersStay
<1>5. UNCHANGED <<active, turn, job, phase>>
  BY DEF CloseRequest
<1> QED
  BY <1>3, <1>4, <1>5 DEF DaemonTypes, ActiveType, TurnType, JobType

\* detach_session reads the mode of the session.
LEMMA DetachSnapshotDoes ==
  ASSUME DaemonTypes, NEW c \in Client, DetachSnapshot(c)
  PROVE  /\ DaemonTypes' /\ UNCHANGED <<regvars, active, turn, job, phase>>
         /\ conn[c].pc = "detach_snapshot"
         /\ LET s == conn[c].session IN
            \/ ~Live(s) /\ (Left(c) \/ Returned(c, None))
            \/ /\ Live(s) /\ sessions[s].snapshot.persistence = "Ephemeral"
               /\ Moved(c, "detach_cancel")
            \/ /\ Live(s) /\ sessions[s].snapshot.persistence # "Ephemeral"
               /\ Moved(c, "detach_registry")
<1>1. /\ UNCHANGED <<regvars, active, turn, job, phase>> /\ conn[c].pc = "detach_snapshot"
      /\ ConnType
  BY DEF DetachSnapshot, DaemonTypes
<1>2. CASE ~Live(conn[c].session)
  BY <1>1, <1>2, ReturnFields DEF DetachSnapshot, DaemonTypes, ActiveType, TurnType, JobType
<1>3. CASE Live(conn[c].session) /\ sessions[conn[c].session].snapshot.persistence = "Ephemeral"
  <2>1. ConnType' /\ Moved(c, "detach_cancel")
    BY <1>1, <1>3, StepFields DEF DetachSnapshot, ConnPc
  <2> QED
    BY <1>1, <1>3, <2>1 DEF DaemonTypes, ActiveType, TurnType, JobType
<1>4. CASE Live(conn[c].session) /\ sessions[conn[c].session].snapshot.persistence # "Ephemeral"
  <2>1. ConnType' /\ Moved(c, "detach_registry")
    BY <1>1, <1>4, StepFields DEF DetachSnapshot, ConnPc
  <2> QED
    BY <1>1, <1>4, <2>1 DEF DaemonTypes, ActiveType, TurnType, JobType
<1> QED
  BY <1>2, <1>3, <1>4

\* The turn of an ephemeral session that is left is cancelled.
LEMMA DetachCancelDoes ==
  ASSUME DaemonTypes, Threads, NEW c \in Client, DetachCancel(c)
  PROVE  /\ DaemonTypes' /\ Moved(c, "detach_terminate") /\ conn[c].pc = "detach_cancel"
         /\ conn[c].session \in SessionId /\ UNCHANGED <<regvars, job, phase>>
<1>1. ConnType' /\ Moved(c, "detach_terminate") /\ conn[c].pc = "detach_cancel"
  BY StepFields DEF DetachCancel, DaemonTypes, ConnPc
<1>2. conn[c].session \in SessionId
  BY <1>1, ThreadFacts
<1> QED
  BY <1>1, <1>2, CancelFields DEF DetachCancel, DaemonTypes, ActiveType, JobType

\* detach and close take the session's terminal jobs.
LEMMA TerminateDoes ==
  ASSUME DaemonTypes, NEW c \in Client, DetachTerminate(c) \/ CloseTerminate(c)
  PROVE  /\ DaemonTypes' /\ UNCHANGED <<regvars, active, turn, phase>>
         /\ terminate_session(c, conn[c].session)
         /\ \/ conn[c].pc = "detach_terminate" /\ Moved(c, "detach_wait")
            \/ conn[c].pc = "close_terminate" /\ Moved(c, "close_wait")
<1>1. UNCHANGED <<regvars, active, turn, phase>> /\ terminate_session(c, conn[c].session)
  BY DEF DetachTerminate, CloseTerminate
<1>2. JobType'
  BY <1>1, TerminateFields DEF DaemonTypes
<1>3. CASE Step(c, "detach_terminate", "detach_wait")
  BY <1>1, <1>2, <1>3, StepFields DEF DaemonTypes, ConnPc, ActiveType, TurnType
<1>4. CASE Step(c, "close_terminate", "close_wait")
  BY <1>1, <1>2, <1>4, StepFields DEF DaemonTypes, ConnPc, ActiveType, TurnType
<1> QED
  BY <1>3, <1>4 DEF DetachTerminate, CloseTerminate

\* ... and wait until their workers are done.
LEMMA WaitDoes ==
  ASSUME DaemonTypes, NEW c \in Client, DetachWait(c) \/ CloseWait(c)
  PROVE  /\ DaemonTypes' /\ UNCHANGED <<regvars, active, turn, job, phase>>
         /\ WorkersFinished(c)
         /\ \/ conn[c].pc = "detach_wait" /\ Moved(c, "detach_registry")
            \/ conn[c].pc = "close_wait" /\ Moved(c, "close_cancel")
<1>1. UNCHANGED <<regvars, active, turn, job, phase>> /\ WorkersFinished(c)
  BY DEF DetachWait, CloseWait
<1>2. CASE Step(c, "detach_wait", "detach_registry")
  BY <1>1, <1>2, StepFields DEF DaemonTypes, ConnPc, ActiveType, TurnType, JobType
<1>3. CASE Step(c, "close_wait", "close_cancel")
  BY <1>1, <1>3, StepFields DEF DaemonTypes, ConnPc, ActiveType, TurnType, JobType
<1> QED
  BY <1>2, <1>3 DEF DetachWait, CloseWait

\* The registry forgets the attachment, and the request returns.
LEMMA DetachRegistryDoes ==
  ASSUME DaemonTypes, NEW c \in Client, NEW ok \in BOOLEAN, DetachRegistry(c, ok)
  PROVE  /\ DaemonTypes' /\ UNCHANGED <<active, turn, job, phase>>
         /\ conn[c].pc = "detach_registry"
         /\ \/ conn[c].leaving /\ Left(c)
            \/ ~conn[c].leaving /\ ok /\ Returned(c, conn[c].next)
            \/ ~conn[c].leaving /\ ~ok /\ Returned(c, None)
<1> DEFINE s == IF ok THEN conn[c].next ELSE None
<1>1. s \in SessionId \cup {None} /\ ConnType
  BY DEF DaemonTypes, ConnType, Conn
<1>2. Return(c, s) /\ UNCHANGED <<active, turn, job, phase>> /\ conn[c].pc = "detach_registry"
  BY DEF DetachRegistry
<1>3. \/ ok /\ s = conn[c].next
      \/ ~ok /\ s = None
  OBVIOUS
<1> HIDE DEF s
<1>4. ConnType' /\ (conn[c].leaving => Left(c)) /\ (~conn[c].leaving => Returned(c, s))
  BY <1>1, <1>2, ReturnFields
<1>5. DaemonTypes'
  BY <1>2, <1>4 DEF DaemonTypes, ActiveType, TurnType, JobType
<1> QED
  BY <1>2, <1>3, <1>4, <1>5

\* close cancels the turn of the session that is gone, and returns.
LEMMA CloseCancelDoes ==
  ASSUME DaemonTypes, Threads, NEW c \in Client, CloseCancel(c)
  PROVE  /\ DaemonTypes' /\ UNCHANGED <<regvars, job, phase>>
         /\ conn[c].pc = "close_cancel" /\ conn[c].session \in SessionId
         /\ cancel_and_remove(conn[c].session)
         /\ \/ conn[c].attached = conn[c].session /\ Returned(c, None)
            \/ conn[c].attached # conn[c].session /\ Returned(c, conn[c].attached)
<1> DEFINE s == IF conn[c].attached = conn[c].session THEN None ELSE conn[c].attached
<1>1. /\ Return(c, s) /\ UNCHANGED <<regvars, job, phase>> /\ conn[c].pc = "close_cancel"
      /\ cancel_and_remove(conn[c].session)
  BY DEF CloseCancel
<1>2. conn[c].session \in SessionId /\ ~conn[c].leaving
  BY <1>1, ThreadFacts DEF DetachPc
<1>3. s \in SessionId \cup {None}
  BY DEF DaemonTypes, ConnType, Conn
<1>4. ConnType' /\ Returned(c, s)
  BY <1>1, <1>2, <1>3, ReturnFields DEF DaemonTypes
<1>5. DaemonTypes'
  BY <1>1, <1>2, <1>4, CancelFields DEF DaemonTypes, ActiveType, JobType
<1> QED
  BY <1>1, <1>2, <1>4, <1>5

\* Some turns are told to stop; nothing else about any turn changes.
TurnsCancelled ==
  \A o \in Operation :
    /\ turn'[o].stage = turn[o].stage /\ turn'[o].session = turn[o].session
    /\ turn'[o].cwd = turn[o].cwd /\ turn'[o].history = turn[o].history
    /\ turn[o].cancelled => turn'[o].cancelled
    /\ turn'[o] = turn[o] \/ \E s \in SessionId : active[s] = o

\* cancel reaches the active turn.
LEMMA CancelRequestDoes ==
  ASSUME DaemonTypes, NEW c \in Client, CancelRequest(c)
  PROVE  DaemonTypes' /\ UNCHANGED <<regvars, conn, active, job, phase>> /\ TurnsCancelled
<1> DEFINE o == active[conn[c].attached]
<1>1. o \in Operation /\ \E s \in SessionId : active[s] = o
  BY DEF CancelRequest, DaemonTypes, ConnType, Conn, ActiveType
<1>2. /\ turn' = [turn EXCEPT ![o].cancelled = TRUE]
      /\ UNCHANGED <<regvars, conn, active, job, phase>>
  BY DEF CancelRequest
<1> HIDE DEF o
<1>3. TurnType' /\ TurnsCancelled
  BY <1>1, <1>2 DEF DaemonTypes, TurnType, Turn, TurnsCancelled
<1> QED
  BY <1>2, <1>3 DEF DaemonTypes, ConnType, ActiveType, JobType

\* The shutdown's cancel pass reaches every active turn.
LEMMA CancelActiveDoes ==
  ASSUME DaemonTypes, CancelActive
  PROVE  /\ DaemonTypes' /\ UNCHANGED <<regvars, conn, active, job>> /\ TurnsCancelled
         /\ \A s \in SessionId : active[s] # None => turn'[active[s]].cancelled
<1> DEFINE A(o) == \E s \in SessionId : active[s] = o
<1>1. turn' = [o \in Operation |->
                 IF A(o) THEN [turn[o] EXCEPT !.cancelled = TRUE] ELSE turn[o]]
  BY DEF CancelActive
<1>2. \A s \in SessionId : active[s] # None => active[s] \in Operation /\ A(active[s])
  BY DEF DaemonTypes, ActiveType
<1>3. TurnType' /\ TurnsCancelled /\ \A o \in Operation : A(o) => turn'[o].cancelled
  BY <1>1 DEF DaemonTypes, TurnType, Turn, TurnsCancelled
<1> HIDE DEF A
<1> QED
  BY <1>2, <1>3 DEF CancelActive, DaemonTypes, ConnType, ActiveType, JobType, Phase

\* The shutdown's drain takes every listed job.
LEMMA DrainDoes ==
  ASSUME DaemonTypes, DrainPtys
  PROVE  /\ DaemonTypes' /\ UNCHANGED <<regvars, conn, active, turn>>
         /\ \A o \in Operation :
              /\ job'[o].stage = job[o].stage /\ job'[o].session = job[o].session
              /\ ~job'[o].listed
              /\ job[o].listed => job'[o].shutdown = (job[o].stage # "finished")
              /\ ~job[o].listed => job'[o] = job[o]
<1>1. \A o \in Operation : job'[o] = IF job[o].listed THEN Taken(o, None) ELSE job[o]
  BY DEF DrainPtys
<1>2. JobType /\ None \in Client \cup {None}
  BY DEF DaemonTypes
<1>3. \A o \in Operation :
        /\ Taken(o, None) \in Job
        /\ Taken(o, None).stage = job[o].stage /\ Taken(o, None).session = job[o].session
        /\ Taken(o, None).listed = FALSE
        /\ Taken(o, None).shutdown = (job[o].stage # "finished")
  BY <1>2, TakenFields, Zenon
<1>4. JobType'
  BY <1>1, <1>2, <1>3 DEF DrainPtys, JobType
<1>5. ASSUME NEW o \in Operation
      PROVE  /\ job'[o].stage = job[o].stage /\ job'[o].session = job[o].session
             /\ ~job'[o].listed
             /\ job[o].listed => job'[o].shutdown = (job[o].stage # "finished")
             /\ ~job[o].listed => job'[o] = job[o]
  BY <1>1, <1>3, <1>5, Zenon
<1> QED
  BY <1>4, <1>5 DEF DrainPtys, DaemonTypes, ConnType, ActiveType, TurnType, Phase

\* The worker of a turn: it runs, ends, reports its state and concludes.
LEMMA TurnWorkerDoes ==
  ASSUME DaemonTypes, Threads, directories \subseteq Directory,
         NEW o \in Operation, TurnWorker(o)
  PROVE  /\ DaemonTypes' /\ UNCHANGED <<conn, job, phase>>
         /\ TurnAlive(o) /\ turn[o].session \in SessionId
         /\ \/ Conclude(o)
            \/ /\ active' = active
               /\ \/ turn[o].stage = "spawned" /\ TurnReaches(o, "running")
                  \/ turn[o].stage = "running" /\ TurnReaches(o, "ended")
                  \/ turn[o].stage = "ended" /\ TurnReaches(o, "persisted")
<1>0. TurnAlive(o) /\ UNCHANGED <<conn, job, phase>>
  BY DEF TurnWorker, TurnRuns, RuntimeFails, TurnEnds, TurnPersists, TurnConcludes, TurnAlive
<1>1. turn[o].session \in SessionId
  BY <1>0 DEF TurnAlive, Threads, OneRole, DaemonTypes, TurnType, Turn
<1>2. CASE Conclude(o)
  BY <1>0, <1>1, <1>2, ConcludeFields DEF DaemonTypes, ConnType, JobType
<1>3. CASE TurnRuns(o)
  BY <1>0, <1>1, <1>3, TurnReachesType
     DEF TurnRuns, TurnStage, DaemonTypes, ConnType, ActiveType, JobType
<1>4. ASSUME NEW h, NEW ok, TurnPersists(o, h, ok)
      PROVE  /\ DaemonTypes' /\ active' = active
             /\ turn[o].stage = "ended" /\ TurnReaches(o, "persisted")
  BY <1>0, <1>4, TurnReachesType
     DEF TurnPersists, TurnStage, DaemonTypes, ConnType, ActiveType, JobType
<1>5. ASSUME NEW d \in Directory, TurnEnds(o, d)
      PROVE  /\ DaemonTypes' /\ active' = active
             /\ turn[o].stage = "running" /\ TurnReaches(o, "ended")
  <2>1. TurnType' /\ TurnReaches(o, "ended")
    BY <1>5 DEF TurnEnds, DaemonTypes, TurnType, Turn, TurnStage, TurnReaches, TurnsStay
  <2> QED
    BY <1>0, <1>5, <2>1 DEF TurnEnds, DaemonTypes, ConnType, ActiveType, JobType
<1> QED
  BY <1>0, <1>1, <1>2, <1>3, <1>4, <1>5 DEF TurnWorker, RuntimeFails, TurnConcludes, TurnRuns

\* The process ends and takes its threads, turns and terminal jobs with it.
LEMMA StopDoes ==
  ASSUME DaemonTypes, Stop
  PROVE  /\ DaemonTypes'
         /\ \A c \in Client :
              /\ conn'[c].pc = "idle" /\ conn'[c].attached = None /\ conn'[c].session = None
              /\ conn'[c].op = None /\ conn'[c].next = None /\ ~conn'[c].leaving
         /\ \A s \in SessionId : active'[s] = None
         /\ \A o \in Operation :
              /\ turn'[o].stage = IF turn[o] = NoTurn THEN "unborn" ELSE "over"
              /\ turn'[o].history = <<>>
              /\ job'[o].stage = IF job[o] = NoJob THEN "unborn" ELSE "finished"
         /\ phase' = "serving"
<1>1. ConnType' /\ \A c \in Client :
        /\ conn'[c].pc = "idle" /\ conn'[c].attached = None /\ conn'[c].session = None
        /\ conn'[c].op = None /\ conn'[c].next = None /\ ~conn'[c].leaving
  BY DEF Stop, ConnType, IdleConn, Conn, ConnPc
<1>2. ActiveType' /\ \A s \in SessionId : active'[s] = None
  BY DEF Stop, ActiveType
<1>3. TurnType' /\ \A o \in Operation :
        /\ turn'[o].stage = IF turn[o] = NoTurn THEN "unborn" ELSE "over"
        /\ turn'[o].history = <<>>
  BY NoTurnType DEF Stop, TurnType
<1>4. JobType' /\ \A o \in Operation :
        job'[o].stage = IF job[o] = NoJob THEN "unborn" ELSE "finished"
  BY NoJobType DEF Stop, JobType
<1> QED
  BY <1>1, <1>2, <1>3, <1>4 DEF Stop, DaemonTypes, Phase

-----------------------------------------------------------------------------
(* Threads is kept by every step.                                          *)

\* A step of connection thread c that touches no turn or job but the one that
\* the thread is starting.
LEMMA ThreadStep ==
  ASSUME DaemonTypes, Threads, DaemonTypes', NEW c \in Client, OthersStay(c),
         Shape(c)', Starting(c)',
         conn'[c].op \in {None, conn[c].op},
         \A o \in Operation : o # conn[c].op => turn'[o] = turn[o] /\ job'[o] = job[o],
         \A o \in Operation : o = conn[c].op => OneRole(o)',
         \A s \in SessionId : active'[s] \in {None, active[s], conn[c].op} /\ ActiveIsTurn(s)'
  PROVE  Threads'
<1>1. ASSUME NEW d \in Client, d # c PROVE Shape(d)' /\ Starting(d)'
  <2>1. conn'[d] = conn[d] /\ Shape(d)
    BY <1>1 DEF OthersStay, Threads
  <2>2. conn[d].op # None => conn[d].op # conn[c].op
    BY <1>1 DEF Threads, OpsApart
  <2>3. conn[d].op # None => conn[d].op \in Operation
    BY DEF DaemonTypes, ConnType, Conn
  <2>4. Shape(d)'
    BY <2>1 DEF Shape
  <2>5. conn[d].op # None => /\ turn'[conn[d].op] = turn[conn[d].op]
                             /\ job'[conn[d].op] = job[conn[d].op]
    BY <2>2, <2>3
  <2>6. Starting(d)
    BY DEF Threads
  <2>7. Starting(d)'
    BY <2>1, <2>2, <2>5, <2>6 DEF Shape, Starting, SubmitPc, StartPc, PtyPc
  <2> QED
    BY <2>4, <2>7
<1>2. OpsApart'
  BY DEF OpsApart, OthersStay, Threads
<1>3. ASSUME NEW o \in Operation PROVE OneRole(o)'
  BY DEF Threads, OneRole
<1> QED
  BY <1>1, <1>2, <1>3 DEF Threads

\* A step of connection thread c that touches no turn or job at all.
LEMMA ConnStep ==
  ASSUME DaemonTypes, Threads, DaemonTypes', NEW c \in Client, OthersStay(c),
         Shape(c)', Starting(c)', conn'[c].op \in {None, conn[c].op},
         UNCHANGED <<active, turn, job>>
  PROVE  Threads'
<1>1. \A o \in Operation : OneRole(o)'
  BY DEF Threads, OneRole
<1>2. \A s \in SessionId : ActiveIsTurn(s)'
  BY DEF Threads, ActiveIsTurn
<1> QED
  BY <1>1, <1>2, ThreadStep

\* A step after which every turn and job has the stage and session it had, and
\* no connection has an operation that it did not have.
LEMMA StagesStep ==
  ASSUME DaemonTypes, Threads, DaemonTypes', NEW c \in Client, OthersStay(c),
         Shape(c)', conn[c].op = None, conn'[c].op = None,
         \A o \in Operation : /\ turn'[o].stage = turn[o].stage
                              /\ turn'[o].session = turn[o].session
                              /\ turn'[o] = turn[o] \/ \E s \in SessionId : active[s] = o
                              /\ job'[o].stage = job[o].stage
                              /\ job'[o].session = job[o].session
                              /\ job'[o] = job[o] \/ job[o].listed,
         \A s \in SessionId : active'[s] \in {None, active[s]}
  PROVE  Threads'
<1>0. ASSUME NEW o \in Operation
      PROVE  (turn[o] = NoTurn => turn'[o] = NoTurn) /\ (job[o] = NoJob => job'[o] = NoJob)
  <2>1. turn[o] = NoTurn => turn'[o] = NoTurn
    <3>1. ASSUME NEW s \in SessionId, active[s] = o PROVE turn[o].stage # "unborn"
      BY <3>1, NoneAssumption DEF Threads, ActiveIsTurn
    <3>2. NoTurn.stage = "unborn"
      BY NoTurnType
    <3> QED
      BY <3>1, <3>2
  <2>2. job[o] = NoJob => job'[o] = NoJob
    BY DEF NoJob
  <2> QED
    BY <2>1, <2>2
<1>1. ASSUME NEW d \in Client PROVE Shape(d)' /\ Starting(d)'
  <2>1. d = c \/ conn'[d] = conn[d]
    BY DEF OthersStay
  <2>2. Shape(d)' /\ Starting(d)
    BY <2>1 DEF Threads, Shape
  <2>3. conn'[d].op # None => conn'[d] = conn[d] /\ conn[d].op \in Operation
    BY <2>1 DEF DaemonTypes, ConnType, Conn
  <2>4. Starting(d)'
    BY <1>0, <2>2, <2>3 DEF Shape, Starting, SubmitPc, StartPc, PtyPc
  <2> QED
    BY <2>2, <2>4
<1>2. OpsApart'
  BY DEF OpsApart, OthersStay, Threads
<1>3. ASSUME NEW o \in Operation PROVE OneRole(o)'
  BY <1>0 DEF Threads, OneRole
<1>4. ASSUME NEW s \in SessionId PROVE ActiveIsTurn(s)'
  BY DEF Threads, ActiveIsTurn, DaemonTypes, ActiveType
<1> QED
  BY <1>1, <1>2, <1>3, <1>4 DEF Threads

\* A thread that waits for a request starts nothing.
LEMMA RestStarts ==
  ASSUME NEW c \in Client, conn'[c].pc \notin SubmitPc \cup PtyPc
  PROVE  Starting(c)'
BY DEF Starting, SubmitPc, StartPc, PtyPc

\* A fresh operation is nobody's, and no session's active turn.
LEMMA FreshFacts ==
  ASSUME DaemonTypes, Threads, NEW o \in Operation, Fresh(o)
  PROVE  /\ turn[o] = NoTurn /\ job[o] = NoJob /\ accepted[o] = None
         /\ \A c \in Client : conn[c].op # o
         /\ \A s \in SessionId : active[s] # o
<1>1. turn[o].stage = "unborn"
  BY NoTurnType DEF Fresh
<1> QED
  BY <1>1, NoneAssumption DEF Fresh, Threads, ActiveIsTurn

\* A request that starts an operation keeps Threads.
LEMMA BeginsThreads ==
  ASSUME TypeOK, DaemonTypes, Threads, NEW c \in Client, NEW o \in Operation,
         SubmitSnapshot(c, o) \/ PtyStartRequest(c, o)
  PROVE  DaemonTypes' /\ Threads'
<1>0. /\ Fresh(o) /\ conn[c].pc = "idle" /\ conn[c].attached \in SessionId
      /\ UNCHANGED <<active, job, phase>>
  BY DEF SubmitSnapshot, PtyStartRequest, DaemonTypes, ConnType, Conn
<1>1. conn[c].op = None /\ conn[c].next = None /\ ~conn[c].leaving
  BY <1>0, ThreadFacts
<1>2. /\ turn[o] = NoTurn /\ job[o] = NoJob
      /\ \A d \in Client : conn[d].op # o
      /\ \A s \in SessionId : active[s] # o
  BY <1>0, FreshFacts
<1>3. /\ DaemonTypes' /\ TurnsStay(o)
      /\ \/ /\ Begins(c, o, "submit_reserve") /\ turn'[o].stage = "submitting"
            /\ turn'[o].session = conn[c].attached
         \/ Begins(c, o, "pty_reap") /\ turn' = turn
  BY SubmitSnapshotDoes, PtyStartDoes DEF PtyStartRequest, TurnsStay
<1>4. Shape(c)'
  BY <1>0, <1>1, <1>3, NoneAssumption DEF Begins, Shape, SubmitPc, PtyPc, DetachPc
<1>5. Starting(c)'
  BY <1>0, <1>2, <1>3 DEF Begins, Starting, SubmitPc, StartPc, PtyPc
<1>6. ASSUME NEW d \in Client, d # c PROVE Shape(d)' /\ Starting(d)'
  <2>1. conn'[d] = conn[d] /\ Shape(d) /\ Starting(d) /\ conn[d].op # o
    BY <1>2, <1>3, <1>6 DEF Begins, OthersStay, Threads
  <2>2. conn[d].op # None => conn[d].op \in Operation
    BY DEF DaemonTypes, ConnType, Conn
  <2>3. conn[d].op # None => turn'[conn[d].op] = turn[conn[d].op]
    BY <1>3, <2>1, <2>2 DEF TurnsStay
  <2> QED
    BY <1>0, <2>1, <2>3 DEF Shape, Starting, SubmitPc, StartPc, PtyPc
<1>7. OpsApart'
  BY <1>2, <1>3 DEF Begins, OthersStay, OpsApart, Threads
<1>8. ASSUME NEW q \in Operation PROVE OneRole(q)'
  <2>1. CASE q = o
    BY <1>0, <1>2, <1>3, <2>1, NoneAssumption DEF OneRole, NoJob, Threads
  <2>2. CASE q # o
    BY <1>0, <1>3, <2>2 DEF OneRole, TurnsStay, Threads
  <2> QED
    BY <2>1, <2>2
<1>9. ASSUME NEW s \in SessionId PROVE ActiveIsTurn(s)'
  BY <1>0, <1>2, <1>3 DEF ActiveIsTurn, TurnsStay, Threads, DaemonTypes, ActiveType
<1> QED
  BY <1>3, <1>4, <1>5, <1>6, <1>7, <1>8, <1>9 DEF Threads

\* Every request keeps Threads.
LEMMA RequestsThreads ==
  ASSUME TypeOK, DaemonTypes, Threads, NEW c \in Client, Requests(c)
  PROVE  DaemonTypes' /\ Threads'
<1> USE DEF SubmitPc, PtyPc, DetachPc
<1>0. ASSUME conn[c].pc = "idle"
      PROVE  conn[c].session = None /\ conn[c].op = None /\ conn[c].next = None
             /\ ~conn[c].leaving
  BY <1>0, ThreadFacts
<1>1. ASSUME conn[c].pc = "idle", UNCHANGED <<active, turn, job, phase>>, DaemonTypes',
             NEW s \in SessionId, NEW leaving \in BOOLEAN,
             \/ Attaches(c, s)
             \/ conn[c].attached # None /\ LetsGo(c, s, leaving)
      PROVE  Threads'
  <2>1. OthersStay(c) /\ conn'[c].op = None /\ Shape(c)'
    BY <1>0, <1>1 DEF Attaches, LetsGo, Shape
  <2>2. Starting(c)'
    BY <1>0, <1>1, RestStarts DEF Attaches, LetsGo
  <2> QED
    BY <1>1, <2>1, <2>2, ConnStep
<1>2. ASSUME NEW id \in SessionId, NEW n \in Name, NEW p \in PersistenceMode,
             NEW d \in Directory, NEW h \in ClientHistories, NEW ok \in PersistOutcome,
             CreateRequest(c, id, n, p, d, h, ok)
      PROVE  DaemonTypes' /\ Threads'
  <2>1. conn[c].pc = "idle"
    BY <1>2 DEF CreateRequest
  <2>2. CASE conn' = conn
    <3>1. Shape(c)' /\ OthersStay(c) /\ conn'[c].op = None
      BY <1>0, <2>1, <2>2 DEF Threads, Shape, OthersStay
    <3>2. Starting(c)'
      BY <2>1, <2>2, RestStarts
    <3> QED
      BY <1>2, <2>1, <3>1, <3>2, CreateDoes, ConnStep
  <2>3. /\ DaemonTypes' /\ UNCHANGED <<active, turn, job, phase>>
        /\ \/ conn' = conn
           \/ Attaches(c, id)
           \/ conn[c].attached # None /\ LetsGo(c, id, FALSE)
    BY <1>2, CreateDoes
  <2>4. CASE Attaches(c, id) \/ (conn[c].attached # None /\ LetsGo(c, id, FALSE))
    BY <1>1, <2>1, <2>3, <2>4
  <2> QED
    BY <2>2, <2>3, <2>4
<1>3. ASSUME NEW selector, NEW s \in SessionId,
             AttachRequest(c, selector, s) \/ SwitchRequest(c, selector, s)
      PROVE  DaemonTypes' /\ Threads'
  <2>1. conn[c].pc = "idle"
    BY <1>3 DEF AttachRequest, SwitchRequest
  <2> QED
    BY <1>1, <1>3, <2>1, AttachDoes
<1>4. CASE DetachRequest(c) \/ Disconnect(c)
  <2>1. /\ OthersStay(c) /\ conn'[c].op = None /\ Shape(c)'
        /\ conn'[c].pc \notin SubmitPc \cup PtyPc
    BY <1>0, <1>4, LeaveDoes DEF LetsGo, Left, Shape
  <2> QED
    BY <1>4, <2>1, LeaveDoes, ConnStep, RestStarts
<1>5. ASSUME NEW selector, NEW s \in SessionId, NEW ok \in PersistOutcome,
             CloseRequest(c, selector, s, ok)
      PROVE  DaemonTypes' /\ Threads'
  <2>1. ok \in BOOLEAN /\ conn[c].pc = "idle"
    BY <1>5, OutcomeType DEF CloseRequest
  <2>2. /\ DaemonTypes' /\ OthersStay(c) /\ UNCHANGED <<active, turn, job>>
        /\ conn'[c].op = None /\ conn'[c].pc \notin SubmitPc \cup PtyPc
    BY <1>0, <1>5, <2>1, CloseDoes
  <2>3. Shape(c)'
    BY <1>0, <1>5, <2>1, CloseDoes, NoneAssumption DEF Shape
  <2> QED
    BY <2>2, <2>3, ConnStep, RestStarts
<1>6. CASE \E d \in Directory, h \in ClientHistories, ok \in PersistOutcome : UpdateRequest(c, d, h, ok)
  <2>1. UNCHANGED <<conn, active, turn, job, phase>>
    BY <1>6 DEF UpdateRequest, daemon
  <2> QED
    BY <2>1 DEF DaemonTypes, ConnType, ActiveType, TurnType, JobType, Threads, Shape, Starting,
       OpsApart, OneRole, ActiveIsTurn
<1>7. CASE CancelRequest(c)
  <2>1. conn' = conn /\ conn[c].pc = "idle"
    BY <1>7 DEF CancelRequest
  <2>2. OthersStay(c) /\ Shape(c)' /\ conn[c].op = None /\ conn'[c].op = None
    BY <1>0, <2>1 DEF OthersStay, Shape, Threads
  <2> QED
    BY <1>7, <2>2, CancelRequestDoes, StagesStep DEF TurnsCancelled
<1>8. CASE PtyCloseRequest(c)
  <2>1. /\ conn[c].pc = "idle" /\ conn[c].attached # None /\ UNCHANGED <<active, turn>>
        /\ terminate_session(c, conn[c].attached)
    BY <1>8 DEF PtyCloseRequest
  <2>2. OthersStay(c) /\ Shape(c)' /\ conn[c].op = None /\ conn'[c].op = None /\ DaemonTypes'
    BY <1>0, <1>8, <2>1, PtyCloseDoes DEF Shape
  <2>3. \A o \in Operation : /\ job'[o].stage = job[o].stage
                             /\ job'[o].session = job[o].session
                             /\ job'[o] = job[o] \/ job[o].listed
    BY <2>1, TerminateFields DEF DaemonTypes, JobsOf
  <2> QED
    BY <2>1, <2>2, <2>3, StagesStep
<1> QED
  BY <1>2, <1>3, <1>4, <1>5, <1>6, <1>7, <1>8, BeginsThreads DEF Requests

\* A thread whose request is over keeps Threads, if it touched no turn or job.
LEMMA ReturnedShape ==
  ASSUME DaemonTypes, Threads, NEW c \in Client, NEW s,
         Returned(c, s) \/ Left(c)
  PROVE  /\ OthersStay(c) /\ Shape(c)' /\ Starting(c)' /\ conn'[c].op = None
<1>1. Shape(c)' /\ OthersStay(c) /\ conn'[c].op = None
  BY DEF Returned, Left, Shape, SubmitPc, PtyPc, DetachPc
<1>2. conn'[c].pc \notin SubmitPc \cup PtyPc
  BY DEF Returned, Left, SubmitPc, PtyPc
<1> QED
  BY <1>1, <1>2, RestStarts

\* The handlers of submit keep Threads.
LEMMA SubmitThreads ==
  ASSUME DaemonTypes, Threads, NEW c \in Client,
         \/ SubmitReserve(c) \/ SubmitSpawn(c)
         \/ \E recorded \in BOOLEAN : SubmitAudit(c, recorded)
         \/ \E ok \in BOOLEAN : SubmitBegin(c, ok)
         \/ \E ok \in PersistOutcome : SubmitNotSpawned(c, ok)
  PROVE  DaemonTypes' /\ Threads'
<1>0. conn[c].pc \in SubmitPc /\ UNCHANGED <<job, phase>>
  BY DEF SubmitReserve, SubmitSpawn, SubmitAudit, SubmitBegin, SubmitNotSpawned, SubmitPc
<1>i. PICK s \in SessionId, o \in Operation : s = conn[c].session /\ o = conn[c].op
  BY <1>0, ThreadFacts
<1> USE <1>i
<1>1. /\ s \in SessionId /\ o \in Operation /\ o # None
      /\ turn[o].stage = "submitting" /\ turn[o].session = s
      /\ Shape(c) /\ Starting(c) /\ OneRole(o) /\ \A t \in SessionId : ActiveIsTurn(t)
  BY <1>0, ThreadFacts DEF Threads, Starting
<1>2. job[o] = NoJob
  BY <1>1, NoTurnType DEF OneRole
<1>3. ASSUME DaemonTypes', UNCHANGED <<active, turn>>, NEW to \in ReservedPc, Moved(c, to)
      PROVE  Threads'
  <2>1. Shape(c)' /\ OthersStay(c) /\ conn'[c].op = o
    BY <1>0, <1>1, <1>3 DEF Moved, Shape, ReservedPc, SubmitPc, PtyPc, DetachPc
  <2>2. Starting(c)'
    BY <1>0, <1>1, <1>3 DEF Moved, Starting, ReservedPc, SubmitPc, StartPc
  <2> QED
    BY <1>0, <1>3, <2>1, <2>2, ConnStep
<1>4. ASSUME DaemonTypes', Returned(c, s), TurnsStay(o), OneRole(o)',
             \A t \in SessionId : active'[t] \in {None, active[t], o} /\ ActiveIsTurn(t)'
      PROVE  Threads'
  <2>1. OthersStay(c) /\ Shape(c)' /\ Starting(c)' /\ conn'[c].op = None
    BY <1>4, ReturnedShape
  <2> QED
    BY <1>0, <1>4, <2>1, ThreadStep DEF TurnsStay
<1>5. CASE SubmitReserve(c)
  <2>1. CASE Returned(c, s) /\ active' = active /\ TurnsStay(o) /\ turn'[o] = NoTurn
    <3>1. \A t \in SessionId : active[t] # o
      BY <1>1, <1>5 DEF SubmitReserve, Starting
    <3>2. \A t \in SessionId : ActiveIsTurn(t)'
      BY <1>1, <2>1, <3>1 DEF ActiveIsTurn, TurnsStay, DaemonTypes, ActiveType
    <3>3. OneRole(o)'
      BY <1>0, <1>2, <2>1, NoTurnType, NoJobType DEF OneRole
    <3> QED
      BY <1>4, <1>5, <2>1, <3>2, <3>3, SubmitReserveDoes
  <2>2. CASE Moved(c, "submit_audit") /\ turn' = turn /\ active' = [active EXCEPT ![s] = o]
    <3>1. Shape(c)' /\ OthersStay(c) /\ conn'[c].op = o
      BY <1>0, <1>1, <2>2 DEF Moved, Shape, SubmitPc, PtyPc, DetachPc
    <3>2. Starting(c)'
      BY <1>1, <2>2 DEF Moved, Starting, SubmitPc, StartPc
    <3>3. \A t \in SessionId : active'[t] \in {None, active[t], o} /\ ActiveIsTurn(t)'
      BY <1>1, <2>2 DEF ActiveIsTurn, DaemonTypes, ActiveType
    <3>4. OneRole(o)'
      BY <1>0, <1>1, <2>2 DEF OneRole
    <3> QED
      BY <1>0, <1>5, <2>2, <3>1, <3>2, <3>3, <3>4, SubmitReserveDoes, ThreadStep
  <2> QED
    BY <1>5, <2>1, <2>2, SubmitReserveDoes
<1>6. ASSUME DaemonTypes', Returned(c, s), Unreserve(c) PROVE Threads'
  <2>1. /\ TurnsStay(o) /\ turn'[o] = NoTurn
        /\ \A t \in SessionId \ {s} : active'[t] = active[t]
        /\ active'[s] = IF active[s] = o THEN None ELSE active[s]
    BY <1>1, <1>6, UnreserveFields DEF DaemonTypes, TurnsStay
  <2>2. \A t \in SessionId : active'[t] \in {None, active[t], o} /\ ActiveIsTurn(t)'
    BY <1>1, <2>1 DEF ActiveIsTurn, TurnsStay, DaemonTypes, ActiveType
  <2>3. OneRole(o)'
    BY <1>0, <1>2, <2>1, NoTurnType, NoJobType DEF OneRole
  <2> QED
    BY <1>4, <1>6, <2>1, <2>2, <2>3
<1>7. CASE \E recorded \in BOOLEAN : SubmitAudit(c, recorded)
  BY <1>3, <1>6, <1>7, SubmitAuditDoes DEF ReservedPc
<1>8. CASE \E ok \in BOOLEAN : SubmitBegin(c, ok)
  BY <1>3, <1>6, <1>8, SubmitBeginDoes DEF ReservedPc
<1>9. CASE SubmitSpawn(c)
  <2>1. DaemonTypes' /\ Returned(c, s) /\ TurnReaches(o, "spawned") /\ active' = active
    BY <1>9, SubmitSpawnDoes DEF SubmitSpawn
  <2>2. \A t \in SessionId : ActiveIsTurn(t)'
    BY <1>1, <2>1 DEF ActiveIsTurn, TurnReaches, TurnsStay, DaemonTypes, ActiveType
  <2>3. OneRole(o)'
    BY <1>0, <1>1, <1>2, <2>1 DEF OneRole, TurnReaches
  <2> QED
    BY <1>4, <2>1, <2>2, <2>3 DEF TurnReaches
<1>10. CASE \E ok \in PersistOutcome : SubmitNotSpawned(c, ok)
  <2>1. /\ DaemonTypes' /\ Returned(c, s)
        /\ Conclude(o) \/ UNCHANGED <<active, turn>>
    BY <1>10, SubmitNotSpawnedDoes
  <2>2. CASE UNCHANGED <<active, turn>>
    BY <1>0, <2>1, <2>2, ReturnedShape, ConnStep
  <2>3. CASE Conclude(o)
    <3>1. /\ TurnsStay(o) /\ turn'[o].stage = "over"
          /\ \A t \in SessionId \ {s} : active'[t] = active[t]
          /\ active'[s] = IF active[s] = o THEN None ELSE active[s]
      BY <1>1, <2>3, ConcludeFields DEF DaemonTypes, TurnsStay
    <3>2. \A t \in SessionId : active'[t] \in {None, active[t], o} /\ ActiveIsTurn(t)'
      BY <1>1, <3>1 DEF ActiveIsTurn, TurnsStay, DaemonTypes, ActiveType
    <3>3. OneRole(o)'
      BY <1>0, <1>2, <3>1, NoJobType DEF OneRole
    <3> QED
      BY <1>4, <2>1, <3>1, <3>2, <3>3
  <2> QED
    BY <2>1, <2>2, <2>3
<1> QED
  BY <1>5, <1>7, <1>8, <1>9, <1>10, SubmitReserveDoes, SubmitAuditDoes, SubmitBeginDoes

\* The handlers that start and stop a terminal job keep Threads.
LEMMA PtyThreads ==
  ASSUME DaemonTypes, Threads, NEW c \in Client,
         \/ PtyReap(c) \/ PtyAdmit(c) \/ PtySpawn(c) \/ PtyInsert(c)
         \/ \E recorded \in BOOLEAN : PtyAudit(c, recorded)
         \/ \E ok \in BOOLEAN : PtyBegin(c, ok)
         \/ \E ok \in PersistOutcome : PtySpawnFails(c, ok) \/ PtyInsertRefused(c, ok)
  PROVE  DaemonTypes' /\ Threads'
<1>0. conn[c].pc \in PtyPc /\ UNCHANGED <<active, turn, phase>>
  BY DEF PtyReap, PtyAdmit, PtySpawn, PtyInsert, PtyAudit, PtyBegin, PtySpawnFails,
     PtyInsertRefused, Step, PtyPc
<1>i. PICK s \in SessionId, o \in Operation : s = conn[c].session /\ o = conn[c].op
  BY <1>0, ThreadFacts DEF PtyPc
<1> USE <1>i
<1>1. o # None /\ Shape(c) /\ Starting(c) /\ OneRole(o) /\ \A t \in SessionId : ActiveIsTurn(t)'
  BY <1>0, NoneAssumption DEF Threads, ActiveIsTurn
<1>2. ASSUME DaemonTypes', NEW to \in PtyPc, Moved(c, to),
             \A q \in Operation \ {o} : job'[q] = job[q], Starting(c)', OneRole(o)'
      PROVE  Threads'
  <2>1. Shape(c)' /\ OthersStay(c) /\ conn'[c].op = o
    BY <1>0, <1>1, <1>2 DEF Moved, Shape, SubmitPc, PtyPc, DetachPc
  <2> QED
    BY <1>0, <1>1, <1>2, <2>1, ThreadStep
<1>3. ASSUME DaemonTypes', Returned(c, s), JobsStay(o), OneRole(o)' PROVE Threads'
  BY <1>0, <1>1, <1>3, ReturnedShape, ThreadStep DEF JobsStay
<1>4. UNCHANGED job => OneRole(o)' /\ JobsStay(o)
  BY <1>0, <1>1 DEF OneRole, JobsStay
<1>5. CASE PtyReap(c)
  <2>1. conn[c].pc = "pty_reap" /\ Moved(c, "pty_admit") /\ DaemonTypes'
    BY <1>5, PtyReapDoes DEF PtyReap, Step
  <2>2. job[o] = NoJob
    BY <1>1, <2>1 DEF Starting, StartPc
  <2>3. \A d \in Client : conn'[d].op = conn[d].op /\ (d # c => conn'[d] = conn[d])
    BY <2>1 DEF Moved, OthersStay
  <2>4. ASSUME NEW q \in Operation
        PROVE  /\ job'[q].stage = job[q].stage /\ job'[q].session = job[q].session
               /\ job[q] = NoJob => job'[q] = NoJob
    BY <1>5, PtyReapDoes DEF NoJob
  <2>5. Shape(c)' /\ Starting(c)'
    BY <1>0, <1>1, <2>1, <2>2, <2>4
       DEF Moved, Shape, Starting, SubmitPc, StartPc, PtyPc, DetachPc
  <2>6. ASSUME NEW d \in Client, d # c PROVE Shape(d)' /\ Starting(d)'
    <3>1. conn'[d] = conn[d] /\ Shape(d) /\ Starting(d)
      BY <2>3, <2>6 DEF Threads
    <3>2. conn[d].op # None => conn[d].op \in Operation
      BY DEF DaemonTypes, ConnType, Conn
    <3> QED
      BY <1>0, <2>4, <3>1, <3>2 DEF Shape, Starting, SubmitPc, StartPc, PtyPc
  <2>7. OpsApart' /\ \A q \in Operation : OneRole(q)'
    BY <1>0, <2>3, <2>4 DEF OpsApart, OneRole, Threads
  <2> QED
    BY <1>1, <2>1, <2>5, <2>6, <2>7 DEF Threads
<1>6. CASE PtyAdmit(c) \/ \E recorded \in BOOLEAN : PtyAudit(c, recorded)
  <2>1. UNCHANGED job /\ DaemonTypes' /\ conn[c].pc \in {"pty_admit", "pty_audit"}
    BY <1>6, PtyWaitsDo DEF PtyAdmit, PtyAudit
  <2>2. ASSUME NEW to \in {"pty_audit", "pty_begin"}, Moved(c, to) PROVE Threads'
    <3>1. Starting(c)'
      BY <1>0, <1>1, <2>1, <2>2 DEF Moved, Starting, SubmitPc, StartPc
    <3> QED
      BY <1>2, <1>4, <2>1, <2>2, <3>1 DEF PtyPc
  <2> QED
    BY <1>3, <1>4, <1>6, <2>1, <2>2, PtyWaitsDo
<1>7. CASE \E ok \in BOOLEAN : PtyBegin(c, ok)
  <2>1. UNCHANGED job /\ DaemonTypes' /\ conn[c].pc = "pty_begin"
    BY <1>7, PtyBeginDoes DEF PtyBegin
  <2>2. ASSUME Moved(c, "pty_spawn") PROVE Threads'
    <3>1. Starting(c)'
      BY <1>0, <1>1, <2>1, <2>2 DEF Moved, Starting, SubmitPc, StartPc
    <3> QED
      BY <1>2, <1>4, <2>1, <2>2, <3>1 DEF PtyPc
  <2> QED
    BY <1>3, <1>4, <1>7, <2>1, <2>2, PtyBeginDoes
<1>8. CASE PtySpawn(c)
  <2>1. /\ DaemonTypes' /\ Moved(c, "pty_insert") /\ JobsStay(o)
        /\ job'[o].stage = "starting" /\ job'[o].session = s /\ conn[c].pc = "pty_spawn"
    BY <1>8, PtySpawnDoes DEF PtySpawn, Step
  <2>2. turn[o] = NoTurn
    BY <1>1, <2>1 DEF Starting, StartPc
  <2>3. Starting(c)'
    BY <2>1 DEF Moved, Starting, SubmitPc, StartPc
  <2>4. OneRole(o)'
    BY <1>0, <2>1, <2>2, NoTurnType, NoneAssumption DEF OneRole
  <2> QED
    BY <1>2, <2>1, <2>3, <2>4 DEF PtyPc, JobsStay
<1>9. ASSUME conn[c].pc = "pty_insert", job'[o].stage \in {"running", "finished"},
             job'[o].session = job[o].session \/ job'[o].stage = "finished"
      PROVE  OneRole(o)'
  <2>1. turn[o] = NoTurn /\ job[o].session = s
    BY <1>1, <1>9, NoJobType DEF Starting, OneRole
  <2> QED
    BY <1>0, <1>9, <2>1, NoTurnType, NoneAssumption DEF OneRole
<1>10. CASE PtyInsert(c)
  BY <1>3, <1>9, <1>10, PtyInsertDoes DEF PtyInsert
<1>11. CASE \E ok \in PersistOutcome : PtySpawnFails(c, ok)
  <2>1. UNCHANGED job
    BY <1>11 DEF PtySpawnFails
  <2> QED
    BY <1>3, <1>4, <1>11, <2>1, PtySpawnFailsDoes
<1>12. CASE \E ok \in PersistOutcome : PtyInsertRefused(c, ok)
  BY <1>3, <1>9, <1>12, PtyInsertRefusedDoes DEF PtyInsertRefused
<1> QED
  BY <1>5, <1>6, <1>7, <1>8, <1>10, <1>11, <1>12, PtyWaitsDo, PtyBeginDoes,
     PtyInsertDoes, PtySpawnFailsDoes, PtyInsertRefusedDoes

\* The handlers of detach and close keep Threads.
LEMMA LeaveThreads ==
  ASSUME DaemonTypes, Threads, NEW c \in Client,
         \/ DetachSnapshot(c) \/ DetachCancel(c) \/ DetachTerminate(c) \/ DetachWait(c)
         \/ CloseTerminate(c) \/ CloseWait(c) \/ CloseCancel(c) \/ PtyCloseWait(c)
         \/ \E ok \in PersistOutcome : DetachRegistry(c, ok)
  PROVE  DaemonTypes' /\ Threads'
<1>0. conn[c].pc \in DetachPc \cup ClosePc \cup {"ptyclose_wait"} /\ UNCHANGED phase
  BY DEF DetachSnapshot, DetachCancel, DetachTerminate, DetachWait, CloseTerminate, CloseWait,
     CloseCancel, PtyCloseWait, DetachRegistry, Step, DetachPc, ClosePc
<1>1. Shape(c) /\ conn[c].op = None
  BY <1>0, ThreadFacts DEF Threads, DetachPc, ClosePc, SubmitPc, PtyPc
<1>2. ASSUME NEW to, Moved(c, to), \/ conn[c].pc \in DetachPc /\ to \in DetachPc
                                   \/ conn[c].pc \in ClosePc /\ to \in ClosePc
      PROVE  OthersStay(c) /\ Shape(c)' /\ Starting(c)' /\ conn'[c].op = None
  <2>1. OthersStay(c) /\ Shape(c)' /\ conn'[c].op = None
    BY <1>1, <1>2 DEF Moved, Shape, SubmitPc, PtyPc, DetachPc, ClosePc
  <2>2. conn'[c].pc \notin SubmitPc \cup PtyPc
    BY <1>2 DEF Moved, SubmitPc, PtyPc, DetachPc, ClosePc
  <2> QED
    BY <2>1, <2>2, RestStarts
<1>3. ASSUME NEW s \in SessionId, cancel_and_remove(s), UNCHANGED job
      PROVE  /\ \A o \in Operation :
                  /\ turn'[o].stage = turn[o].stage /\ turn'[o].session = turn[o].session
                  /\ turn'[o] = turn[o] \/ \E t \in SessionId : active[t] = o
                  /\ job'[o] = job[o]
             /\ \A t \in SessionId : active'[t] \in {None, active[t]}
  BY <1>3, CancelFields DEF DaemonTypes, ActiveType
<1>4. CASE DetachSnapshot(c)
  <2>1. OthersStay(c) /\ Shape(c)' /\ Starting(c)' /\ conn'[c].op = None
    BY <1>2, <1>4, DetachSnapshotDoes, ReturnedShape DEF DetachPc
  <2> QED
    BY <1>4, <2>1, DetachSnapshotDoes, ConnStep
<1>5. CASE DetachCancel(c)
  <2>1. OthersStay(c) /\ Shape(c)' /\ conn'[c].op = None
    BY <1>2, <1>5, DetachCancelDoes DEF DetachPc
  <2> QED
    BY <1>1, <1>3, <1>5, <2>1, DetachCancelDoes, StagesStep DEF DetachCancel
<1>6. CASE DetachTerminate(c) \/ CloseTerminate(c)
  <2>1. OthersStay(c) /\ Shape(c)' /\ conn'[c].op = None
    BY <1>2, <1>6, TerminateDoes DEF DetachPc, ClosePc
  <2>2. DaemonTypes' /\ UNCHANGED <<active, turn>> /\ terminate_session(c, conn[c].session)
    BY <1>6, TerminateDoes
  <2>3. \A o \in Operation : /\ job'[o].stage = job[o].stage
                             /\ job'[o].session = job[o].session
                             /\ job'[o] = job[o] \/ job[o].listed
    BY <2>2, TerminateFields DEF DaemonTypes, JobsOf
  <2> QED
    BY <1>1, <2>1, <2>2, <2>3, StagesStep
<1>7. CASE DetachWait(c) \/ CloseWait(c)
  <2>1. OthersStay(c) /\ Shape(c)' /\ Starting(c)' /\ conn'[c].op = None
    BY <1>2, <1>7, WaitDoes DEF DetachPc, ClosePc
  <2> QED
    BY <1>7, <2>1, WaitDoes, ConnStep
<1>8. CASE \E ok \in PersistOutcome : DetachRegistry(c, ok)
  <2>1. PICK ok \in PersistOutcome : DetachRegistry(c, ok)
    BY <1>8
  <2>2. ok \in BOOLEAN
    BY OutcomeType
  <2>3. OthersStay(c) /\ Shape(c)' /\ Starting(c)' /\ conn'[c].op = None
    BY <2>1, <2>2, DetachRegistryDoes, ReturnedShape
  <2> QED
    BY <2>1, <2>2, <2>3, DetachRegistryDoes, ConnStep
<1>9. CASE CloseCancel(c)
  <2>1. OthersStay(c) /\ Shape(c)' /\ conn'[c].op = None
    BY <1>9, CloseCancelDoes, ReturnedShape
  <2> QED
    BY <1>1, <1>3, <1>9, <2>1, CloseCancelDoes, StagesStep
<1>10. CASE PtyCloseWait(c)
  <2>1. OthersStay(c) /\ Shape(c)' /\ Starting(c)' /\ conn'[c].op = None
    BY <1>10, PtyCloseWaitDoes, ReturnedShape
  <2> QED
    BY <1>10, <2>1, PtyCloseWaitDoes, ConnStep DEF PtyCloseWait
<1> QED
  BY <1>4, <1>5, <1>6, <1>7, <1>8, <1>9, <1>10

\* The workers keep Threads.
LEMMA WorkerThreads ==
  ASSUME TypeOK, DaemonTypes, Threads, NEW o \in Operation, TurnWorker(o) \/ JobWorker(o)
  PROVE  DaemonTypes' /\ Threads'
<1>1. CASE TurnWorker(o)
  <2>0. directories \subseteq Directory
    BY DEF TypeOK
  <2>1. /\ DaemonTypes' /\ UNCHANGED <<conn, job, phase>> /\ TurnAlive(o)
        /\ turn[o].session \in SessionId
        /\ \/ Conclude(o)
           \/ active' = active /\ \E stage \in {"running", "ended", "persisted"} : TurnReaches(o, stage)
    BY <1>1, <2>0, TurnWorkerDoes
  <2>2. /\ TurnsStay(o) /\ turn'[o].stage \in {"running", "ended", "persisted", "over"}
        /\ turn'[o].stage # "over" => turn'[o].session = turn[o].session
        /\ \A s \in SessionId : \/ active'[s] = active[s] /\ turn'[o].stage # "over"
                                \/ active'[s] = IF active[s] = o /\ s = turn[o].session
                                                  THEN None ELSE active[s]
    BY <2>1, ConcludeFields DEF DaemonTypes, TurnReaches, TurnsStay
  <2>3. job[o] = NoJob /\ \A c \in Client : conn[c].op # o
    <3>1. job[o] = NoJob
      BY <2>1, NoTurnType DEF TurnAlive, Threads, OneRole
    <3>2. ASSUME NEW c \in Client, conn[c].op = o PROVE FALSE
      <4>1. Shape(c) /\ Starting(c) /\ conn[c].op # None
        BY <3>2, NoneAssumption DEF Threads
      <4>2. /\ turn[o].stage \notin {"submitting", "unborn"} /\ turn[o] # NoTurn
            /\ job[o].stage # "starting"
        BY <2>1, <3>1, NoTurnType, NoJobType DEF TurnAlive
      <4> QED
        BY <3>2, <4>1, <4>2 DEF Shape, Starting, SubmitPc, StartPc, PtyPc
    <3> QED
      BY <3>1, <3>2
  <2>4. ASSUME NEW c \in Client PROVE Shape(c)' /\ Starting(c)'
    <3>1. Shape(c) /\ Starting(c) /\ conn'[c] = conn[c] /\ conn[c].op # o
      BY <2>1, <2>3 DEF Threads
    <3>2. conn[c].op # None => conn[c].op \in Operation
      BY DEF DaemonTypes, ConnType, Conn
    <3>3. conn[c].op # None => turn'[conn[c].op] = turn[conn[c].op]
      BY <2>2, <3>1, <3>2 DEF TurnsStay
    <3> QED
      BY <2>1, <2>2, <3>1, <3>3 DEF Shape, Starting, SubmitPc, StartPc, PtyPc
  <2>5. OpsApart' /\ \A q \in Operation : OneRole(q)'
    BY <2>1, <2>2, <2>3, NoneAssumption DEF OpsApart, OneRole, TurnsStay, Threads
  <2>6. ASSUME NEW s \in SessionId PROVE ActiveIsTurn(s)'
    BY <2>1, <2>2 DEF ActiveIsTurn, TurnsStay, Threads, DaemonTypes, ActiveType
  <2> QED
    BY <2>1, <2>4, <2>5, <2>6 DEF Threads
<1>2. CASE JobWorker(o)
  <2>1. /\ DaemonTypes' /\ UNCHANGED <<conn, active, turn>> /\ JobsStay(o)
        /\ job'[o].session = job[o].session
        /\ job[o].stage \in {"running", "exited"} /\ job'[o].stage \in {"exited", "finished"}
    BY <1>2, JobWorkerDoes
  <2>2. turn[o] = NoTurn /\ job[o].session # None
    BY <2>1, NoJobType DEF Threads, OneRole
  <2>3. ASSUME NEW c \in Client PROVE Shape(c)' /\ Starting(c)'
    <3>1. Shape(c) /\ Starting(c) /\ conn'[c] = conn[c]
      BY <2>1 DEF Threads
    <3>2. conn[c].op # None => conn[c].op \in Operation /\ conn[c].op # o
      <4>1. /\ turn[o].stage # "submitting" /\ job[o] # NoJob /\ job[o].stage # "starting"
        BY <2>1, <2>2, NoTurnType, NoJobType
      <4>2. conn[c].op # None => conn[c].op \in Operation
        BY DEF DaemonTypes, ConnType, Conn
      <4>3. conn[c].op # None => conn[c].op # o
        BY <3>1, <4>1 DEF Shape, Starting, SubmitPc, StartPc, PtyPc
      <4> QED
        BY <4>2, <4>3
    <3>3. conn[c].op # None => job'[conn[c].op] = job[conn[c].op]
      BY <2>1, <3>2 DEF JobsStay
    <3> QED
      BY <2>1, <3>1, <3>3 DEF Shape, Starting, SubmitPc, StartPc, PtyPc
  <2>4. OpsApart' /\ \A s \in SessionId : ActiveIsTurn(s)'
    BY <2>1 DEF OpsApart, ActiveIsTurn, Threads
  <2>5. ASSUME NEW q \in Operation PROVE OneRole(q)'
    BY <2>1, <2>2, NoTurnType DEF OneRole, JobsStay, Threads
  <2> QED
    BY <2>1, <2>3, <2>4, <2>5 DEF Threads
<1> QED
  BY <1>1, <1>2

\* The shutdown sequence, the end of the process and its restart keep Threads.
LEMMA LifeThreads ==
  ASSUME DaemonTypes, Threads, Shutdown \/ Stop \/ UNCHANGED <<conn, active, turn, job, phase>>
  PROVE  DaemonTypes' /\ Threads'
<1>1. CASE UNCHANGED <<conn, active, turn, job>> /\ phase' \in Phase
  BY <1>1 DEF DaemonTypes, ConnType, ActiveType, TurnType, JobType, Threads, Shape, Starting,
     OpsApart, OneRole, ActiveIsTurn
<1>2. CASE StopAdmission \/ StopPtys
  BY <1>1, <1>2 DEF StopAdmission, StopPtys, Phase
<1>3. ASSUME DaemonTypes', UNCHANGED conn,
             \A o \in Operation :
               /\ turn'[o].stage = turn[o].stage /\ turn'[o].session = turn[o].session
               /\ turn'[o] = turn[o] \/ \E s \in SessionId : active[s] = o
               /\ job'[o].stage = job[o].stage /\ job'[o].session = job[o].session
               /\ job'[o] = job[o] \/ job[o].listed,
             active' = active
      PROVE  Threads'
  <2>1. ASSUME NEW o \in Operation
        PROVE  (turn[o] = NoTurn => turn'[o] = NoTurn) /\ (job[o] = NoJob => job'[o] = NoJob)
    <3>1. ASSUME NEW s \in SessionId, active[s] = o PROVE turn[o].stage # "unborn"
      BY <3>1, NoneAssumption DEF Threads, ActiveIsTurn
    <3>2. NoTurn.stage = "unborn"
      BY NoTurnType
    <3>3. job[o] = NoJob => job'[o] = NoJob
      BY <1>3 DEF NoJob
    <3> QED
      BY <1>3, <3>1, <3>2, <3>3
  <2>2. ASSUME NEW d \in Client PROVE Shape(d)' /\ Starting(d)'
    <3>1. Shape(d) /\ Starting(d) /\ conn'[d] = conn[d]
      BY <1>3 DEF Threads
    <3>2. conn[d].op # None => conn[d].op \in Operation
      BY DEF DaemonTypes, ConnType, Conn
    <3> QED
      BY <1>3, <2>1, <3>1, <3>2 DEF Shape, Starting, SubmitPc, StartPc, PtyPc
  <2>3. OpsApart' /\ (\A o \in Operation : OneRole(o)')
    BY <1>3, <2>1 DEF OpsApart, OneRole, Threads
  <2>4. \A s \in SessionId : ActiveIsTurn(s)'
    BY <1>3 DEF ActiveIsTurn, Threads, DaemonTypes, ActiveType
  <2> QED
    BY <2>2, <2>3, <2>4 DEF Threads
<1>4. CASE CancelActive
  BY <1>3, <1>4, CancelActiveDoes DEF TurnsCancelled
<1>5. CASE DrainPtys
  BY <1>3, <1>5, DrainDoes
<1>6. CASE Stop
  <2>1. ASSUME NEW c \in Client PROVE Shape(c)' /\ Starting(c)' /\ conn'[c].op = None
    BY <1>6, StopDoes DEF Shape, Starting, SubmitPc, StartPc, PtyPc, DetachPc
  <2>2. \A s \in SessionId : ActiveIsTurn(s)'
    BY <1>6, StopDoes DEF ActiveIsTurn
  <2>3. ASSUME NEW o \in Operation PROVE OneRole(o)'
    <3>1. turn'[o] = NoTurn \/ job'[o] = NoJob
      BY <1>6 DEF Stop, Threads, OneRole
    <3> QED
      BY <1>6, <3>1, StopDoes DEF OneRole
  <2> QED
    BY <1>6, <2>1, <2>2, <2>3, StopDoes DEF Threads, OpsApart
<1> QED
  BY <1>1, <1>2, <1>4, <1>5, <1>6 DEF Shutdown, DaemonTypes

\* Every step of the daemon keeps the types of its own variables, and Threads.
LEMMA ThreadsNext ==
  ASSUME TypeOK, DaemonTypes, Threads, [DaemonNext]_vars
  PROVE  DaemonTypes' /\ Threads'
<1>1. ASSUME NEW c \in Client, Requests(c) \/ Handler(c) PROVE DaemonTypes' /\ Threads'
  BY <1>1, RequestsThreads, SubmitThreads, PtyThreads, LeaveThreads DEF Handler
<1>2. ASSUME NEW o \in Operation, TurnWorker(o) \/ JobWorker(o) PROVE DaemonTypes' /\ Threads'
  BY <1>2, WorkerThreads
<1>3. CASE Restart \/ Environment \/ UNCHANGED vars
  BY <1>3, LifeThreads DEF Restart, Environment, vars, daemon
<1> QED
  BY <1>1, <1>2, <1>3, LifeThreads DEF DaemonNext

-----------------------------------------------------------------------------
(* What compaction may leave of a history.                                 *)

\* History h speaks of operations in S as recorded and of operations in C as
\* outcome_unknown, and of each operation once.
Says(h, S, C) ==
  /\ \A i \in 1..Len(h) : \/ \E q \in S : h[i] = Recorded(q)
                          \/ \E q \in C : h[i] = OutcomeUnknown(q)
  /\ \A i, j \in 1..Len(h) : i # j => h[i].operation # h[j].operation

\* A history says no less when more operations have ended.
LEMMA SaysMore ==
  ASSUME NEW h, NEW S, NEW C, NEW T, NEW D, Says(h, S, C), S \subseteq T, C \subseteq D
  PROVE  Says(h, T, D)
BY DEF Says

\* An empty history says nothing.
LEMMA SaysNothing == ASSUME NEW S, NEW C PROVE Says(<<>>, S, C)
BY DEF Says

\* The operation of a recorded or an unknown outcome.
LEMMA MessageOf ==
  ASSUME NEW o \in Operation
  PROVE  /\ Recorded(o) \in Message /\ Recorded(o).operation = o
         /\ OutcomeUnknown(o) \in Message /\ OutcomeUnknown(o).operation = o
BY DEF Recorded, OutcomeUnknown, Message

\* A non-empty set of naturals has the minimum that Min chooses.
LEMMA MinIsLeast ==
  ASSUME NEW S \in SUBSET Nat, S # {}
  PROVE  Min(S) \in S /\ \A y \in S : Min(S) <= y
<1> DEFINE R == {ss \in Nat \X Nat : ss[1] < ss[2]}
<1>0. IsWellFoundedOn(R, Nat)
  BY NatLessThanWellFounded DEF OpToRel
<1>1. \E x \in S : \A y \in S : ~ (<<y, x>> \in R)
  <2> HIDE DEF R
  <2> QED
    BY <1>0, WFMin, Zenon
<1>2. \A x, y \in Nat : ~(<<y, x>> \in R) => x <= y
  OBVIOUS
<1>3. \E x \in S : \A y \in S : x <= y
  <2> HIDE DEF R
  <2> QED
    BY <1>1, <1>2
<1> QED
  BY <1>3 DEF Min

\* The messages of r are messages of h, each from a place of its own.
Picks(r, h) ==
  \E f \in [1..Len(r) -> 1..Len(h)] :
    /\ \A i \in 1..Len(r) : r[i] = h[f[i]]
    /\ \A i, j \in 1..Len(r) : i # j => f[i] # f[j]

\* A beginning and an end of a history that do not overlap.
LEMMA EndsPick ==
  ASSUME NEW h \in Seq(Message), NEW m \in 1..Len(h), NEW k \in 1..Len(h), m <= k
  PROVE  LET r == SubSeq(h, 1, m - 1) \o SubSeq(h, k, Len(h))
         IN  r \in Seq(Message) /\ Picks(r, h)
<1> DEFINE a == SubSeq(h, 1, m - 1)
           b == SubSeq(h, k, Len(h))
           r == a \o b
           f == [i \in 1..Len(r) |-> IF i < m THEN i ELSE i - m + k]
<1>1. Len(h) \in Nat /\ m \in Nat /\ k \in Nat
  OBVIOUS
<1>2. /\ a \in Seq(Message) /\ Len(a) = m - 1
      /\ \A i \in 1..(m - 1) : a[i] = h[i]
  <2>1. \A i \in 1..(m - 1) : h[i] \in Message
    BY <1>1
  <2> QED
    BY <1>1, <2>1, SubSeqProperties
<1>3. /\ b \in Seq(Message) /\ Len(b) = Len(h) - k + 1
      /\ \A i \in 1..(Len(h) - k + 1) : b[i] = h[k + i - 1]
  <2>1. \A i \in k..Len(h) : h[i] \in Message
    BY <1>1
  <2> QED
    BY <1>1, <2>1, SubSeqProperties
<1> HIDE DEF a, b
<1>4. /\ r \in Seq(Message) /\ Len(r) = Len(a) + Len(b)
      /\ \A i \in 1..Len(r) : r[i] = IF i <= Len(a) THEN a[i] ELSE b[i - Len(a)]
  <2>1. a \in Seq(Message) /\ b \in Seq(Message)
    BY <1>2, <1>3
  <2>2. /\ r \in Seq(Message) /\ Len(r) = Len(a) + Len(b)
        /\ \A i \in 1..(Len(a) + Len(b)) : r[i] = IF i <= Len(a) THEN a[i] ELSE b[i - Len(a)]
    BY <2>1, ConcatProperties
  <2> QED
    BY <2>2
<1>5. Len(r) = (m - 1) + (Len(h) - k + 1)
  BY <1>2, <1>3, <1>4
<1> HIDE DEF r, f
<1>6. \A i \in 1..Len(r) : f[i] = IF i < m THEN i ELSE i - m + k
  BY DEF f
<1>7. ASSUME NEW i \in 1..Len(r), i < m
      PROVE  f[i] = i /\ f[i] \in 1..(m - 1) /\ r[i] = h[f[i]]
  <2>1. f[i] = i /\ i \in 1..(m - 1) /\ i <= m - 1
    BY <1>1, <1>5, <1>6, <1>7
  <2>2. r[i] = a[i]
    BY <1>2, <1>4, <2>1
  <2> QED
    BY <1>2, <2>1, <2>2
<1>8. ASSUME NEW i \in 1..Len(r), ~(i < m)
      PROVE  f[i] = i - m + k /\ f[i] \in k..Len(h) /\ r[i] = h[f[i]]
  <2>1. i \in Int /\ f[i] = i - m + k
    BY <1>5, <1>6, <1>8
  <2>2. f[i] \in k..Len(h) /\ i - (m - 1) \in 1..(Len(h) - k + 1) /\ ~(i <= m - 1)
    BY <1>1, <1>5, <1>8, <2>1
  <2>3. r[i] = b[i - (m - 1)]
    BY <1>2, <1>4, <2>2
  <2>4. k + (i - (m - 1)) - 1 = f[i]
    BY <1>1, <2>1
  <2>5. b[i - (m - 1)] = h[k + (i - (m - 1)) - 1]
    BY <1>3, <2>2
  <2> QED
    BY <2>1, <2>2, <2>3, <2>4, <2>5
<1>9. f \in [1..Len(r) -> 1..Len(h)]
  <2>1. \A i \in 1..Len(r) : f[i] \in 1..Len(h)
    BY <1>1, <1>7, <1>8
  <2> QED
    BY <2>1 DEF f
<1>10. \A i, j \in 1..Len(r) : i # j => f[i] # f[j]
  <2> SUFFICES ASSUME NEW i \in 1..Len(r), NEW j \in 1..Len(r), i # j PROVE f[i] # f[j]
    OBVIOUS
  <2>1. i \in Int /\ j \in Int
    BY <1>5
  <2> QED
    BY <1>1, <1>7, <1>8, <2>1
<1>11. Picks(r, h)
  BY <1>7, <1>8, <1>9, <1>10 DEF Picks
<1> QED
  BY <1>4, <1>11 DEF r, a, b

\* The messages that compaction keeps are messages of the history: none is new
\* and none is doubled.
LEMMA CompactedPicks ==
  ASSUME NEW h \in Seq(Message), NEW r \in Compacted(h)
  PROVE  r \in Seq(Message) /\ Picks(r, h)
<1> DEFINE starts == {i \in 1..Len(h) : h[i] = Recorded(h[i].operation)}
<1>1. CASE r = h
  <2> DEFINE f == [i \in 1..Len(h) |-> i]
  <2>1. f \in [1..Len(h) -> 1..Len(h)]
    OBVIOUS
  <2> QED
    BY <1>1, <2>1 DEF Picks
<1>2. ASSUME NEW k \in starts, r = SubSeq(h, 1, Min(starts) - 1) \o SubSeq(h, k, Len(h))
      PROVE  r \in Seq(Message) /\ Picks(r, h)
  <2>1. starts \in SUBSET Nat /\ starts # {}
    BY <1>2
  <2>2. PICK m \in 1..Len(h) : m = Min(starts) /\ m <= k
    BY <2>1, MinIsLeast
  <2>3. k \in 1..Len(h)
    OBVIOUS
  <2> QED
    BY <1>2, <2>2, <2>3, EndsPick
<1> QED
  BY <1>1, <1>2 DEF Compacted

\* What is picked from a history says no more than the history.
LEMMA PickedSays ==
  ASSUME NEW h, NEW r, NEW S, NEW C, Says(h, S, C), Picks(r, h)
  PROVE  Says(r, S, C)
<1>1. PICK f \in [1..Len(r) -> 1..Len(h)] :
        /\ \A i \in 1..Len(r) : r[i] = h[f[i]]
        /\ \A i, j \in 1..Len(r) : i # j => f[i] # f[j]
  BY DEF Picks
<1>2. \A i \in 1..Len(r) : f[i] \in 1..Len(h)
  BY <1>1
<1> QED
  BY <1>1, <1>2 DEF Says

\* Nothing in history h is about operation o.
Silent(h, o) == \A i \in 1..Len(h) : h[i].operation # o

\* The record of a turn that the history did not know yet.
LEMMA AppendSays ==
  ASSUME NEW h \in Seq(Message), NEW S, NEW C, NEW o \in Operation, Says(h, S, C),
         Silent(h, o), NEW m \in {Recorded(o), OutcomeUnknown(o)},
         NEW T, NEW D, S \subseteq T, C \subseteq D, o \in T, o \in D \/ m = Recorded(o)
  PROVE  Append(h, m) \in Seq(Message) /\ Says(Append(h, m), T, D)
<1> DEFINE a == Append(h, m)
<1>1. m \in Message /\ m.operation = o
  BY MessageOf
<1>2. /\ a \in Seq(Message) /\ Len(a) = Len(h) + 1
      /\ \A i \in 1..Len(h) : a[i] = h[i]
      /\ a[Len(h) + 1] = m
  BY <1>1, AppendProperties
<1>3. Len(h) \in Nat
  OBVIOUS
<1> HIDE DEF a
<1>4. \A i \in 1..Len(a) : i \in 1..Len(h) \/ i = Len(h) + 1
  BY <1>2, <1>3
<1>5. \A i \in 1..Len(a) : \/ \E q \in T : a[i] = Recorded(q)
                           \/ \E q \in D : a[i] = OutcomeUnknown(q)
  BY <1>2, <1>4 DEF Says
<1>6. \A i, j \in 1..Len(a) : i # j => a[i].operation # a[j].operation
  BY <1>1, <1>2, <1>4 DEF Says, Silent
<1> QED
  BY <1>2, <1>5, <1>6 DEF Says, a

\* A history is no longer than the number of operations it speaks of.
LEMMA SaysLength ==
  ASSUME NEW h \in Seq(Message), NEW S \in SUBSET Operation, NEW C, C \subseteq S,
         IsFiniteSet(S), Says(h, S, C)
  PROVE  Len(h) <= Cardinality(S)
<1> DEFINE f == [i \in 1..Len(h) |-> h[i].operation]
<1>1. \A q \in S : Recorded(q).operation = q /\ OutcomeUnknown(q).operation = q
  BY MessageOf
<1>2. \A i \in 1..Len(h) : h[i].operation \in S
  BY <1>1 DEF Says
<1>3. f \in [1..Len(h) -> S]
  BY <1>2
<1>4. f \in Injection(1..Len(h), S)
  BY <1>3 DEF Injection, IsInjective, Says
<1>5. Cardinality(1..Len(h)) <= Cardinality(S)
  <2> HIDE DEF f
  <2> QED
    BY <1>4, FS_Injection
<1>6. Len(h) \in Nat
  OBVIOUS
<1>7. Cardinality(1..Len(h)) = Len(h)
  BY <1>6, FS_Interval
<1> QED
  BY <1>5, <1>7

\* What a turn of operation o makes of the history it was given is one of the
\* histories that the registry expects of it.
LEMMA TurnResultsSay ==
  ASSUME NEW h \in Seq(Message), NEW o \in Operation, settled \subseteq Operation,
         concluded \subseteq settled, IsFiniteSet(settled),
         Says(h, settled, concluded), Silent(h, o), NEW r \in TurnResults(h, o)
  PROVE  r \in TurnHistories(o)
<1>1. Says(h, settled \cup {o}, concluded)
  BY SaysMore
<1>2. /\ Append(h, Recorded(o)) \in Seq(Message)
      /\ Says(Append(h, Recorded(o)), settled \cup {o}, concluded)
  BY AppendSays
<1>3. r \in Seq(Message) /\ Says(r, settled \cup {o}, concluded)
  BY <1>1, <1>2, CompactedPicks, PickedSays DEF TurnResults
<1>4. IsFiniteSet(settled \cup {o})
  BY FS_AddElement
<1>5. Len(r) <= Cardinality(settled \cup {o}) /\ Cardinality(settled \cup {o}) \in Nat
  <2>1. settled \cup {o} \in SUBSET Operation /\ concluded \subseteq settled \cup {o}
    OBVIOUS
  <2> QED
    BY <1>3, <1>4, <2>1, SaysLength, FS_CardinalityType
<1>6. Len(r) \in 0..Cardinality(settled \cup {o})
  BY <1>3, <1>5
<1>7. r \in [1..Len(r) -> Sayable(o)]
  <2>1. \A i \in 1..Len(r) : r[i] \in Sayable(o)
    BY <1>3 DEF Says, Sayable
  <2>2. r \in [1..Len(r) -> Message]
    BY <1>3
  <2> QED
    BY <2>1, <2>2
<1>8. \A i, j \in 1..Len(r) : i # j => r[i].operation # r[j].operation
  BY <1>3 DEF Says
<1> QED
  BY <1>6, <1>7, <1>8 DEF TurnHistories

-----------------------------------------------------------------------------
(***************************************************************************)
(* More that every caller of Spec keeps: the histories in memory and in    *)
(* the file speak of operations that have ended, once each; only a durable *)
(* session has a marker; finitely many operations have begun.              *)
(***************************************************************************)

Begun == {o \in Operation : accepted[o] # None}

LiveSays ==
  \A s \in SessionId : Live(s) => Says(sessions[s].snapshot.history, settled, concluded)

SavedSays ==
  \A s \in SessionId : Saved(s) => Says(disk.sessions[s].history, concluded, concluded)

MarkerDurable == \A s \in SessionId : Live(s) /\ in_flight[s] # None => IsDurable(s)

HistoryInv == LiveSays /\ SavedSays /\ MarkerDurable /\ IsFiniteSet(Begun)

\* persist() writes what memory says, and what memory holds has ended.
LEMMA PersistSays ==
  ASSUME SavedSays, NEW ok \in BOOLEAN, persist(ok), concluded \subseteq settled',
         \A s \in SessionId : sessions'[s] # None =>
           Says(sessions'[s].snapshot.history, settled', concluded)
  PROVE  LiveSays' /\ SavedSays'
<1>1. concluded \subseteq concluded'
  BY DEF persist
<1>2. LiveSays'
  <2> SUFFICES ASSUME NEW s \in SessionId, sessions'[s] # None
               PROVE  Says(sessions'[s].snapshot.history, settled', concluded')
    BY DEF LiveSays, Live
  <2> QED
    BY <1>1, SaysMore
<1>3. CASE ok
  <2>1. disk' = DurableImage(sessions', in_flight') /\ concluded' = settled'
    BY <1>3 DEF persist
  <2> SUFFICES ASSUME NEW s \in SessionId, disk'.sessions[s] # None
               PROVE  Says(disk'.sessions[s].history, concluded', concluded')
    BY <1>2 DEF SavedSays, Saved
  <2>2. sessions'[s] # None /\ disk'.sessions[s] = sessions'[s].snapshot
    BY <2>1 DEF DurableImage
  <2>3. Says(sessions'[s].snapshot.history, settled', concluded')
    BY <1>2, <2>2 DEF LiveSays, Live
  <2> QED
    BY <2>1, <2>2, <2>3
<1>4. CASE ~ok
  BY <1>2, <1>4 DEF persist, SavedSays, Saved
<1> QED
  BY <1>3, <1>4

\* The replacement of one record by r, or its removal, before a persist().
LEMMA RecordSays ==
  ASSUME IInv, HistoryInv, NEW s \in SessionId, NEW r, NEW ok \in BOOLEAN,
         persist(ok), sessions' = [sessions EXCEPT ![s] = r],
         settled \subseteq settled', accepted' = accepted,
         \A t \in SessionId : in_flight'[t] \in {None, in_flight[t]},
         r # None => /\ Says(r.snapshot.history, settled', concluded)
                     /\ \/ s \notin issued
                        \/ Live(s) /\ r.snapshot.persistence = sessions[s].snapshot.persistence
  PROVE  HistoryInv'
<1>0. \A t \in SessionId : sessions'[t] = IF t = s THEN r ELSE sessions[t]
  BY DEF IInv, TypeOK
<1>1. concluded \subseteq settled'
  BY DEF IInv, MemoryInv
<1>2. ASSUME NEW t \in SessionId, sessions'[t] # None
      PROVE  Says(sessions'[t].snapshot.history, settled', concluded)
  <2>1. CASE t = s
    BY <1>0, <1>2, <2>1
  <2>2. CASE t # s
    <3>1. Says(sessions[t].snapshot.history, settled, concluded) /\ sessions'[t] = sessions[t]
      BY <1>0, <1>2, <2>2 DEF HistoryInv, LiveSays, Live
    <3> QED
      BY <3>1, SaysMore
  <2> QED
    BY <2>1, <2>2
<1>3. LiveSays' /\ SavedSays'
  BY <1>1, <1>2, PersistSays DEF HistoryInv
<1>4. ASSUME NEW t \in SessionId, sessions'[t] # None, in_flight'[t] # None
      PROVE  sessions'[t].snapshot.persistence = "Durable"
  <2>1. in_flight[t] # None /\ in_flight[t] \in Operation
    BY <1>4 DEF IInv, TypeOK
  <2>2. t \in issued
    BY <2>1, NoneAssumption DEF IInv, MemoryInv, MarkerSound, AcceptedIssued
  <2>3. Live(t) /\ sessions'[t].snapshot.persistence = sessions[t].snapshot.persistence
    BY <1>0, <1>4, <2>2 DEF Live
  <2> QED
    BY <2>1, <2>3 DEF HistoryInv, MarkerDurable, IsDurable
<1>5. MarkerDurable'
  BY <1>4 DEF MarkerDurable, IsDurable, Live
<1>6. Begun' = Begun
  BY DEF Begun
<1> QED
  BY <1>3, <1>5, <1>6 DEF HistoryInv

\* The histories that a client sends say nothing new.
LEMMA ClientSays ==
  ASSUME HistoryInv, NEW h \in ClientHistories
  PROVE  Says(h, settled, concluded)
<1>1. CASE h = <<>>
  BY <1>1, SaysNothing
<1>2. CASE h # <<>>
  BY <1>2 DEF ClientHistories, HistoryInv, LiveSays
<1> QED
  BY <1>1, <1>2

\* The histories that a turn may end with say that it has ended.
LEMMA TurnSays ==
  ASSUME TypeOK, NEW o \in Operation, NEW h \in TurnHistories(o)
  PROVE  Says(h, settled \cup {o}, concluded)
<1>1. PICK n \in 0..Cardinality(settled \cup {o}) :
        /\ h \in [1..n -> Sayable(o)]
        /\ \A i, j \in 1..n : i # j => h[i].operation # h[j].operation
  BY DEF TurnHistories
<1>2. n \in Nat
  BY <1>1
<1>3. Len(h) = n
  <2>1. Sayable(o) \subseteq Message
    BY DEF Sayable, Recorded, OutcomeUnknown, Message, TypeOK
  <2>2. h \in [1..n -> Message]
    BY <1>1, <2>1
  <2> QED
    BY <1>2, <2>2
<1> QED
  BY <1>1, <1>3 DEF Says, Sayable

\* What clients do keeps the histories.
LEMMA ClientHistory ==
  ASSUME IInv, HistoryInv, NEW c \in Client, NEW ok \in PersistOutcome, ClientStep(c, ok)
  PROVE  HistoryInv'
<1>0. ok \in BOOLEAN /\ TypeOK
  BY OutcomeType DEF IInv
<1>1. ASSUME NEW id \in SessionId, NEW n \in Name, NEW p \in PersistenceMode,
             NEW d \in Directory, NEW h \in ClientHistories, create(c, id, n, p, d, h, ok)
      PROVE  HistoryInv'
  <2> DEFINE r == NewRecord(c, n, p, d, h)
  <2>1. r.snapshot.history = h
    BY DEF NewRecord
  <2>2. Says(h, settled, concluded)
    BY ClientSays
  <2>3. /\ sessions' = [sessions EXCEPT ![id] = r] /\ persist(ok) /\ id \notin issued
        /\ UNCHANGED <<in_flight, accepted, settled>>
    BY <1>1 DEF create
  <2> HIDE DEF r
  <2> QED
    BY <1>0, <2>1, <2>2, <2>3, RecordSays
<1>2. ASSUME NEW s \in SessionId, attach(c, s) PROVE HistoryInv'
  <2>1. Live(s) /\ UNCHANGED <<in_flight, disk, accepted, settled, concluded>>
    BY <1>2 DEF attach, ghosts
  <2>2. \A t \in SessionId : sessions'[t] = IF t = s THEN Attached(c, s) ELSE sessions[t]
    BY <1>0, <1>2 DEF attach, TypeOK
  <2>3. Attached(c, s).snapshot = sessions[s].snapshot /\ Attached(c, s) # None
    <3>1. Attached(c, s) \in SessionRecord
      BY <1>0, <2>1, LiveType DEF Attached, SessionRecord
    <3> QED
      BY <3>1, NoneAssumption DEF Attached
  <2>4. \A t \in SessionId : /\ sessions'[t] # None <=> sessions[t] # None
                             /\ Live(t) => sessions'[t].snapshot = sessions[t].snapshot
    BY <2>1, <2>2, <2>3 DEF Live
  <2> QED
    BY <2>1, <2>4 DEF HistoryInv, LiveSays, SavedSays, MarkerDurable, Begun, Live, Saved, IsDurable
<1>3. ASSUME NEW s \in SessionId, close(c, s, ok) PROVE HistoryInv'
  BY <1>0, <1>3, RecordSays DEF close
<1>4. ASSUME NEW s \in SessionId, detach(c, s, ok) PROVE HistoryInv'
  <2>1. CASE ~Live(s)
    BY <1>4, <2>1 DEF detach, regvars, ghosts, HistoryInv, LiveSays, SavedSays, MarkerDurable,
       Begun, Live, Saved, IsDurable
  <2>2. CASE Live(s)
    <3> DEFINE r == IF /\ Detached(c, s).attachments = {}
                       /\ sessions[s].snapshot.persistence = "Ephemeral"
                      THEN None ELSE Detached(c, s)
    <3>1. r # None => r.snapshot = sessions[s].snapshot
      BY DEF Detached
    <3>2. Says(sessions[s].snapshot.history, settled, concluded)
      BY <2>2 DEF HistoryInv, LiveSays
    <3>3. /\ sessions' = [sessions EXCEPT ![s] = r] /\ persist(ok)
          /\ UNCHANGED <<in_flight, accepted, settled>>
      BY <1>4, <2>2 DEF detach
    <3> HIDE DEF r
    <3> QED
      BY <1>0, <2>2, <3>1, <3>2, <3>3, RecordSays
  <2> QED
    BY <2>1, <2>2
<1>5. ASSUME NEW s \in SessionId, NEW d \in Directory, NEW h \in ClientHistories,
             update(c, s, d, h, ok)
      PROVE  HistoryInv'
  <2> DEFINE r == WithState(sessions[s], d, h)
  <2>1. r.snapshot.history = h /\ r.snapshot.persistence = sessions[s].snapshot.persistence
    BY DEF WithState
  <2>2. Says(h, settled, concluded)
    BY ClientSays
  <2>3. /\ sessions' = [sessions EXCEPT ![s] = r] /\ persist(ok) /\ Live(s)
        /\ UNCHANGED <<in_flight, accepted, settled>>
    BY <1>5 DEF update
  <2> HIDE DEF r
  <2> QED
    BY <1>0, <2>1, <2>2, <2>3, RecordSays
<1> QED
  BY <1>1, <1>2, <1>3, <1>4, <1>5 DEF ClientStep

\* So does what is done to operations.
LEMMA OperationHistory ==
  ASSUME IInv, HistoryInv, NEW s \in SessionId, NEW o \in Operation,
         NEW ok \in PersistOutcome, OperationStep(s, o, ok)
  PROVE  HistoryInv'
<1>0. ok \in BOOLEAN /\ TypeOK
  BY OutcomeType DEF IInv
<1>s. ASSUME UNCHANGED regvars PROVE HistoryInv'
  BY <1>s DEF regvars, ghosts, HistoryInv, LiveSays, SavedSays, MarkerDurable,
     Begun, Live, Saved, IsDurable
<1>1. CASE begin_execution(s, o, ok)
  <2>1. CASE UNCHANGED regvars
    BY <1>s, <2>1
  <2>2. CASE ~UNCHANGED regvars
    <3>1. /\ Live(s) /\ accepted' = [accepted EXCEPT ![o] = s]
          /\ UNCHANGED <<sessions, settled>>
          /\ \/ persist(ok) /\ IsDurable(s) /\ in_flight' = [in_flight EXCEPT ![s] = o]
             \/ UNCHANGED <<in_flight, disk, concluded>>
      BY <1>1, <2>2 DEF begin_execution
    <3>2. IsFiniteSet(Begun')
      <4>1. Begun' \subseteq Begun \cup {o}
        BY <1>0, <3>1 DEF Begun, TypeOK
      <4>2. IsFiniteSet(Begun \cup {o})
        BY FS_AddElement DEF HistoryInv
      <4> QED
        BY <4>1, <4>2, FS_Subset
    <3>3. LiveSays' /\ SavedSays'
      <4>1. CASE persist(ok)
        <5>1. concluded \subseteq settled' /\ SavedSays
          BY <3>1 DEF IInv, MemoryInv, HistoryInv
        <5>2. \A t \in SessionId : sessions'[t] # None =>
                Says(sessions'[t].snapshot.history, settled', concluded)
          BY <3>1 DEF HistoryInv, LiveSays, Live
        <5> QED
          BY <1>0, <4>1, <5>1, <5>2, PersistSays
      <4>2. CASE UNCHANGED <<in_flight, disk, concluded>>
        BY <3>1, <4>2 DEF HistoryInv, LiveSays, SavedSays, Live, Saved
      <4> QED
        BY <3>1, <4>1, <4>2
    <3>4. MarkerDurable'
      BY <1>0, <3>1 DEF HistoryInv, MarkerDurable, IsDurable, Live, TypeOK
    <3> QED
      BY <3>2, <3>3, <3>4 DEF HistoryInv
  <2> QED
    BY <2>1, <2>2
<1>2. CASE finish_execution(s, o, ok)
  <2>1. CASE UNCHANGED regvars
    BY <1>s, <2>1
  <2>2. CASE ~UNCHANGED regvars
    <3>1. /\ in_flight' = [in_flight EXCEPT ![s] = None] /\ settled' = settled \cup {o}
          /\ persist(ok) /\ UNCHANGED <<sessions, accepted>>
      BY <1>2, <2>2 DEF finish_execution
    <3>2. LiveSays' /\ SavedSays'
      <4>1. concluded \subseteq settled' /\ SavedSays
        BY <3>1 DEF IInv, MemoryInv, HistoryInv
      <4>2. \A t \in SessionId : sessions'[t] # None =>
              Says(sessions'[t].snapshot.history, settled', concluded)
        BY <3>1, SaysMore DEF HistoryInv, LiveSays, Live
      <4> QED
        BY <1>0, <3>1, <4>1, <4>2, PersistSays
    <3>3. MarkerDurable' /\ Begun' = Begun
      BY <1>0, <3>1 DEF HistoryInv, MarkerDurable, IsDurable, Live, TypeOK, Begun
    <3> QED
      BY <3>2, <3>3 DEF HistoryInv
  <2> QED
    BY <2>1, <2>2
<1>3. ASSUME NEW d \in Directory, NEW h \in TurnHistories(o),
             update_execution_state(s, o, d, h, ok)
      PROVE  HistoryInv'
  <2> DEFINE r == WithState(sessions[s], d, h)
  <2>1. r.snapshot.history = h /\ r.snapshot.persistence = sessions[s].snapshot.persistence
    BY DEF WithState
  <2>2. Says(h, settled \cup {o}, concluded)
    BY <1>0, TurnSays
  <2>3. /\ sessions' = [sessions EXCEPT ![s] = r] /\ persist(ok) /\ Live(s)
        /\ in_flight' = [in_flight EXCEPT ![s] = None] /\ accepted' = accepted
        /\ settled \cup {o} \subseteq settled'
    BY <1>3 DEF update_execution_state
  <2>4. Says(h, settled', concluded)
    BY <2>2, <2>3, SaysMore
  <2>5. \A t \in SessionId : in_flight'[t] \in {None, in_flight[t]}
    BY <1>0, <2>3 DEF TypeOK
  <2> HIDE DEF r
  <2> QED
    BY <1>0, <2>1, <2>3, <2>4, <2>5, RecordSays
<1> QED
  BY <1>1, <1>2, <1>3 DEF OperationStep

\* load() adds to a history the report of an operation it did not speak of.
LEMMA LoadHistory == ASSUME IInv, HistoryInv, load PROVE HistoryInv'
<1>0. TypeOK /\ settled = concluded /\ concluded \subseteq concluded'
  BY DEF IInv, DownIsEmpty, load, persist
<1>1. /\ \A s \in SessionId : sessions'[s] = Restored(s) /\ in_flight'[s] = None
      /\ settled' = concluded \cup Markers /\ accepted' = accepted
      /\ concluded' = settled'
      /\ persist(TRUE) \/ (disk' = disk /\ concluded' = concluded)
  BY <1>0 DEF load, NoSessions, persist
<1>2. ASSUME NEW s \in SessionId, Saved(s)
      PROVE  Says(Restored(s).snapshot.history, settled', concluded')
  <2>1. Says(disk.sessions[s].history, concluded, concluded)
    BY <1>2 DEF HistoryInv, SavedSays
  <2>2. CASE disk.in_flight[s] = None
    <3>1. Restored(s).snapshot = disk.sessions[s]
      BY <1>2, <2>2, RestoredIs
    <3> QED
      BY <1>0, <1>1, <2>1, <3>1, SaysMore
  <2>3. CASE disk.in_flight[s] # None
    <3>i. PICK o \in Operation : o = disk.in_flight[s]
      BY <1>0, <2>3 DEF TypeOK, DurableState
    <3>1. o \notin concluded /\ o \in settled'
      BY <1>1, <2>3, <3>i, NoneAssumption DEF IInv, DiskInv, DiskMarkerSound, Markers
    <3>2. disk.sessions[s].history \in Seq(Message)
      BY <1>0, <1>2 DEF TypeOK, DurableState, Saved, Snapshot
    <3>3. Silent(disk.sessions[s].history, o)
      <4>1. \A q \in concluded : Recorded(q).operation = q /\ OutcomeUnknown(q).operation = q
        BY <1>0, MessageOf DEF TypeOK
      <4> QED
        BY <2>1, <3>1, <4>1 DEF Says, Silent
    <3>4. Says(Append(disk.sessions[s].history, OutcomeUnknown(o)), settled', concluded')
      BY <1>0, <1>1, <2>1, <3>1, <3>2, <3>3, AppendSays
    <3>5. Restored(s).snapshot.history = Append(disk.sessions[s].history, OutcomeUnknown(o))
      BY <1>2, <2>3, <3>i, RestoredIs
    <3> QED
      BY <3>4, <3>5
  <2> QED
    BY <2>2, <2>3
<1>3. ASSUME NEW s \in SessionId, sessions'[s] # None
      PROVE  Says(sessions'[s].snapshot.history, settled', concluded')
  <2>1. Saved(s)
    BY <1>1, <1>3, RestoredNothing
  <2> QED
    BY <1>1, <1>2, <2>1
<1>4. LiveSays'
  BY <1>3 DEF LiveSays, Live
<1>5. SavedSays'
  <2>1. CASE disk' = disk /\ concluded' = concluded
    BY <2>1 DEF HistoryInv, SavedSays, Saved
  <2>2. CASE persist(TRUE)
    <3> SUFFICES ASSUME NEW s \in SessionId, disk'.sessions[s] # None
                 PROVE  Says(disk'.sessions[s].history, concluded', concluded')
      BY DEF SavedSays, Saved
    <3>1. disk' = DurableImage(sessions', in_flight')
      BY <2>2 DEF persist
    <3>2. sessions'[s] # None /\ disk'.sessions[s] = sessions'[s].snapshot
      BY <3>1 DEF DurableImage
    <3> QED
      BY <1>1, <1>3, <3>2
  <2> QED
    BY <1>1, <2>1, <2>2
<1>6. MarkerDurable' /\ Begun' = Begun
  BY <1>1 DEF MarkerDurable, Begun
<1> QED
  BY <1>4, <1>5, <1>6 DEF HistoryInv

\* Every step of the registry keeps the histories.
LEMMA HistoryNext == ASSUME IInv, HistoryInv, [Next]_regvars PROVE HistoryInv'
<1> USE DEF HistoryInv, LiveSays, SavedSays, MarkerDurable, Begun, Live, Saved, IsDurable
<1>1. CASE Crash
  BY <1>1 DEF Crash, NoSessions
<1>2. CASE \E d \in Directory : RemoveDirectory(d) \/ MakeDirectory(d)
  BY <1>2 DEF RemoveDirectory, MakeDirectory, ghosts
<1>3. CASE UNCHANGED regvars
  BY <1>3 DEF regvars, ghosts
<1> QED
  BY <1>1, <1>2, <1>3, ClientHistory, OperationHistory, LoadHistory DEF Next

\* The empty registry has no histories.
LEMMA HistoryInit == ASSUME Init PROVE HistoryInv
<1>1. Begun = {}
  BY DEF Init, Begun
<1>2. LiveSays /\ SavedSays /\ MarkerDurable
  BY DEF Init, NoSessions, LiveSays, SavedSays, MarkerDurable, Live, Saved
<1> QED
  BY <1>1, <1>2, FS_EmptySet DEF HistoryInv

-----------------------------------------------------------------------------
(***************************************************************************)
(* How the daemon calls the registry.  An operation is not begun before    *)
(* its thread comes to begin_execution; a turn that works has begun on its *)
(* session and has not ended; and the history that a turn was given speaks *)
(* of ended operations, never of the turn itself.                          *)
(***************************************************************************)

UnbegunPc == {"submit_reserve", "submit_audit", "submit_begin",
              "pty_reap", "pty_admit", "pty_audit", "pty_begin"}

Working == {"spawned", "running", "ended"}

Open(o, s) == accepted[o] = s /\ o \notin settled

\* The process is down: it has no threads and no turns.
DownIsIdle ==
  ~up => /\ \A c \in Client : conn[c].pc = "idle"
         /\ \A o \in Operation : turn[o].stage \in {"unborn", "over"}

Calls ==
  /\ \A c \in Client : conn[c].pc \in UnbegunPc => accepted[conn[c].op] = None
  /\ \A c \in Client : conn[c].pc = "submit_spawn" => Open(conn[c].op, conn[c].session)
  /\ \A o \in Operation : turn[o].stage \in Working => Open(o, turn[o].session)
  /\ \A o \in Operation : /\ Says(turn[o].history, settled, concluded)
                          /\ Silent(turn[o].history, o)
  /\ DownIsIdle

DaemonInv == IInv /\ HistoryInv /\ DaemonTypes /\ Threads /\ Calls

\* Connection c neither begins an operation nor comes closer to its spawn.
ConnKeeps(c) ==
  \/ conn'[c].pc \notin UnbegunPc \cup {"submit_spawn"}
  \/ conn'[c] = conn[c]
  \/ /\ conn'[c].pc \in UnbegunPc
     /\ \/ conn[c].pc \in UnbegunPc /\ conn'[c].op = conn[c].op
        \/ accepted[conn'[c].op] = None

\* Turn o goes on with the history it was given.
TurnKeeps(o) ==
  /\ \/ turn'[o].stage \notin Working
     \/ turn[o].stage \in Working /\ turn'[o].session = turn[o].session
     \/ Open(o, turn'[o].session)
  /\ \/ turn'[o].history \in {<<>>, turn[o].history}
     \/ Says(turn'[o].history, settled, concluded) /\ Silent(turn'[o].history, o)

\* A step that begins nothing, and ends at most operation e, which no turn works
\* on any more.
LEMMA CallsStep ==
  ASSUME Calls, NEW e, up, up', accepted' = accepted,
         settled \subseteq settled', settled' \subseteq settled \cup {e},
         concluded \subseteq concluded',
         \A c \in Client : ConnKeeps(c),
         \A o \in Operation : TurnKeeps(o),
         \/ settled' = settled
         \/ /\ \A c \in Client : conn'[c].pc = "submit_spawn" => conn[c].op # e
            /\ \A o \in Operation : turn'[o].stage \in Working => o # e
  PROVE  Calls'
<1>1. ASSUME NEW c \in Client, conn'[c].pc \in UnbegunPc PROVE accepted'[conn'[c].op] = None
  BY <1>1 DEF Calls, ConnKeeps, UnbegunPc
<1>2. ASSUME NEW c \in Client, conn'[c].pc = "submit_spawn"
      PROVE  accepted'[conn'[c].op] = conn'[c].session /\ conn'[c].op \notin settled'
  <2>1. conn'[c] = conn[c]
    BY <1>2 DEF ConnKeeps, UnbegunPc
  <2>2. Open(conn[c].op, conn[c].session)
    BY <1>2, <2>1 DEF Calls
  <2> QED
    BY <1>2, <2>1, <2>2 DEF Open
<1>3. ASSUME NEW o \in Operation, turn'[o].stage \in Working
      PROVE  accepted'[o] = turn'[o].session /\ o \notin settled'
  <2>1. Open(o, turn'[o].session)
    BY <1>3 DEF TurnKeeps, Calls
  <2> QED
    BY <1>3, <2>1 DEF Open
<1>4. ASSUME NEW o \in Operation
      PROVE  Says(turn'[o].history, settled', concluded') /\ Silent(turn'[o].history, o)
  <2>1. Says(<<>>, settled, concluded) /\ Silent(<<>>, o)
    BY SaysNothing DEF Silent
  <2>2. Says(turn[o].history, settled, concluded) /\ Silent(turn[o].history, o)
    BY DEF Calls
  <2>3. Says(turn'[o].history, settled, concluded) /\ Silent(turn'[o].history, o)
    BY <2>1, <2>2 DEF TurnKeeps
  <2> QED
    BY <2>3, SaysMore
<1>5. DownIsIdle'
  BY DEF DownIsIdle
<1> QED
  BY <1>1, <1>2, <1>3, <1>4, <1>5 DEF Calls, Open

\* What a client's step does not touch.
LEMMA ClientKeeps ==
  ASSUME NEW c \in Client, NEW ok \in PersistOutcome, ClientStep(c, ok)
  PROVE  /\ [Next]_regvars /\ up /\ up' /\ accepted' = accepted /\ settled' = settled
         /\ concluded \subseteq concluded'
<1>1. Next
  BY DEF Next
<1>2. up /\ up' /\ accepted' = accepted /\ settled' = settled /\ concluded \subseteq concluded'
  BY DEF ClientStep, create, attach, detach, update, close, persist, regvars, ghosts
<1> QED
  BY <1>1, <1>2

\* finish_execution ends the operation that the marker names, or does nothing.
LEMMA FinishKeeps ==
  ASSUME IInv, NEW s \in SessionId, NEW o \in Operation, NEW ok \in PersistOutcome,
         finish_execution(s, o, ok)
  PROVE  /\ [Next]_regvars /\ up /\ up' /\ accepted' = accepted
         /\ settled \subseteq settled' /\ settled' \subseteq settled \cup {o}
         /\ concluded \subseteq concluded'
<1>1. CASE in_flight[s] = o
  <2>1. accepted[o] = s /\ o \notin settled
    BY <1>1, NoneAssumption DEF IInv, MemoryInv, MarkerSound
  <2>2. OperationStep(s, o, ok)
    BY <2>1 DEF OperationStep
  <2>3. Next
    BY <2>2 DEF Next
  <2> QED
    BY <1>1, <2>3 DEF finish_execution, persist
<1>2. CASE in_flight[s] # o
  BY <1>2 DEF finish_execution, regvars, ghosts
<1> QED
  BY <1>1, <1>2

\* A turn that has its stage, session and history goes on.
LEMMA SameTurnKeeps ==
  ASSUME NEW o \in Operation, turn'[o].stage = turn[o].stage \/ turn'[o].stage \notin Working,
         turn'[o].session = turn[o].session \/ turn'[o].stage \notin Working,
         turn'[o].history \in {<<>>, turn[o].history}
  PROVE  TurnKeeps(o)
BY DEF TurnKeeps

\* A step of connection c that neither begins nor ends an operation.
LEMMA QuietStep ==
  ASSUME Calls, up, up', accepted' = accepted, settled' = settled,
         concluded \subseteq concluded', NEW c \in Client, OthersStay(c), ConnKeeps(c),
         \A o \in Operation : TurnKeeps(o)
  PROVE  Calls'
<1>1. \A d \in Client : ConnKeeps(d)
  BY DEF OthersStay, ConnKeeps
<1> QED
  BY <1>1, CallsStep

\* The requests other than those that start an operation.
LEMMA RequestCalls ==
  ASSUME DaemonInv, NEW c \in Client, Requests(c),
         \A o \in Operation : ~SubmitSnapshot(c, o) /\ ~PtyStartRequest(c, o)
  PROVE  [Next]_regvars /\ Calls'
<1> USE DEF DaemonInv
<1>0. /\ TypeOK /\ PersistOutcome \subseteq BOOLEAN
      /\ conn[c].attached \in SessionId \cup {None}
  BY ThreadFacts, OutcomeType DEF IInv
<1>1. ASSUME NEW ok \in PersistOutcome, ClientStep(c, ok), UNCHANGED turn,
             OthersStay(c), conn'[c] = conn[c] \/ conn'[c].pc \notin UnbegunPc \cup {"submit_spawn"}
      PROVE  [Next]_regvars /\ Calls'
  <2>1. \A o \in Operation : TurnKeeps(o)
    BY <1>1, SameTurnKeeps
  <2>2. ConnKeeps(c)
    BY <1>1 DEF ConnKeeps
  <2> QED
    BY <1>1, <2>1, <2>2, ClientKeeps, QuietStep
<1>2. ASSUME up, UNCHANGED regvars, OthersStay(c),
             conn'[c] = conn[c] \/ conn'[c].pc \notin UnbegunPc \cup {"submit_spawn"},
             \A o \in Operation : /\ turn'[o].stage = turn[o].stage
                                  /\ turn'[o].session = turn[o].session
                                  /\ turn'[o].history = turn[o].history
      PROVE  [Next]_regvars /\ Calls'
  <2>1. \A o \in Operation : TurnKeeps(o)
    BY <1>2, SameTurnKeeps
  <2>2. ConnKeeps(c)
    BY <1>2 DEF ConnKeeps
  <2> QED
    BY <1>2, <2>1, <2>2, QuietStep DEF regvars, ghosts
<1>3. ASSUME NEW id \in SessionId, NEW n \in Name, NEW p \in PersistenceMode,
             NEW d \in Directory, NEW h \in ClientHistories, NEW ok \in PersistOutcome,
             CreateRequest(c, id, n, p, d, h, ok)
      PROVE  [Next]_regvars /\ Calls'
  <2>1. ClientStep(c, ok) /\ conn[c].pc = "idle" /\ turn' = turn
    BY <1>3 DEF CreateRequest, ClientStep
  <2>2. conn' = conn \/ Attaches(c, id) \/ LetsGo(c, id, FALSE)
    BY <1>3, CreateDoes
  <2>3. /\ OthersStay(c)
        /\ conn'[c] = conn[c] \/ conn'[c].pc \notin UnbegunPc \cup {"submit_spawn"}
    BY <2>1, <2>2 DEF OthersStay, Attaches, LetsGo, UnbegunPc
  <2> QED
    BY <1>1, <2>1, <2>3
<1>4. ASSUME NEW selector \in SessionId \cup Name, NEW s \in SessionId,
             AttachRequest(c, selector, s) \/ SwitchRequest(c, selector, s)
      PROVE  [Next]_regvars /\ Calls'
  <2>1. PICK ok \in PersistOutcome : TRUE
    BY DEF PersistOutcome
  <2>2. ClientStep(c, ok) /\ conn[c].pc = "idle" /\ turn' = turn
    BY <1>4 DEF AttachRequest, SwitchRequest, ClientStep
  <2>3. Attaches(c, s) \/ LetsGo(c, s, FALSE)
    BY <1>4, AttachDoes
  <2>4. OthersStay(c) /\ conn'[c].pc \notin UnbegunPc \cup {"submit_spawn"}
    BY <2>2, <2>3 DEF Attaches, LetsGo, UnbegunPc
  <2> QED
    BY <1>1, <2>2, <2>4
<1>5. ASSUME NEW selector \in SessionId \cup Name, NEW s \in SessionId,
             NEW ok \in PersistOutcome, CloseRequest(c, selector, s, ok)
      PROVE  [Next]_regvars /\ Calls'
  <2>1. ClientStep(c, ok) /\ turn' = turn /\ ok \in BOOLEAN
    BY <1>0, <1>5 DEF CloseRequest, ClientStep
  <2>2. OthersStay(c) /\ conn'[c].pc \notin UnbegunPc \cup {"submit_spawn"}
    BY <1>5, <2>1, CloseDoes DEF UnbegunPc
  <2> QED
    BY <1>1, <2>1, <2>2
<1>6. CASE DetachRequest(c) \/ Disconnect(c)
  <2>1. /\ up /\ UNCHANGED <<regvars, turn>>
        /\ Left(c) \/ \E leaving \in BOOLEAN : LetsGo(c, None, leaving)
    BY <1>6, LeaveDoes
  <2>2. OthersStay(c) /\ conn'[c].pc \notin UnbegunPc \cup {"submit_spawn"}
    BY <2>1 DEF Left, LetsGo, UnbegunPc
  <2> QED
    BY <1>2, <2>1, <2>2
<1>7. ASSUME NEW d \in Directory, NEW h \in ClientHistories, NEW ok \in PersistOutcome,
             UpdateRequest(c, d, h, ok)
      PROVE  [Next]_regvars /\ Calls'
  <2>1. ClientStep(c, ok) /\ conn' = conn /\ turn' = turn
    BY <1>0, <1>7 DEF UpdateRequest, ClientStep, daemon
  <2> QED
    BY <1>1, <2>1 DEF OthersStay
<1>8. CASE CancelRequest(c)
  <2>1. up /\ UNCHANGED <<regvars, conn>> /\ TurnsCancelled
    BY <1>8, CancelRequestDoes DEF CancelRequest
  <2> QED
    BY <1>2, <2>1 DEF TurnsCancelled, OthersStay
<1>9. CASE PtyCloseRequest(c)
  <2>1. up /\ UNCHANGED <<regvars, turn>>
    BY <1>9 DEF PtyCloseRequest
  <2>2. OthersStay(c) /\ conn'[c].pc \notin UnbegunPc \cup {"submit_spawn"}
    BY <1>9, PtyCloseDoes DEF UnbegunPc
  <2> QED
    BY <1>2, <2>1, <2>2
<1> QED
  BY <1>3, <1>4, <1>5, <1>6, <1>7, <1>8, <1>9 DEF Requests

\* An operation that has not begun is in no history.
LEMMA UnbegunIsSilent ==
  ASSUME IInv, NEW h, NEW o \in Operation, accepted[o] = None, Says(h, settled, concluded)
  PROVE  Silent(h, o)
<1>1. o \notin settled /\ concluded \subseteq settled /\ settled \subseteq Operation
  BY DEF IInv, MemoryInv, SettledAccepted, TypeOK
<1>2. \A q \in settled : Recorded(q).operation = q /\ OutcomeUnknown(q).operation = q
  BY <1>1, MessageOf
<1> QED
  BY <1>1, <1>2 DEF Says, Silent

\* The requests that start an operation take a fresh one.
LEMMA StartCalls ==
  ASSUME DaemonInv, NEW c \in Client, NEW o \in Operation,
         SubmitSnapshot(c, o) \/ PtyStartRequest(c, o)
  PROVE  [Next]_regvars /\ Calls'
<1> USE DEF DaemonInv
<1>0. TypeOK
  BY DEF IInv
<1>1. /\ up /\ UNCHANGED regvars /\ accepted[o] = None
      /\ conn[c].attached \in SessionId /\ Live(conn[c].attached)
  BY DEF SubmitSnapshot, PtyStartRequest, Fresh, DaemonTypes, ConnType, Conn
<1>2. /\ Begins(c, o, "submit_reserve") \/ Begins(c, o, "pty_reap")
      /\ TurnsStay(o)
      /\ \/ turn' = turn
         \/ /\ turn'[o].stage = "submitting"
            /\ turn'[o].history = sessions[conn[c].attached].snapshot.history
  BY <1>0, SubmitSnapshotDoes, PtyStartDoes DEF PtyStartRequest, TurnsStay
<1>3. OthersStay(c) /\ ConnKeeps(c)
  BY <1>1, <1>2 DEF Begins, ConnKeeps, UnbegunPc
<1>4. ASSUME NEW q \in Operation PROVE TurnKeeps(q)
  <2>1. CASE turn'[q] = turn[q]
    BY <2>1, SameTurnKeeps
  <2>2. CASE turn'[q] # turn[q]
    <3>1. /\ q = o /\ turn'[o].stage = "submitting"
          /\ turn'[o].history = sessions[conn[c].attached].snapshot.history
      BY <1>2, <2>2 DEF TurnsStay
    <3>2. Says(turn'[o].history, settled, concluded)
      BY <1>1, <3>1 DEF HistoryInv, LiveSays
    <3>3. Silent(turn'[o].history, o)
      BY <1>1, <3>2, UnbegunIsSilent
    <3> QED
      BY <3>1, <3>2, <3>3 DEF TurnKeeps, Working
  <2> QED
    BY <2>1, <2>2
<1> QED
  BY <1>1, <1>3, <1>4, QuietStep DEF regvars, ghosts

\* begin_execution takes an operation that has not begun.
LEMMA BeginCalls ==
  ASSUME DaemonInv, NEW c \in Client, conn[c].pc \in UnbegunPc,
         NEW s \in SessionId, NEW o \in Operation, s = conn[c].session, o = conn[c].op,
         turn[o].stage \notin Working, OthersStay(c), up,
         NEW ok \in BOOLEAN,
         UNCHANGED regvars \/ begin_execution(s, o, ok),
         \/ /\ ok /\ turn' = turn /\ begin_execution(s, o, ok)
            /\ conn'[c].session = s /\ conn'[c].op = o
            /\ conn'[c].pc \in {"submit_spawn", "pty_spawn"}
         \/ /\ ~ok /\ conn'[c].pc \notin UnbegunPc \cup {"submit_spawn"}
            /\ TurnsStay(o) /\ turn'[o] \in {NoTurn, turn[o]}
  PROVE  [Next]_regvars /\ Calls'
<1> USE DEF DaemonInv
<1>0. TypeOK /\ accepted[o] = None /\ o \notin settled
  BY DEF Calls, IInv, MemoryInv, SettledAccepted
<1>1. CASE UNCHANGED regvars /\ ~ok
  <2>1. ASSUME NEW q \in Operation PROVE TurnKeeps(q)
    BY <1>1, SameTurnKeeps, NoTurnType DEF TurnsStay, Working
  <2>2. ConnKeeps(c)
    BY <1>1 DEF ConnKeeps
  <2> QED
    BY <1>1, <2>1, <2>2, QuietStep DEF regvars, ghosts
<1>2. CASE begin_execution(s, o, ok) /\ ~ok
  <2>1. UNCHANGED regvars
    BY <1>2 DEF begin_execution
  <2> QED
    BY <1>1, <1>2, <2>1
<1>3. CASE begin_execution(s, o, ok) /\ ok
  <2>1. /\ accepted' = [accepted EXCEPT ![o] = s] /\ settled' = settled /\ up'
        /\ concluded \subseteq concluded' /\ ok \in PersistOutcome
    <3>1. TRUE \in PersistOutcome
      BY DEF PersistOutcome
    <3> QED
      BY <1>3, <3>1 DEF begin_execution, persist
  <2>2. [Next]_regvars
    <3>1. OperationStep(s, o, ok)
      BY <1>0, <1>3 DEF OperationStep
    <3> QED
      BY <2>1, <3>1 DEF Next
  <2>3. accepted'[o] = s /\ \A q \in Operation \ {o} : accepted'[q] = accepted[q]
    BY <1>0, <2>1 DEF TypeOK
  <2>4. ASSUME NEW d \in Client, d # c
        PROVE  /\ conn'[d] = conn[d] /\ conn[d].op # o
               /\ conn[d].pc \in UnbegunPc \cup {"submit_spawn"} => conn[d].op \in Operation
    <3>1. conn'[d] = conn[d] /\ conn[d].op # o
      BY <2>4, NoneAssumption DEF OthersStay, Threads, OpsApart
    <3>2. conn[d].pc \in UnbegunPc \cup {"submit_spawn"} => conn[d].op \in Operation
      BY ThreadFacts DEF UnbegunPc, SubmitPc, PtyPc
    <3> QED
      BY <3>1, <3>2
  <2>5. ASSUME NEW d \in Client, conn'[d].pc \in UnbegunPc PROVE accepted'[conn'[d].op] = None
    <3>1. d # c
      BY <1>3, <2>5 DEF UnbegunPc
    <3> QED
      BY <2>3, <2>4, <2>5, <3>1 DEF Calls
  <2>6. ASSUME NEW d \in Client, conn'[d].pc = "submit_spawn"
        PROVE  accepted'[conn'[d].op] = conn'[d].session /\ conn'[d].op \notin settled'
    <3>1. CASE d = c
      BY <1>0, <1>3, <2>1, <2>3, <2>6, <3>1
    <3>2. CASE d # c
      BY <2>1, <2>3, <2>4, <2>6, <3>2 DEF Calls, Open
    <3> QED
      BY <3>1, <3>2
  <2>7. turn' = turn
    BY <1>3
  <2>8. ASSUME NEW q \in Operation, turn'[q].stage \in Working
        PROVE  accepted'[q] = turn'[q].session /\ q \notin settled'
    BY <2>1, <2>3, <2>7, <2>8 DEF Calls, Open
  <2>9. ASSUME NEW q \in Operation
        PROVE  Says(turn'[q].history, settled', concluded') /\ Silent(turn'[q].history, q)
    BY <2>1, <2>7, SaysMore DEF Calls
  <2>10. DownIsIdle'
    BY <2>1 DEF DownIsIdle
  <2> QED
    BY <2>2, <2>5, <2>6, <2>8, <2>9, <2>10 DEF Calls, Open
<1> QED
  BY <1>1, <1>2, <1>3

\* The handlers of submit begin the turn once, and end it if it cannot run.
LEMMA SubmitCalls ==
  ASSUME DaemonInv, NEW c \in Client,
         \/ SubmitReserve(c) \/ SubmitSpawn(c)
         \/ \E recorded \in BOOLEAN : SubmitAudit(c, recorded)
         \/ \E ok \in BOOLEAN : SubmitBegin(c, ok)
         \/ \E ok \in PersistOutcome : SubmitNotSpawned(c, ok)
  PROVE  [Next]_regvars /\ Calls'
<1> USE DEF DaemonInv
<1>0. conn[c].pc \in SubmitPc /\ up
  BY DEF SubmitReserve, SubmitSpawn, SubmitAudit, SubmitBegin, SubmitNotSpawned, SubmitPc
<1>i. PICK s \in SessionId, o \in Operation : s = conn[c].session /\ o = conn[c].op
  BY <1>0, ThreadFacts DEF SubmitPc
<1> USE <1>i
<1>1. /\ turn[o].stage = "submitting" /\ turn[o].session = s
      /\ TurnType /\ ActiveType /\ TypeOK /\ ~conn[c].leaving
  BY <1>0, ThreadFacts DEF Threads, Starting, DaemonTypes, IInv, SubmitPc, DetachPc
<1>2. ASSUME UNCHANGED regvars, OthersStay(c), ConnKeeps(c), TurnsStay(o), TurnKeeps(o)
      PROVE  [Next]_regvars /\ Calls'
  <2>1. \A q \in Operation : TurnKeeps(q)
    BY <1>2, SameTurnKeeps DEF TurnsStay
  <2> QED
    BY <1>0, <1>2, <2>1, QuietStep DEF regvars, ghosts
<1>3. turn'[o] = NoTurn => TurnKeeps(o)
  BY NoTurnType, SameTurnKeeps DEF Working
<1>4. turn'[o] = turn[o] => TurnKeeps(o)
  BY SameTurnKeeps
<1>5. Returned(c, s) => ConnKeeps(c) /\ OthersStay(c)
  BY DEF Returned, ConnKeeps, UnbegunPc
<1>6. \A to \in UnbegunPc : Moved(c, to) /\ conn[c].pc \in UnbegunPc =>
                              ConnKeeps(c) /\ OthersStay(c)
  BY DEF Moved, ConnKeeps
<1>7. CASE SubmitReserve(c)
  <2>1. UNCHANGED regvars /\ conn[c].pc \in UnbegunPc
    BY <1>7 DEF SubmitReserve, UnbegunPc
  <2>2. \/ Returned(c, s) /\ TurnsStay(o) /\ turn'[o] = NoTurn
        \/ Moved(c, "submit_audit") /\ turn' = turn
    BY <1>7, SubmitReserveDoes
  <2> QED
    BY <1>2, <1>3, <1>4, <1>5, <1>6, <2>1, <2>2 DEF TurnsStay, UnbegunPc
<1>8. Unreserve(c) => TurnsStay(o) /\ turn'[o] = NoTurn
  BY <1>1, UnreserveFields DEF TurnsStay
<1>9. CASE \E recorded \in BOOLEAN : SubmitAudit(c, recorded)
  <2>1. UNCHANGED regvars /\ conn[c].pc \in UnbegunPc
    BY <1>9 DEF SubmitAudit, UnbegunPc
  <2>2. \/ Returned(c, s) /\ Unreserve(c)
        \/ Moved(c, "submit_begin") /\ turn' = turn
    BY <1>9, SubmitAuditDoes
  <2> QED
    BY <1>2, <1>3, <1>4, <1>5, <1>6, <1>8, <2>1, <2>2 DEF TurnsStay, UnbegunPc
<1>10. ASSUME NEW ok \in BOOLEAN, SubmitBegin(c, ok) PROVE [Next]_regvars /\ Calls'
  <2>1. /\ conn[c].pc \in UnbegunPc /\ turn[o].stage \notin Working
        /\ UNCHANGED regvars \/ begin_execution(s, o, ok)
        /\ ok => begin_execution(s, o, ok)
    BY <1>1, <1>10 DEF SubmitBegin, UnbegunPc, Working
  <2>2. \/ ok /\ Moved(c, "submit_spawn") /\ turn' = turn
        \/ ~ok /\ Returned(c, s) /\ Unreserve(c)
    BY <1>10, SubmitBeginDoes
  <2>3. OthersStay(c)
    BY <2>2 DEF Moved, Returned
  <2>4. \/ /\ ok /\ turn' = turn /\ begin_execution(s, o, ok)
           /\ conn'[c].session = s /\ conn'[c].op = o
           /\ conn'[c].pc \in {"submit_spawn", "pty_spawn"}
        \/ /\ ~ok /\ conn'[c].pc \notin UnbegunPc \cup {"submit_spawn"}
           /\ TurnsStay(o) /\ turn'[o] \in {NoTurn, turn[o]}
    BY <1>8, <2>1, <2>2 DEF Moved, Returned, UnbegunPc
  <2> QED
    BY <1>0, <2>1, <2>3, <2>4, BeginCalls
<1>11. CASE SubmitSpawn(c)
  <2>1. UNCHANGED regvars /\ conn[c].pc = "submit_spawn"
    BY <1>11 DEF SubmitSpawn
  <2>2. Returned(c, s) /\ TurnReaches(o, "spawned")
    BY <1>11, SubmitSpawnDoes
  <2>3. Open(o, s)
    BY <2>1 DEF Calls
  <2>4. TurnKeeps(o) /\ TurnsStay(o)
    BY <1>1, <2>2, <2>3 DEF TurnReaches, TurnKeeps
  <2> QED
    BY <1>2, <1>5, <2>1, <2>2, <2>4
<1>12. ASSUME NEW ok \in PersistOutcome, SubmitNotSpawned(c, ok)
       PROVE  [Next]_regvars /\ Calls'
  <2>1. /\ [Next]_regvars /\ up /\ up' /\ accepted' = accepted
        /\ settled \subseteq settled' /\ settled' \subseteq settled \cup {o}
        /\ concluded \subseteq concluded'
    BY <1>12, FinishKeeps DEF SubmitNotSpawned
  <2>2. Returned(c, s) /\ (Conclude(o) \/ UNCHANGED <<active, turn>>)
    BY <1>12, SubmitNotSpawnedDoes
  <2>3. /\ TurnsStay(o) /\ turn'[o].history \in {<<>>, turn[o].history}
        /\ turn'[o].stage \notin Working
    <3>1. CASE Conclude(o)
      BY <1>1, <3>1, ConcludeFields DEF TurnsStay, Working
    <3>2. CASE UNCHANGED turn
      BY <1>1, <3>2 DEF TurnsStay, Working
    <3> QED
      BY <2>2, <3>1, <3>2
  <2>4. \A q \in Operation : TurnKeeps(q)
    BY <2>3, SameTurnKeeps DEF TurnsStay
  <2>5. \A d \in Client : ConnKeeps(d) /\ (conn'[d].pc = "submit_spawn" => conn[d].op # o)
    <3>1. ASSUME NEW d \in Client, d # c PROVE ConnKeeps(d) /\ conn[d].op # o
      BY <2>2, <3>1, NoneAssumption DEF Returned, OthersStay, ConnKeeps, Threads, OpsApart
    <3>2. ConnKeeps(c) /\ conn'[c].pc # "submit_spawn"
      BY <2>2, <1>5 DEF Returned
    <3> QED
      BY <3>1, <3>2
  <2>6. \A q \in Operation : turn'[q].stage \in Working => q # o
    BY <2>3
  <2> QED
    BY <2>1, <2>4, <2>5, <2>6, CallsStep
<1> QED
  BY <1>7, <1>9, <1>10, <1>11, <1>12

\* The handlers that start a terminal job begin it once, and end it if its
\* process cannot be kept.
LEMMA PtyCalls ==
  ASSUME DaemonInv, NEW c \in Client,
         \/ PtyReap(c) \/ PtyAdmit(c) \/ PtySpawn(c) \/ PtyInsert(c)
         \/ \E recorded \in BOOLEAN : PtyAudit(c, recorded)
         \/ \E ok \in BOOLEAN : PtyBegin(c, ok)
         \/ \E ok \in PersistOutcome : PtySpawnFails(c, ok) \/ PtyInsertRefused(c, ok)
  PROVE  [Next]_regvars /\ Calls'
<1> USE DEF DaemonInv
<1>0. conn[c].pc \in PtyPc /\ turn' = turn /\ up
  BY DEF PtyReap, PtyAdmit, PtySpawn, PtyInsert, PtyAudit, PtyBegin, PtySpawnFails,
     PtyInsertRefused, Step, PtyPc, finish_execution
<1>i. PICK s \in SessionId, o \in Operation : s = conn[c].session /\ o = conn[c].op
  BY <1>0, ThreadFacts DEF PtyPc
<1> USE <1>i
<1>t. \A q \in Operation : TurnKeeps(q)
  BY <1>0, SameTurnKeeps
<1>2. turn[o] = NoTurn
  <2>1. CASE conn[c].pc \in StartPc
    BY <2>1 DEF Threads, Starting
  <2>2. CASE conn[c].pc = "pty_insert"
    <3>1. job[o].stage = "starting"
      BY <2>2 DEF Threads, Starting
    <3> QED
      BY <3>1, NoJobType DEF Threads, OneRole
  <2> QED
    BY <1>0, <2>1, <2>2 DEF PtyPc, StartPc
<1>3. turn[o].stage = "unborn"
  BY <1>2, NoTurnType
<1>4. ASSUME UNCHANGED regvars,
             \/ Returned(c, s)
             \/ \E to \in PtyPc : Moved(c, to) /\ (conn[c].pc \in UnbegunPc \/ to \notin UnbegunPc)
      PROVE  [Next]_regvars /\ Calls'
  <2>1. OthersStay(c) /\ ConnKeeps(c)
    BY <1>4 DEF Returned, Moved, ConnKeeps, UnbegunPc, PtyPc
  <2> QED
    BY <1>0, <1>t, <1>4, <2>1, QuietStep DEF regvars, ghosts
<1>5. CASE PtyReap(c)
  BY <1>4, <1>5, PtyReapDoes DEF PtyReap, Step, UnbegunPc, PtyPc
<1>6. CASE PtyAdmit(c) \/ \E recorded \in BOOLEAN : PtyAudit(c, recorded)
  <2>1. UNCHANGED regvars /\ conn[c].pc \in UnbegunPc
    BY <1>6 DEF PtyAdmit, PtyAudit, UnbegunPc
  <2>2. Returned(c, s) \/ Moved(c, "pty_audit") \/ Moved(c, "pty_begin")
    BY <1>6, PtyWaitsDo
  <2> QED
    BY <1>4, <2>1, <2>2 DEF PtyPc
<1>7. ASSUME NEW ok \in BOOLEAN, PtyBegin(c, ok) PROVE [Next]_regvars /\ Calls'
  <2>1. /\ conn[c].pc \in UnbegunPc /\ turn[o].stage \notin Working
        /\ UNCHANGED regvars \/ begin_execution(s, o, ok)
        /\ ok => begin_execution(s, o, ok)
    BY <1>3, <1>7 DEF PtyBegin, UnbegunPc, Working
  <2>2. \/ ok /\ Moved(c, "pty_spawn")
        \/ ~ok /\ Returned(c, s)
    BY <1>7, PtyBeginDoes
  <2>3. OthersStay(c)
    BY <2>2 DEF Moved, Returned
  <2>4. \/ /\ ok /\ turn' = turn /\ begin_execution(s, o, ok)
           /\ conn'[c].session = s /\ conn'[c].op = o
           /\ conn'[c].pc \in {"submit_spawn", "pty_spawn"}
        \/ /\ ~ok /\ conn'[c].pc \notin UnbegunPc \cup {"submit_spawn"}
           /\ TurnsStay(o) /\ turn'[o] \in {NoTurn, turn[o]}
    BY <1>0, <2>1, <2>2 DEF Moved, Returned, UnbegunPc, TurnsStay
  <2> QED
    BY <1>0, <2>1, <2>3, <2>4, BeginCalls
<1>8. CASE PtySpawn(c)
  BY <1>4, <1>8, PtySpawnDoes DEF PtySpawn, Step, UnbegunPc, PtyPc
<1>9. CASE PtyInsert(c)
  BY <1>4, <1>9, PtyInsertDoes DEF PtyInsert
<1>10. ASSUME NEW ok \in PersistOutcome, PtySpawnFails(c, ok) \/ PtyInsertRefused(c, ok)
       PROVE  [Next]_regvars /\ Calls'
  <2>1. /\ [Next]_regvars /\ up /\ up' /\ accepted' = accepted
        /\ settled \subseteq settled' /\ settled' \subseteq settled \cup {o}
        /\ concluded \subseteq concluded'
    BY <1>10, FinishKeeps DEF PtySpawnFails, PtyInsertRefused
  <2>2. Returned(c, s)
    BY <1>10, PtySpawnFailsDoes, PtyInsertRefusedDoes
  <2>3. \A d \in Client : ConnKeeps(d) /\ (conn'[d].pc = "submit_spawn" => conn[d].op # o)
    <3>1. ASSUME NEW d \in Client, d # c PROVE ConnKeeps(d) /\ conn[d].op # o
      BY <2>2, <3>1, NoneAssumption DEF Returned, OthersStay, ConnKeeps, Threads, OpsApart
    <3>2. ConnKeeps(c) /\ conn'[c].pc # "submit_spawn"
      BY <2>2 DEF Returned, ConnKeeps, UnbegunPc
    <3> QED
      BY <3>1, <3>2
  <2>4. \A q \in Operation : turn'[q].stage \in Working => q # o
    BY <1>0, <1>3 DEF Working
  <2> QED
    BY <1>t, <2>1, <2>3, <2>4, CallsStep
<1> QED
  BY <1>5, <1>6, <1>7, <1>8, <1>9, <1>10

\* The handlers that leave or close a session begin and end nothing.
LEMMA LeaveCalls ==
  ASSUME DaemonInv, NEW c \in Client,
         \/ DetachSnapshot(c) \/ DetachCancel(c) \/ DetachTerminate(c) \/ DetachWait(c)
         \/ CloseTerminate(c) \/ CloseWait(c) \/ CloseCancel(c) \/ PtyCloseWait(c)
         \/ \E ok \in PersistOutcome : DetachRegistry(c, ok)
  PROVE  [Next]_regvars /\ Calls'
<1> USE DEF DaemonInv
<1>0. /\ up /\ conn[c].session \in SessionId /\ ActiveType /\ TurnType
      /\ PersistOutcome \subseteq BOOLEAN
  <2>1. up /\ conn[c].pc \in DetachPc \cup ClosePc \cup {"ptyclose_wait"}
    BY DEF DetachSnapshot, DetachCancel, DetachTerminate, DetachWait, CloseTerminate,
       CloseWait, CloseCancel, PtyCloseWait, DetachRegistry, Step, DetachPc, ClosePc, detach
  <2> QED
    BY <2>1, ThreadFacts, OutcomeType DEF DetachPc, ClosePc, DaemonTypes
<1>1. ASSUME UNCHANGED regvars,
             \/ \E s : Returned(c, s)
             \/ Left(c)
             \/ \E to \in DetachPc \cup ClosePc : Moved(c, to),
             \A o \in Operation : /\ turn'[o].stage = turn[o].stage
                                  /\ turn'[o].session = turn[o].session
                                  /\ turn'[o].history = turn[o].history
      PROVE  [Next]_regvars /\ Calls'
  <2>1. OthersStay(c) /\ ConnKeeps(c)
    BY <1>1 DEF Returned, Left, Moved, ConnKeeps, UnbegunPc, DetachPc, ClosePc
  <2>2. \A o \in Operation : TurnKeeps(o)
    BY <1>1, SameTurnKeeps
  <2> QED
    BY <1>0, <1>1, <2>1, <2>2, QuietStep DEF regvars, ghosts
<1>2. CASE DetachSnapshot(c)
  <2>1. /\ UNCHANGED <<regvars, turn>>
        /\ \/ Left(c) \/ Returned(c, None)
           \/ Moved(c, "detach_cancel") \/ Moved(c, "detach_registry")
    BY <1>2, DetachSnapshotDoes
  <2> QED
    BY <1>1, <2>1 DEF DetachPc
<1>3. CASE DetachCancel(c)
  <2>1. Moved(c, "detach_terminate") /\ UNCHANGED regvars /\ cancel_and_remove(conn[c].session)
    BY <1>3, DetachCancelDoes DEF DetachCancel
  <2> QED
    BY <1>0, <1>1, <2>1, CancelFields DEF ActiveType, DetachPc
<1>4. CASE DetachTerminate(c) \/ CloseTerminate(c)
  <2>1. UNCHANGED <<regvars, turn>> /\ (Moved(c, "detach_wait") \/ Moved(c, "close_wait"))
    BY <1>4, TerminateDoes
  <2> QED
    BY <1>1, <2>1 DEF DetachPc, ClosePc
<1>5. CASE DetachWait(c) \/ CloseWait(c)
  <2>1. UNCHANGED <<regvars, turn>> /\ (Moved(c, "detach_registry") \/ Moved(c, "close_cancel"))
    BY <1>5, WaitDoes
  <2> QED
    BY <1>1, <2>1 DEF DetachPc, ClosePc
<1>6. CASE CloseCancel(c)
  <2>1. /\ UNCHANGED regvars /\ cancel_and_remove(conn[c].session)
        /\ Returned(c, None) \/ Returned(c, conn[c].attached)
    BY <1>6, CloseCancelDoes
  <2> QED
    BY <1>0, <1>1, <2>1, CancelFields DEF ActiveType
<1>7. CASE PtyCloseWait(c)
  <2>1. UNCHANGED <<regvars, turn>> /\ Returned(c, conn[c].session)
    BY <1>7, PtyCloseWaitDoes DEF PtyCloseWait
  <2> QED
    BY <1>1, <2>1
<1>8. ASSUME NEW ok \in PersistOutcome, DetachRegistry(c, ok) PROVE [Next]_regvars /\ Calls'
  <2>1. ClientStep(c, ok) /\ turn' = turn
    BY <1>0, <1>8 DEF DetachRegistry, ClientStep
  <2>2. Left(c) \/ \E s : Returned(c, s)
    BY <1>0, <1>8, DetachRegistryDoes
  <2>3. OthersStay(c) /\ ConnKeeps(c)
    BY <2>2 DEF Returned, Left, ConnKeeps, UnbegunPc
  <2>4. \A o \in Operation : TurnKeeps(o)
    BY <2>1, SameTurnKeeps
  <2> QED
    BY <2>1, <2>3, <2>4, ClientKeeps, QuietStep
<1> QED
  BY <1>2, <1>3, <1>4, <1>5, <1>6, <1>7, <1>8

\* A turn's worker ends its own operation, with a history that is the turn's.
LEMMA TurnPersistsCalls ==
  ASSUME DaemonInv, NEW o \in Operation, NEW h \in TurnResults(turn[o].history, o),
         NEW ok \in PersistOutcome, TurnPersists(o, h, ok)
  PROVE  [Next]_regvars /\ Calls'
<1> USE DEF DaemonInv
<1>i. PICK s \in SessionId : s = turn[o].session
  BY DEF TurnPersists, Threads, OneRole, DaemonTypes, TurnType, Turn
<1>0. /\ TypeOK /\ up /\ turn[o].stage = "ended" /\ Open(o, s)
      /\ turn[o].history \in Seq(Message) /\ conn' = conn
  BY <1>i DEF TurnPersists, Calls, Working, IInv, DaemonTypes, TurnType, Turn
<1>1. TurnReaches(o, "persisted")
  BY <1>0 DEF TurnPersists, DaemonTypes, TurnType, Turn, TurnReaches, TurnsStay
<1>2. \A q \in Operation : TurnKeeps(q)
  BY <1>1, SameTurnKeeps DEF TurnReaches, TurnsStay, Working
<1>3. \A c \in Client : ConnKeeps(c) /\ (conn'[c].pc = "submit_spawn" => conn[c].op # o)
  <2>1. \A c \in Client : conn[c].pc = "submit_spawn" => turn[conn[c].op].stage = "submitting"
    BY DEF Threads, Starting, SubmitPc
  <2> QED
    BY <1>0, <2>1 DEF ConnKeeps
<1>4. \A q \in Operation : turn'[q].stage \in Working => q # o
  BY <1>1 DEF TurnReaches, Working
<1>5. CASE Live(s) /\ turn[o].cwd \in directories
  <2>1. update_execution_state(s, o, turn[o].cwd, h, ok)
    BY <1>i, <1>5 DEF TurnPersists
  <2>2. h \in TurnHistories(o)
    <3>1. settled \subseteq Begun /\ IsFiniteSet(Begun)
      BY <1>0 DEF Begun, HistoryInv, IInv, MemoryInv, SettledAccepted, TypeOK
    <3>2. IsFiniteSet(settled)
      BY <3>1, FS_Subset
    <3>3. /\ settled \subseteq Operation /\ concluded \subseteq settled
          /\ Says(turn[o].history, settled, concluded) /\ Silent(turn[o].history, o)
      BY <1>0 DEF IInv, MemoryInv, TypeOK, Calls
    <3> QED
      BY <1>0, <3>2, <3>3, TurnResultsSay
  <2>3. turn[o].cwd \in Directory
    BY <1>0, <1>5 DEF TypeOK
  <2>4. OperationStep(s, o, ok)
    BY <1>0, <2>1, <2>2, <2>3 DEF OperationStep, Open
  <2>5. [Next]_regvars
    BY <2>4 DEF Next
  <2>6. in_flight[s] \in {None, o}
    <3>1. CASE in_flight[s] # None
      <4>1. IsDurable(s)
        BY <1>5, <3>1 DEF HistoryInv, MarkerDurable
      <4> QED
        BY <1>0, <4>1 DEF IInv, MemoryInv, MarkerComplete, Open
    <3> QED
      BY <3>1
  <2>7. /\ up' /\ accepted' = accepted /\ settled' = settled \cup {o}
        /\ concluded \subseteq concluded'
    BY <1>0, <2>1, <2>6 DEF update_execution_state, persist
  <2> QED
    BY <1>0, <1>2, <1>3, <1>4, <2>5, <2>7, CallsStep
<1>6. CASE ~(Live(s) /\ turn[o].cwd \in directories)
  <2>1. UNCHANGED regvars
    BY <1>i, <1>6 DEF TurnPersists
  <2> QED
    BY <1>0, <1>2, <1>3, <2>1, CallsStep DEF regvars, ghosts
<1> QED
  BY <1>5, <1>6

\* The workers of turns and terminal jobs.
LEMMA WorkerCalls ==
  ASSUME DaemonInv, NEW o \in Operation, TurnWorker(o) \/ JobWorker(o)
  PROVE  [Next]_regvars /\ Calls'
<1> USE DEF DaemonInv
<1>0. TypeOK /\ TurnType /\ ActiveType /\ directories \subseteq Directory
  BY DEF IInv, DaemonTypes, TypeOK
<1>1. ASSUME UNCHANGED regvars, up, conn' = conn, \A q \in Operation : TurnKeeps(q)
      PROVE  [Next]_regvars /\ Calls'
  BY <1>1, CallsStep DEF ConnKeeps, regvars, ghosts
<1>2. CASE TurnRuns(o) \/ \E d \in Directory : TurnEnds(o, d)
  <2>1. /\ UNCHANGED <<regvars, conn>> /\ up /\ turn[o].stage \in Working
        /\ TurnReaches(o, "running") \/ TurnReaches(o, "ended")
    BY <1>0, <1>2 DEF TurnRuns, TurnEnds, TurnType, Turn, TurnReaches, TurnsStay, Working
  <2>2. \A q \in Operation : TurnKeeps(q)
    BY <2>1 DEF TurnReaches, TurnsStay, TurnKeeps
  <2> QED
    BY <1>1, <2>1, <2>2
<1>3. CASE RuntimeFails(o) \/ TurnConcludes(o)
  <2>1. UNCHANGED <<regvars, conn>> /\ up /\ Conclude(o)
    BY <1>3 DEF RuntimeFails, TurnConcludes
  <2>2. turn[o].session \in SessionId
    BY <1>0, <1>3 DEF RuntimeFails, TurnConcludes, Threads, OneRole, TurnType, Turn
  <2>3. TurnsStay(o) /\ turn'[o].stage \notin Working /\ turn'[o].history = <<>>
    BY <1>0, <2>1, <2>2, ConcludeFields DEF TurnsStay, Working
  <2>4. \A q \in Operation : TurnKeeps(q)
    BY <2>3, SameTurnKeeps DEF TurnsStay
  <2> QED
    BY <1>1, <2>1, <2>4
<1>4. CASE JobExits(o)
  <2>1. UNCHANGED <<regvars, conn, turn>> /\ up
    BY <1>4 DEF JobExits
  <2> QED
    BY <1>1, <2>1, SameTurnKeeps
<1>5. ASSUME NEW ok \in PersistOutcome, JobFinishes(o, ok) PROVE [Next]_regvars /\ Calls'
  <2>1. /\ job[o].stage = "exited" /\ finish_execution(job[o].session, o, ok)
        /\ UNCHANGED <<conn, turn>>
    BY <1>5 DEF JobFinishes
  <2>2. job[o].session \in SessionId
    BY <2>1 DEF Threads, OneRole, DaemonTypes, JobType, Job
  <2>3. turn[o].stage = "unborn"
    BY <2>1, NoJobType, NoTurnType DEF Threads, OneRole
  <2>4. /\ [Next]_regvars /\ up /\ up' /\ accepted' = accepted
        /\ settled \subseteq settled' /\ settled' \subseteq settled \cup {o}
        /\ concluded \subseteq concluded'
    BY <2>1, <2>2, FinishKeeps
  <2>5. \A c \in Client : ConnKeeps(c) /\ (conn'[c].pc = "submit_spawn" => conn[c].op # o)
    <3>1. \A c \in Client : conn[c].pc = "submit_spawn" => turn[conn[c].op].stage = "submitting"
      BY DEF Threads, Starting, SubmitPc
    <3> QED
      BY <2>1, <2>3, <3>1 DEF ConnKeeps
  <2>6. \A q \in Operation : TurnKeeps(q) /\ (turn'[q].stage \in Working => q # o)
    BY <2>1, <2>3, SameTurnKeeps DEF Working
  <2> QED
    BY <2>4, <2>5, <2>6, CallsStep
<1> QED
  BY <1>2, <1>3, <1>4, <1>5, TurnPersistsCalls DEF TurnWorker, JobWorker

\* Shutdown, the end of the process, a restart and the host's directories.
LEMMA LifeCalls ==
  ASSUME DaemonInv, Shutdown \/ Stop \/ Restart \/ Environment
  PROVE  [Next]_regvars /\ Calls'
<1> USE DEF DaemonInv
<1>1. CASE Shutdown
  <2>1. UNCHANGED <<regvars, conn>> /\ up
    BY <1>1 DEF Shutdown, StopAdmission, CancelActive, StopPtys, DrainPtys
  <2>2. \A o \in Operation : /\ turn'[o].stage = turn[o].stage
                             /\ turn'[o].session = turn[o].session
                             /\ turn'[o].history = turn[o].history
    <3>1. CASE CancelActive
      BY <3>1, CancelActiveDoes DEF TurnsCancelled
    <3>2. CASE ~CancelActive
      BY <1>1, <3>2 DEF Shutdown, StopAdmission, StopPtys, DrainPtys
    <3> QED
      BY <3>1, <3>2
  <2> QED
    BY <2>1, <2>2, SameTurnKeeps, CallsStep DEF ConnKeeps, regvars, ghosts
<1>2. CASE Stop
  <2>1. Next /\ ~up'
    BY <1>2 DEF Stop, Next, Crash
  <2>2. /\ \A c \in Client : conn'[c].pc = "idle"
        /\ \A o \in Operation : turn'[o].stage \in {"unborn", "over"} /\ turn'[o].history = <<>>
    BY <1>2, StopDoes
  <2>3. \A o \in Operation : /\ Says(turn'[o].history, settled', concluded')
                             /\ Silent(turn'[o].history, o)
    BY <2>2, SaysNothing DEF Silent
  <2> QED
    BY <2>1, <2>2, <2>3 DEF Calls, DownIsIdle, UnbegunPc, Working
<1>3. CASE Restart
  <2>1. Next /\ up' /\ UNCHANGED <<conn, turn>> /\ ~up
    BY <1>3 DEF Restart, Next, load, daemon
  <2>2. settled \subseteq settled' /\ concluded \subseteq concluded'
    BY <1>3 DEF Restart, load, persist
  <2>3. \A o \in Operation : /\ Says(turn'[o].history, settled', concluded')
                             /\ Silent(turn'[o].history, o)
    BY <2>1, <2>2, SaysMore DEF Calls
  <2> QED
    BY <2>1, <2>3 DEF Calls, DownIsIdle, UnbegunPc, Working
<1>4. CASE Environment
  <2>1. Next /\ UNCHANGED <<up, accepted, settled, concluded, conn, turn>>
    BY <1>4 DEF Environment, Next, RemoveDirectory, MakeDirectory, ghosts, daemon
  <2> QED
    BY <2>1 DEF Calls, DownIsIdle, Open
<1> QED
  BY <1>1, <1>2, <1>3, <1>4

-----------------------------------------------------------------------------
(* The theorems.                                                           *)

\* The daemon starts with everything at rest.
LEMMA DaemonInvInit == DaemonInit => DaemonInv
<1> SUFFICES ASSUME DaemonInit PROVE DaemonInv
  OBVIOUS
<1>1. IInv /\ HistoryInv
  BY InvInit, HistoryInit DEF DaemonInit
<1>2. IdleConn \in Conn
  BY DEF IdleConn, Conn, ConnPc
<1>3. DaemonTypes
  BY <1>2, NoTurnType, NoJobType DEF DaemonInit, DaemonTypes, ConnType, ActiveType, TurnType,
     JobType, Phase
<1>4. \A c \in Client : /\ conn[c].pc = "idle" /\ conn[c].op = None /\ conn[c].session = None
                        /\ conn[c].next = None /\ ~conn[c].leaving
  BY DEF DaemonInit, IdleConn
<1>5. \A o \in Operation : turn[o] = NoTurn /\ job[o] = NoJob
  BY DEF DaemonInit
<1>6. Threads
  <2>1. \A c \in Client : Shape(c) /\ Starting(c)
    BY <1>4 DEF Shape, Starting, SubmitPc, StartPc, PtyPc, DetachPc
  <2>2. OpsApart
    BY <1>4 DEF OpsApart
  <2>3. \A o \in Operation : OneRole(o)
    BY <1>5, NoTurnType, NoJobType DEF OneRole
  <2>4. \A s \in SessionId : ActiveIsTurn(s)
    BY DEF DaemonInit, ActiveIsTurn
  <2> QED
    BY <2>1, <2>2, <2>3, <2>4 DEF Threads
<1>7. Calls
  <2>1. \A o \in Operation : /\ Says(turn[o].history, settled, concluded)
                             /\ Silent(turn[o].history, o) /\ turn[o].stage = "unborn"
    <3>1. \A o \in Operation : turn[o].history = <<>> /\ turn[o].stage = "unborn"
      BY <1>5, NoTurnType
    <3> QED
      BY <3>1, SaysNothing DEF Silent
  <2> QED
    <3>1. up
      BY DEF DaemonInit, Init
    <3> QED
      BY <1>4, <2>1, <3>1 DEF Calls, DownIsIdle, UnbegunPc, Working
<1> QED
  BY <1>1, <1>3, <1>6, <1>7 DEF DaemonInv

\* Every step of the daemon is a step of the registry, or leaves it alone.
LEMMA DaemonStep == ASSUME DaemonInv, [DaemonNext]_vars PROVE [Next]_regvars /\ Calls'
<1>1. CASE UNCHANGED vars
  BY <1>1 DEF vars, daemon, regvars, ghosts, DaemonInv, Calls, DownIsIdle, Open
<1>2. ASSUME NEW c \in Client, Requests(c) PROVE [Next]_regvars /\ Calls'
  BY <1>2, RequestCalls, StartCalls
<1>3. ASSUME NEW c \in Client, Handler(c) PROVE [Next]_regvars /\ Calls'
  BY <1>3, SubmitCalls, PtyCalls, LeaveCalls DEF Handler
<1> QED
  BY <1>1, <1>2, <1>3, WorkerCalls, LifeCalls DEF DaemonNext

\* Every step of the daemon keeps the invariant.
LEMMA DaemonInvNext == DaemonInv /\ [DaemonNext]_vars => DaemonInv'
<1> SUFFICES ASSUME DaemonInv, [DaemonNext]_vars PROVE DaemonInv'
  OBVIOUS
<1>1. [Next]_regvars /\ Calls'
  BY DaemonStep
<1>2. IInv' /\ HistoryInv'
  BY <1>1, InvNext, HistoryNext DEF DaemonInv
<1>3. DaemonTypes' /\ Threads'
  BY ThreadsNext DEF DaemonInv, IInv
<1> QED
  BY <1>1, <1>2, <1>3 DEF DaemonInv

\* The daemon's inductive invariant: the registry's, and how threads, turns and
\* terminal jobs stand to it.
THEOREM DaemonInvariance == DaemonSpec => []DaemonInv
BY DaemonInvInit, DaemonInvNext, PTL DEF DaemonSpec

\* Every variable of the daemon keeps its type.
THEOREM DaemonTypeCorrect == DaemonSpec => []DaemonTypeOK
<1>1. DaemonInv => DaemonTypeOK
  BY DEF DaemonInv, IInv, DaemonTypes, ConnType, ActiveType, TurnType, JobType, DaemonTypeOK
<1> QED
  BY <1>1, DaemonInvariance, PTL

\* xshelld implements the registry's specification: however requests, turns,
\* terminal jobs, failed writes, shutdowns and crashes are interleaved, the
\* registry is only called with fresh operations, each is ended at most once,
\* and histories only speak of operations that have ended.
THEOREM DaemonImplementsRegistry == DaemonSpec => Spec
<1>1. DaemonInit => Init
  BY DEF DaemonInit
<1>2. DaemonInv /\ [DaemonNext]_vars => [Next]_regvars
  BY DaemonStep
<1> QED
  BY <1>1, <1>2, DaemonInvariance, PTL DEF DaemonSpec, Spec

\* So what is proved of the registry holds of the daemon: one controller per
\* session, unique names, no orphaned ephemeral session, a current file, and a
\* recovery that reports exactly the operations a crash interrupted.
THEOREM DaemonKeepsSessions ==
  DaemonSpec => /\ [](SingleController /\ UniqueNames /\ EphemeralIsControlled /\ DiskIsCurrent)
                /\ RecoveryIsExact
BY DaemonImplementsRegistry, OneController, NamesAreUnique, NoOrphanedEphemeral, FileIsCurrent,
   ExactRecovery, PTL

=============================================================================

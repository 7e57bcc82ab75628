------------------------ MODULE SessionRegistryProofs ------------------------
(***************************************************************************)
(* Proofs about the session registry, for any sets of sessions, names,     *)
(* connections, operations and directories, with a disk that may fail.     *)
(*                                                                         *)
(* First the types, one lemma per operation.  Then the inductive invariant *)
(* IInv: what memory promises (MemoryInv), what the file promises          *)
(* (DiskInv), and the ties between them.  RecordStep handles a change of   *)
(* one session, PersistInv the end of an operation that writes the file or *)
(* fails to; each operation is then a lemma that uses both.                *)
(***************************************************************************)
EXTENDS SessionRegistry, TLAPS

-----------------------------------------------------------------------------
(* Types.                                                                  *)

\* The empty registry with which the daemon first starts is well typed.
LEMMA TypeInit == Init => TypeOK
<1> SUFFICES ASSUME Init PROVE TypeOK
  OBVIOUS
<1>1. NoSessions \in [SessionId -> {None}]
  BY DEF NoSessions
<1> QED
  BY <1>1 DEF Init, TypeOK, DurableState

\* What persist() writes is a DurableState.
LEMMA ImageType ==
  ASSUME NEW S \in [SessionId -> SessionRecord \cup {None}],
         NEW F \in [SessionId -> Operation \cup {None}]
  PROVE  DurableImage(S, F) \in DurableState
BY NoneAssumption DEF DurableImage, DurableState, SessionRecord

\* persist() keeps the file and its history variables well typed.
LEMMA PersistType ==
  ASSUME NEW ok, TypeOK, persist(ok),
         sessions' \in [SessionId -> SessionRecord \cup {None}],
         in_flight' \in [SessionId -> Operation \cup {None}],
         settled' \subseteq Operation
  PROVE  disk' \in DurableState /\ concluded' \subseteq Operation /\ dirty' \in BOOLEAN
<1>1. disk' \in DurableState
  BY ImageType DEF persist, TypeOK
<1>2. ok \in BOOLEAN
  BY DEF persist, PersistOutcome
<1> QED
  BY <1>1, <1>2 DEF persist, TypeOK

\* A live session's record has its type.
LEMMA LiveType ==
  ASSUME TypeOK, NEW s \in SessionId, Live(s)
  PROVE  sessions[s] \in SessionRecord /\ sessions[s].snapshot \in Snapshot
                                       /\ sessions[s].attachments \subseteq Client
                                       /\ sessions[s].snapshot.history \in Seq(Message)
<1>1. sessions[s] \in SessionRecord
  BY DEF TypeOK, Live
<1> QED
  BY <1>1 DEF SessionRecord, Snapshot

\* The histories that a client sends are histories.
LEMMA ClientHistoriesType ==
  ASSUME TypeOK, NEW h \in ClientHistories
  PROVE  h \in Seq(Message)
<1>1. CASE h = <<>>
  BY <1>1
<1>2. CASE h # <<>>
  <2>1. PICK s \in SessionId : Live(s) /\ h = sessions[s].snapshot.history
    BY <1>2 DEF ClientHistories
  <2> QED
    BY <2>1, LiveType
<1> QED
  BY <1>1, <1>2

\* The histories that a turn ends with are histories.
LEMMA TurnHistoriesType ==
  ASSUME TypeOK, NEW o \in Operation, NEW h \in TurnHistories(o)
  PROVE  /\ h \in Seq(Message)
         /\ \A i \in 1..Len(h) : h[i] \in Sayable(o)
<1>1. PICK n \in 0..Cardinality(settled \cup {o}) : h \in [1..n -> Sayable(o)]
  BY DEF TurnHistories
<1>2. n \in Nat
  BY <1>1
<1>3. Sayable(o) \subseteq Message
  BY DEF Sayable, Recorded, OutcomeUnknown, Message, TypeOK
<1>4. h \in [1..n -> Message]
  BY <1>1, <1>3
<1>5. h \in Seq(Message) /\ Len(h) = n
  BY <1>2, <1>4
<1> QED
  BY <1>1, <1>5

\* create() keeps the types.
LEMMA CreateType ==
  ASSUME NEW c \in Client, NEW id \in SessionId, NEW n \in Name,
         NEW p \in PersistenceMode, NEW d \in Directory, NEW h \in Seq(Message), NEW ok,
         TypeOK, create(c, id, n, p, d, h, ok)
  PROVE  TypeOK'
<1>1. NewRecord(c, n, p, d, h) \in SessionRecord
  BY DEF NewRecord, SessionRecord, Snapshot
<1>2. sessions' \in [SessionId -> SessionRecord \cup {None}]
  BY <1>1 DEF create, TypeOK
<1>3. in_flight' \in [SessionId -> Operation \cup {None}] /\ settled' \subseteq Operation
  BY DEF create, TypeOK
<1>4. persist(ok)
  BY DEF create
<1> QED
  BY <1>2, <1>3, <1>4, PersistType DEF create, TypeOK

\* attach() keeps the types.
LEMMA AttachType ==
  ASSUME NEW c \in Client, NEW s \in SessionId, TypeOK, attach(c, s)
  PROVE  TypeOK'
<1>1. Live(s)
  BY DEF attach
<1>2. Attached(c, s) \in SessionRecord
  BY <1>1, LiveType DEF Attached, SessionRecord
<1> QED
  BY <1>2 DEF attach, TypeOK, ghosts

\* detach() keeps the types.
LEMMA DetachType ==
  ASSUME NEW c \in Client, NEW s \in SessionId, NEW ok, TypeOK, detach(c, s, ok)
  PROVE  TypeOK'
<1>1. CASE ~Live(s)
  BY <1>1 DEF detach, TypeOK, regvars, ghosts
<1>2. CASE Live(s)
  <2>1. Detached(c, s) \in SessionRecord
    BY <1>2, LiveType DEF Detached, SessionRecord
  <2>2. sessions' \in [SessionId -> SessionRecord \cup {None}]
    BY <1>2, <2>1 DEF detach, TypeOK
  <2>3. in_flight' \in [SessionId -> Operation \cup {None}] /\ settled' \subseteq Operation
    BY <1>2 DEF detach, TypeOK
  <2>4. persist(ok)
    BY <1>2 DEF detach
  <2> QED
    BY <1>2, <2>2, <2>3, <2>4, PersistType DEF detach, TypeOK
<1> QED
  BY <1>1, <1>2

\* A record stays a record when its cwd and history are replaced.
LEMMA WithStateType ==
  ASSUME NEW s \in SessionId, NEW d \in Directory, NEW h \in Seq(Message),
         TypeOK, Live(s)
  PROVE  WithState(sessions[s], d, h) \in SessionRecord
<1>1. sessions[s] \in SessionRecord
  BY DEF TypeOK, Live
<1> QED
  BY <1>1 DEF SessionRecord, Snapshot, WithState

\* update() keeps the types.
LEMMA UpdateType ==
  ASSUME NEW c \in Client, NEW s \in SessionId, NEW d \in Directory,
         NEW h \in Seq(Message), NEW ok, TypeOK, update(c, s, d, h, ok)
  PROVE  TypeOK'
<1>1. WithState(sessions[s], d, h) \in SessionRecord
  BY WithStateType DEF update
<1>2. sessions' \in [SessionId -> SessionRecord \cup {None}]
  BY <1>1 DEF update, TypeOK
<1>3. in_flight' \in [SessionId -> Operation \cup {None}] /\ settled' \subseteq Operation
  BY DEF update, TypeOK
<1>4. persist(ok)
  BY DEF update
<1> QED
  BY <1>2, <1>3, <1>4, PersistType DEF update, TypeOK

\* begin_execution() keeps the types.
LEMMA BeginType ==
  ASSUME NEW s \in SessionId, NEW o \in Operation, NEW ok, TypeOK, begin_execution(s, o, ok)
  PROVE  TypeOK'
<1>1. CASE IsDurable(s) /\ ok
  <2>1. /\ sessions' \in [SessionId -> SessionRecord \cup {None}]
        /\ in_flight' \in [SessionId -> Operation \cup {None}]
        /\ settled' \subseteq Operation
    BY <1>1 DEF begin_execution, TypeOK
  <2>2. persist(ok)
    BY <1>1 DEF begin_execution
  <2> QED
    BY <1>1, <2>1, <2>2, PersistType DEF begin_execution, TypeOK
<1>2. CASE IsDurable(s) /\ ~ok
  BY <1>2 DEF begin_execution, TypeOK, regvars, ghosts
<1>3. CASE ~IsDurable(s)
  BY <1>3 DEF begin_execution, TypeOK
<1> QED
  BY <1>1, <1>2, <1>3

\* finish_execution() keeps the types.
LEMMA FinishType ==
  ASSUME NEW s \in SessionId, NEW o \in Operation, NEW ok, TypeOK, finish_execution(s, o, ok)
  PROVE  TypeOK'
<1>1. CASE in_flight[s] = o
  <2>1. /\ sessions' \in [SessionId -> SessionRecord \cup {None}]
        /\ in_flight' \in [SessionId -> Operation \cup {None}]
        /\ settled' \subseteq Operation
    BY <1>1 DEF finish_execution, TypeOK
  <2>2. persist(ok)
    BY <1>1 DEF finish_execution
  <2> QED
    BY <1>1, <2>1, <2>2, PersistType DEF finish_execution, TypeOK
<1>2. CASE in_flight[s] # o
  BY <1>2 DEF finish_execution, TypeOK, regvars, ghosts
<1> QED
  BY <1>1, <1>2

\* update_execution_state() keeps the types.
LEMMA ExecutionStateType ==
  ASSUME NEW s \in SessionId, NEW o \in Operation, NEW d \in Directory,
         NEW h \in Seq(Message), NEW ok, TypeOK, update_execution_state(s, o, d, h, ok)
  PROVE  TypeOK'
<1>1. WithState(sessions[s], d, h) \in SessionRecord
  BY WithStateType DEF update_execution_state
<1>2. sessions' \in [SessionId -> SessionRecord \cup {None}]
  BY <1>1 DEF update_execution_state, TypeOK
<1>3. in_flight' \in [SessionId -> Operation \cup {None}] /\ settled' \subseteq Operation
  BY DEF update_execution_state, TypeOK
<1>4. persist(ok)
  BY DEF update_execution_state
<1> QED
  BY <1>2, <1>3, <1>4, PersistType DEF update_execution_state, TypeOK

\* close() keeps the types.
LEMMA CloseType ==
  ASSUME NEW c \in Client, NEW s \in SessionId, NEW ok, TypeOK, close(c, s, ok)
  PROVE  TypeOK'
<1>1. sessions' \in [SessionId -> SessionRecord \cup {None}]
  BY DEF close, TypeOK
<1>2. in_flight' \in [SessionId -> Operation \cup {None}] /\ settled' \subseteq Operation
  BY DEF close, TypeOK
<1>3. persist(ok)
  BY DEF close
<1> QED
  BY <1>1, <1>2, <1>3, PersistType DEF close, TypeOK

\* A session that load() restores is a detached record of the saved snapshot,
\* with at most the recovery message added.
LEMMA RestoredType ==
  ASSUME TypeOK, NEW s \in SessionId
  PROVE  Restored(s) \in SessionRecord \cup {None}
<1>1. CASE disk.sessions[s] = None
  BY <1>1 DEF Restored
<1>2. CASE disk.sessions[s] # None
  <2>1. disk.sessions[s] \in Snapshot
    BY <1>2 DEF TypeOK, DurableState
  <2>2. ASSUME disk.in_flight[s] # None
        PROVE  Append(disk.sessions[s].history, OutcomeUnknown(disk.in_flight[s]))
                 \in Seq(Message)
    <3>1. disk.in_flight[s] \in Operation
      BY <2>2 DEF TypeOK, DurableState
    <3>2. OutcomeUnknown(disk.in_flight[s]) \in Message
      BY <3>1 DEF OutcomeUnknown, Message
    <3> QED
      BY <2>1, <3>2 DEF Snapshot
  <2> QED
    BY <1>2, <2>1, <2>2 DEF Restored, SessionRecord, Snapshot
<1> QED
  BY <1>1, <1>2

\* load() keeps the types.
LEMMA LoadType == ASSUME TypeOK, load PROVE TypeOK'
<1>1. sessions' \in [SessionId -> SessionRecord \cup {None}]
  BY RestoredType DEF load
<1>2. in_flight' \in [SessionId -> Operation \cup {None}]
  BY DEF load, NoSessions
<1>3. Markers \subseteq Operation
  BY DEF Markers, TypeOK, DurableState
<1>4. settled' \subseteq Operation
  BY <1>3 DEF load, TypeOK
<1>5. disk' \in DurableState /\ concluded' \subseteq Operation /\ dirty' \in BOOLEAN
  BY <1>1, <1>2, <1>4, PersistType DEF load, TypeOK
<1> QED
  BY <1>1, <1>2, <1>4, <1>5 DEF load, TypeOK

\* A crash keeps the types.
LEMMA CrashType == ASSUME TypeOK, Crash PROVE TypeOK'
BY DEF Crash, TypeOK, NoSessions

\* Every step keeps the types.
LEMMA TypeNext == TypeOK /\ [Next]_regvars => TypeOK'
<1> SUFFICES ASSUME TypeOK, [Next]_regvars PROVE TypeOK'
  OBVIOUS
<1>1. ASSUME NEW c \in Client, NEW ok \in PersistOutcome, ClientStep(c, ok)
      PROVE  TypeOK'
  BY <1>1, CreateType, AttachType, CloseType, DetachType, UpdateType, ClientHistoriesType
     DEF ClientStep
<1>2. ASSUME NEW s \in SessionId, NEW o \in Operation, NEW ok \in PersistOutcome,
             OperationStep(s, o, ok)
      PROVE  TypeOK'
  BY <1>2, BeginType, FinishType, ExecutionStateType, TurnHistoriesType DEF OperationStep
<1>3. CASE \E d \in Directory : RemoveDirectory(d) \/ MakeDirectory(d)
  BY <1>3 DEF RemoveDirectory, MakeDirectory, TypeOK, ghosts
<1>4. CASE UNCHANGED regvars
  BY <1>4 DEF TypeOK, regvars, ghosts
<1> QED
  BY <1>1, <1>2, <1>3, <1>4, CrashType, LoadType DEF Next

\* The registry's state is well typed at every moment of every execution.
THEOREM TypeCorrect == Spec => []TypeOK
BY TypeInit, TypeNext, PTL DEF Spec

-----------------------------------------------------------------------------
(***************************************************************************)
(* The inductive invariant.  What must hold of memory, what must hold of   *)
(* the file, and what ties both to the operations that were accepted: an   *)
(* operation on a durable session has its marker in memory until it is     *)
(* settled, and in the file until it is concluded.                         *)
(***************************************************************************)

LiveNames ==
  \A s, t \in SessionId : s # t /\ Live(s) /\ Live(t) =>
    sessions[s].snapshot.name # sessions[t].snapshot.name

LiveIssued == \A s \in SessionId : Live(s) => s \in issued

AcceptedIssued == \A o \in Operation : accepted[o] # None => accepted[o] \in issued

SettledAccepted == \A o \in settled : accepted[o] # None

MarkerSound ==
  \A s \in SessionId : in_flight[s] # None =>
    accepted[in_flight[s]] = s /\ in_flight[s] \notin settled

MarkerComplete ==
  \A s \in SessionId, o \in Operation :
    IsDurable(s) /\ accepted[o] = s /\ o \notin settled => in_flight[s] = o

\* A history reports as outcome_unknown only operations that are concluded.
Reports(h, C) ==
  \A i \in 1..Len(h) : h[i].outcome = "outcome_unknown" => h[i].operation \in C

LiveReports ==
  \A s \in SessionId : Live(s) => Reports(sessions[s].snapshot.history, concluded)

MemoryInv ==
  /\ SingleController
  /\ LiveNames
  /\ EphemeralIsControlled
  /\ LiveIssued
  /\ AcceptedIssued
  /\ concluded \subseteq settled
  /\ MarkerSound
  /\ MarkerComplete
  /\ LiveReports
  /\ SettledAccepted

Saved(s) == disk.sessions[s] # None

DiskDurable == \A s \in SessionId : Saved(s) => disk.sessions[s].persistence = "Durable"

DiskNames ==
  \A s, t \in SessionId : s # t /\ Saved(s) /\ Saved(t) =>
    disk.sessions[s].name # disk.sessions[t].name

DiskIssued == \A s \in SessionId : Saved(s) => s \in issued

DiskMarkerSound ==
  \A s \in SessionId : disk.in_flight[s] # None =>
    accepted[disk.in_flight[s]] = s /\ disk.in_flight[s] \notin concluded

DiskMarkerComplete ==
  \A s \in SessionId, o \in Operation :
    Saved(s) /\ accepted[o] = s /\ o \notin concluded => disk.in_flight[s] = o

DiskReports ==
  \A s \in SessionId : Saved(s) => Reports(disk.sessions[s].history, concluded)

DiskInv ==
  /\ DiskDurable
  /\ DiskNames
  /\ DiskIssued
  /\ DiskMarkerSound
  /\ DiskMarkerComplete
  /\ DiskReports

\* The file holds no session that lives on with another mode.
SavedIsDurable == \A s \in SessionId : Live(s) /\ Saved(s) => IsDurable(s)

DownIsEmpty ==
  ~up => sessions = NoSessions /\ in_flight = NoSessions /\ settled = concluded /\ ~dirty

IInv == TypeOK /\ MemoryInv /\ DiskInv /\ SavedIsDurable /\ DownIsEmpty /\ DiskIsCurrent

\* A history that reports concluded operations still does when more of them are.
LEMMA ReportsGrow ==
  ASSUME NEW h, NEW C, NEW D, C \subseteq D, Reports(h, C)
  PROVE  Reports(h, D)
BY DEF Reports

\* A client can only send histories that report concluded operations.
LEMMA ClientReports ==
  ASSUME IInv, NEW h \in ClientHistories
  PROVE  Reports(h, concluded)
<1>1. CASE h = <<>>
  BY <1>1 DEF Reports
<1>2. CASE h # <<>>
  <2>1. PICK s \in SessionId : Live(s) /\ h = sessions[s].snapshot.history
    BY <1>2 DEF ClientHistories
  <2> QED
    BY <2>1 DEF IInv, MemoryInv, LiveReports
<1> QED
  BY <1>1, <1>2

\* So can a turn.
LEMMA TurnReports ==
  ASSUME TypeOK, NEW o \in Operation, NEW h \in TurnHistories(o)
  PROVE  Reports(h, concluded)
<1> SUFFICES ASSUME NEW i \in 1..Len(h), h[i].outcome = "outcome_unknown"
             PROVE  h[i].operation \in concluded
  BY DEF Reports
<1>1. h[i] \in Sayable(o)
  BY TurnHistoriesType
<1> QED
  BY <1>1 DEF Sayable, Recorded, OutcomeUnknown

\* What the replacement of one session's record by r may do: r is owned by at
\* most one connection, has a name of its own, is controlled if it is
\* ephemeral, reports concluded operations, and either replaces a record of
\* the same mode or is the first one under a fresh id.
GoodRecord(s, r) ==
  /\ \A c1, c2 \in r.attachments : c1 = c2
  /\ \A t \in SessionId : t # s /\ Live(t) => sessions[t].snapshot.name # r.snapshot.name
  /\ r.snapshot.persistence = "Ephemeral" => r.attachments # {}
  /\ Reports(r.snapshot.history, concluded)
  /\ \/ s \notin issued
     \/ Live(s) /\ r.snapshot.persistence = sessions[s].snapshot.persistence

\* Replacing a record by a good one, or removing it, keeps what memory promises
\* about names, controllers and histories, and changes no session's mode.
LEMMA RecordStep ==
  ASSUME IInv, TypeOK', NEW s \in SessionId, NEW r \in SessionRecord \cup {None},
         sessions' = [sessions EXCEPT ![s] = r],
         accepted' = accepted, issued \subseteq issued', concluded \subseteq concluded',
         r # None => s \in issued' /\ GoodRecord(s, r)
  PROVE  /\ SingleController' /\ LiveNames' /\ EphemeralIsControlled'
         /\ LiveIssued' /\ AcceptedIssued' /\ LiveReports'
         /\ \A t \in SessionId : sessions'[t] # None =>
              \/ t \notin issued
              \/ /\ Live(t)
                 /\ sessions'[t].snapshot.persistence = sessions[t].snapshot.persistence
<1> USE DEF Live
<1>0. \A t \in SessionId : sessions'[t] = IF t = s THEN r ELSE sessions[t]
  BY DEF IInv, TypeOK
<1>1. SingleController'
  BY <1>0 DEF SingleController, IInv, MemoryInv, GoodRecord
<1>2. LiveNames'
  <2> SUFFICES ASSUME NEW t \in SessionId, NEW u \in SessionId, t # u,
                      sessions'[t] # None, sessions'[u] # None
               PROVE  sessions'[t].snapshot.name # sessions'[u].snapshot.name
    BY DEF LiveNames
  <2>1. CASE t = s
    BY <2>1, <1>0 DEF GoodRecord
  <2>2. CASE u = s
    BY <2>2, <1>0 DEF GoodRecord
  <2>3. CASE t # s /\ u # s
    BY <2>3, <1>0 DEF IInv, MemoryInv, LiveNames
  <2> QED
    BY <2>1, <2>2, <2>3
<1>3. EphemeralIsControlled'
  BY <1>0 DEF EphemeralIsControlled, IInv, MemoryInv, GoodRecord
<1>4. LiveIssued'
  BY <1>0 DEF LiveIssued, IInv, MemoryInv
<1>5. AcceptedIssued'
  BY DEF AcceptedIssued, IInv, MemoryInv
<1>6. LiveReports'
  <2> SUFFICES ASSUME NEW t \in SessionId, sessions'[t] # None
               PROVE  Reports(sessions'[t].snapshot.history, concluded')
    BY DEF LiveReports
  <2>1. Reports(sessions'[t].snapshot.history, concluded)
    BY <1>0 DEF IInv, MemoryInv, LiveReports, GoodRecord
  <2> QED
    BY <2>1, ReportsGrow
<1>7. ASSUME NEW t \in SessionId, sessions'[t] # None
      PROVE  \/ t \notin issued
             \/ /\ Live(t)
                /\ sessions'[t].snapshot.persistence = sessions[t].snapshot.persistence
  BY <1>0, <1>7 DEF GoodRecord
<1> QED
  BY <1>1, <1>2, <1>3, <1>4, <1>5, <1>6, <1>7

\* No session of the next state has changed its mode.
ModesKept ==
  \A t \in SessionId : sessions'[t] # None =>
    \/ t \notin issued
    \/ Live(t) /\ sessions'[t].snapshot.persistence = sessions[t].snapshot.persistence

\* After a successful persist() the file promises what memory promises.
LEMMA Written ==
  ASSUME IInv, TypeOK', MemoryInv', settled \subseteq settled', persist(TRUE)
  PROVE  DiskInv' /\ SavedIsDurable' /\ DiskIsCurrent'
<1> USE DEF Live, Saved
<1>0. disk' = DurableImage(sessions', in_flight') /\ concluded' = settled'
  BY DEF persist, IInv, MemoryInv
<1>1. /\ disk'.in_flight = in_flight'
      /\ \A s \in SessionId : disk'.sessions[s] =
           IF sessions'[s] # None /\ sessions'[s].snapshot.persistence = "Durable"
             THEN sessions'[s].snapshot ELSE None
  BY <1>0 DEF DurableImage
<1>2. \A s \in SessionId : disk'.sessions[s] # None =>
        IsDurable(s)' /\ disk'.sessions[s] = sessions'[s].snapshot
  BY <1>1 DEF IsDurable
<1>3. DiskDurable'
  BY <1>2 DEF DiskDurable, IsDurable
<1>4. DiskNames'
  BY <1>2 DEF DiskNames, MemoryInv, LiveNames, IsDurable
<1>5. DiskIssued'
  BY <1>2 DEF DiskIssued, MemoryInv, LiveIssued, IsDurable
<1>6. DiskMarkerSound'
  BY <1>0, <1>1 DEF DiskMarkerSound, MemoryInv, MarkerSound
<1>7. DiskMarkerComplete'
  BY <1>0, <1>1, <1>2 DEF DiskMarkerComplete, MemoryInv, MarkerComplete
<1>8. DiskReports'
  BY <1>2 DEF DiskReports, MemoryInv, LiveReports, IsDurable
<1>9. SavedIsDurable'
  BY <1>2 DEF SavedIsDurable
<1>10. DiskIsCurrent'
  BY <1>0 DEF DiskIsCurrent
<1> QED
  BY <1>3, <1>4, <1>5, <1>6, <1>7, <1>8, <1>9, <1>10 DEF DiskInv

\* A step that leaves the file alone leaves its promises alone.
LEMMA NotWritten ==
  ASSUME IInv, disk' = disk, concluded' = concluded, accepted' = accepted,
         issued \subseteq issued', ModesKept
  PROVE  DiskInv' /\ SavedIsDurable'
<1>1. DiskInv'
  <2> USE DEF IInv, DiskInv, Saved
  <2>1. DiskDurable' /\ DiskNames' /\ DiskIssued'
    BY DEF DiskDurable, DiskNames, DiskIssued
  <2>2. DiskMarkerSound' /\ DiskMarkerComplete'
    BY DEF DiskMarkerSound, DiskMarkerComplete
  <2>3. DiskReports'
    BY DEF DiskReports
  <2> QED
    BY <2>1, <2>2, <2>3
<1>2. SavedIsDurable'
  BY DEF SavedIsDurable, ModesKept, IInv, DiskInv, DiskIssued, Saved, IsDurable, Live
<1> QED
  BY <1>1, <1>2

\* Whether persist() succeeds or fails, a step that keeps memory's promises
\* keeps the whole invariant.
LEMMA PersistInv ==
  ASSUME IInv, TypeOK', MemoryInv', NEW ok \in BOOLEAN, persist(ok),
         up, up' = up, settled \subseteq settled', issued \subseteq issued',
         ok \/ (accepted' = accepted /\ ModesKept)
  PROVE  IInv'
<1>1. DownIsEmpty'
  BY DEF DownIsEmpty
<1>2. CASE ok
  BY <1>1, <1>2, Written DEF IInv, persist
<1>3. CASE ~ok
  <2>1. DiskIsCurrent'
    BY <1>3 DEF persist, DiskIsCurrent
  <2>2. disk' = disk /\ concluded' = concluded
    BY <1>3 DEF persist
  <2> QED
    BY <1>1, <1>3, <2>1, <2>2, NotWritten DEF IInv
<1> QED
  BY <1>2, <1>3

\* The invariant speaks of the registry's variables other than directories.
LEMMA SameInv ==
  ASSUME IInv, UNCHANGED <<up, sessions, in_flight, disk, ghosts>>,
         directories' \subseteq Directory
  PROVE  IInv'
BY DEF IInv, MemoryInv, DiskInv, ghosts, TypeOK, SingleController,
   LiveNames, EphemeralIsControlled, LiveIssued, AcceptedIssued, MarkerSound,
   MarkerComplete, LiveReports, SettledAccepted, DiskDurable, DiskNames, DiskIssued, DiskMarkerSound,
   DiskMarkerComplete, DiskReports, SavedIsDurable, DownIsEmpty, DiskIsCurrent,
   Live, IsDurable, Saved

\* Every outcome of persist() is a truth value.
LEMMA OutcomeType == PersistOutcome \subseteq BOOLEAN
BY DEF PersistOutcome

\* The markers' promises survive a step that touches neither markers nor
\* operations, because no session becomes durable.
LEMMA MarkersKept ==
  ASSUME IInv, TypeOK', in_flight' = in_flight, accepted' = accepted, settled' = settled,
         ModesKept
  PROVE  MarkerSound' /\ MarkerComplete'
<1>1. MarkerSound'
  BY DEF MarkerSound, IInv, MemoryInv
<1>2. ASSUME NEW s \in SessionId, NEW o \in Operation,
             IsDurable(s)', accepted'[o] = s, o \notin settled'
      PROVE  in_flight'[s] = o
  <2>1. s \in issued
    BY <1>2, NoneAssumption DEF IInv, MemoryInv, AcceptedIssued
  <2>2. IsDurable(s)
    BY <1>2, <2>1 DEF ModesKept, IsDurable, Live
  <2> QED
    BY <1>2, <2>2 DEF IInv, MemoryInv, MarkerComplete
<1> QED
  BY <1>1, <1>2 DEF MarkerComplete

\* An operation that replaces or removes one record and then persists keeps
\* the invariant: create, detach, update and close are of this kind.
LEMMA RecordPersistInv ==
  ASSUME IInv, TypeOK', NEW s \in SessionId, NEW r \in SessionRecord \cup {None},
         NEW ok \in BOOLEAN, persist(ok), up, up' = up,
         sessions' = [sessions EXCEPT ![s] = r],
         in_flight' = in_flight, accepted' = accepted, settled' = settled,
         issued \subseteq issued',
         r # None => s \in issued' /\ GoodRecord(s, r)
  PROVE  IInv'
<1>1. concluded \subseteq concluded' /\ concluded' \subseteq settled'
  BY DEF persist, IInv, MemoryInv
<1>2. /\ SingleController' /\ LiveNames' /\ EphemeralIsControlled'
      /\ LiveIssued' /\ AcceptedIssued' /\ LiveReports' /\ ModesKept
  BY <1>1, RecordStep DEF ModesKept
<1>3. MarkerSound' /\ MarkerComplete'
  BY <1>2, MarkersKept
<1>4. MemoryInv'
  BY <1>1, <1>2, <1>3 DEF MemoryInv, IInv, SettledAccepted
<1> QED
  BY <1>2, <1>4, PersistInv

\* create() keeps the invariant.
LEMMA CreateInv ==
  ASSUME IInv, NEW c \in Client, NEW id \in SessionId, NEW n \in Name,
         NEW p \in PersistenceMode, NEW d \in Directory, NEW h \in ClientHistories,
         NEW ok \in BOOLEAN, create(c, id, n, p, d, h, ok)
  PROVE  IInv'
<1> DEFINE r == NewRecord(c, n, p, d, h)
<1>1. TypeOK /\ h \in Seq(Message) /\ Reports(h, concluded)
  BY ClientHistoriesType, ClientReports DEF IInv
<1>2. TypeOK'
  BY <1>1, CreateType
<1>3. r \in SessionRecord
  BY <1>1 DEF NewRecord, SessionRecord, Snapshot
<1>4. GoodRecord(id, r)
  BY <1>1 DEF GoodRecord, NewRecord, create, NameTaken
<1>5. /\ sessions' = [sessions EXCEPT ![id] = r] /\ id \in issued' /\ issued \subseteq issued'
      /\ in_flight' = in_flight /\ accepted' = accepted /\ settled' = settled
      /\ up /\ up' = up /\ persist(ok)
  BY DEF create
<1> HIDE DEF r
<1> QED
  BY <1>2, <1>3, <1>4, <1>5, RecordPersistInv

\* detach() keeps the invariant.
LEMMA DetachInv ==
  ASSUME IInv, NEW c \in Client, NEW s \in SessionId, NEW ok \in BOOLEAN, detach(c, s, ok)
  PROVE  IInv'
<1>1. CASE ~Live(s)
  BY <1>1, SameInv DEF detach, regvars, IInv, TypeOK
<1>2. CASE Live(s)
  <2> DEFINE r == IF /\ Detached(c, s).attachments = {}
                     /\ sessions[s].snapshot.persistence = "Ephemeral"
                    THEN None ELSE Detached(c, s)
  <2>1. TypeOK /\ TypeOK'
    BY DetachType DEF IInv
  <2>2. Detached(c, s) \in SessionRecord
    BY <1>2, <2>1, LiveType DEF Detached, SessionRecord
  <2>3. ASSUME r # None PROVE GoodRecord(s, r)
    <3>1. r = Detached(c, s)
      BY <2>3
    <3>2. \A c1, c2 \in r.attachments : c1 = c2
      BY <1>2, <3>1 DEF Detached, IInv, MemoryInv, SingleController
    <3>3. \A t \in SessionId : t # s /\ Live(t) => sessions[t].snapshot.name # r.snapshot.name
      BY <1>2, <3>1 DEF Detached, IInv, MemoryInv, LiveNames
    <3>4. r.snapshot.persistence = "Ephemeral" => r.attachments # {}
      BY <2>3, <3>1 DEF Detached
    <3>5. Reports(r.snapshot.history, concluded)
      BY <1>2, <3>1 DEF Detached, IInv, MemoryInv, LiveReports
    <3> QED
      BY <1>2, <3>1, <3>2, <3>3, <3>4, <3>5 DEF GoodRecord, Detached
  <2>4. /\ sessions' = [sessions EXCEPT ![s] = r]
        /\ issued' = issued /\ s \in issued
        /\ in_flight' = in_flight /\ accepted' = accepted /\ settled' = settled
        /\ up /\ up' = up /\ persist(ok)
    BY <1>2 DEF detach, IInv, MemoryInv, LiveIssued
  <2>5. r \in SessionRecord \cup {None}
    BY <2>2
  <2> HIDE DEF r
  <2> QED
    BY <2>1, <2>3, <2>4, <2>5, RecordPersistInv
<1> QED
  BY <1>1, <1>2

\* A record whose cwd and history are replaced is a good one.
LEMMA WithStateGood ==
  ASSUME IInv, NEW s \in SessionId, Live(s), NEW d, NEW h, Reports(h, concluded)
  PROVE  GoodRecord(s, WithState(sessions[s], d, h))
BY DEF GoodRecord, WithState, IInv, MemoryInv, SingleController, LiveNames,
   EphemeralIsControlled

\* update() keeps the invariant.
LEMMA UpdateInv ==
  ASSUME IInv, NEW c \in Client, NEW s \in SessionId, NEW d \in Directory,
         NEW h \in ClientHistories, NEW ok \in BOOLEAN, update(c, s, d, h, ok)
  PROVE  IInv'
<1> DEFINE r == WithState(sessions[s], d, h)
<1>1. TypeOK /\ Live(s) /\ h \in Seq(Message) /\ Reports(h, concluded)
  BY ClientHistoriesType, ClientReports DEF IInv, update
<1>2. TypeOK'
  BY <1>1, UpdateType
<1>3. r \in SessionRecord /\ GoodRecord(s, r)
  BY <1>1, WithStateType, WithStateGood
<1>4. /\ sessions' = [sessions EXCEPT ![s] = r] /\ issued' = issued /\ s \in issued
      /\ in_flight' = in_flight /\ accepted' = accepted /\ settled' = settled
      /\ up /\ up' = up /\ persist(ok)
  BY <1>1 DEF update, IInv, MemoryInv, LiveIssued
<1> HIDE DEF r
<1> QED
  BY <1>2, <1>3, <1>4, RecordPersistInv

\* close() keeps the invariant: the marker that it leaves behind is still the
\* marker of an operation that was accepted and has not ended.
LEMMA CloseInv ==
  ASSUME IInv, NEW c \in Client, NEW s \in SessionId, NEW ok \in BOOLEAN, close(c, s, ok)
  PROVE  IInv'
<1>1. TypeOK'
  BY CloseType DEF IInv
<1>2. /\ sessions' = [sessions EXCEPT ![s] = None] /\ issued' = issued
      /\ in_flight' = in_flight /\ accepted' = accepted /\ settled' = settled
      /\ up /\ up' = up /\ persist(ok)
  BY DEF close
<1> QED
  BY <1>1, <1>2, RecordPersistInv

\* attach() keeps the invariant; it does not persist, and the file stays current
\* because attachments are not saved.
LEMMA AttachInv ==
  ASSUME IInv, NEW c \in Client, NEW s \in SessionId, attach(c, s)
  PROVE  IInv'
<1> DEFINE r == Attached(c, s)
<1>1. TypeOK /\ TypeOK' /\ Live(s) /\ s \in issued
  BY AttachType DEF IInv, MemoryInv, LiveIssued, attach
<1>2. r \in SessionRecord
  BY <1>1, LiveType DEF Attached, SessionRecord
<1>3. GoodRecord(s, r)
  <2>1. \A c1, c2 \in r.attachments : c1 = c2
    BY DEF Attached, attach, OnlyControlledBy
  <2>2. \A t \in SessionId : t # s /\ Live(t) => sessions[t].snapshot.name # r.snapshot.name
    BY <1>1 DEF Attached, IInv, MemoryInv, LiveNames
  <2>3. Reports(r.snapshot.history, concluded)
    BY <1>1 DEF Attached, IInv, MemoryInv, LiveReports
  <2> QED
    BY <1>1, <2>1, <2>2, <2>3 DEF GoodRecord, Attached
<1>4. /\ sessions' = [sessions EXCEPT ![s] = r]
      /\ UNCHANGED <<up, in_flight, disk, issued, accepted, settled, concluded, dirty>>
      /\ up
  BY DEF attach, ghosts
<1>5. r.snapshot = sessions[s].snapshot
  BY DEF Attached
<1>6. DurableImage(sessions', in_flight') = DurableImage(sessions, in_flight)
  <2>1. \A t \in SessionId :
          /\ (sessions'[t] # None) <=> (sessions[t] # None)
          /\ sessions'[t] # None => sessions'[t].snapshot = sessions[t].snapshot
    BY <1>1, <1>2, <1>4, <1>5, NoneAssumption DEF TypeOK, Live
  <2> QED
    BY <1>4, <2>1 DEF DurableImage
<1> HIDE DEF r
<1>7. /\ SingleController' /\ LiveNames' /\ EphemeralIsControlled'
      /\ LiveIssued' /\ AcceptedIssued' /\ LiveReports' /\ ModesKept
  BY <1>1, <1>2, <1>3, <1>4, RecordStep DEF ModesKept
<1>8. MarkerSound' /\ MarkerComplete'
  BY <1>1, <1>4, <1>7, MarkersKept
<1>9. MemoryInv'
  BY <1>4, <1>7, <1>8 DEF MemoryInv, IInv, SettledAccepted
<1>10. DiskInv' /\ SavedIsDurable'
  BY <1>4, <1>7, NotWritten
<1>11. DownIsEmpty' /\ DiskIsCurrent'
  BY <1>4, <1>6 DEF DownIsEmpty, DiskIsCurrent, IInv
<1> QED
  BY <1>1, <1>9, <1>10, <1>11 DEF IInv

\* The parts of memory's promises that do not speak of operations survive a
\* step that leaves the sessions alone.
LEMMA SessionsKept ==
  ASSUME IInv, UNCHANGED <<sessions, issued>>, concluded \subseteq concluded'
  PROVE  /\ SingleController' /\ LiveNames' /\ EphemeralIsControlled'
         /\ LiveIssued' /\ LiveReports' /\ ModesKept
<1>1. SingleController' /\ LiveNames' /\ EphemeralIsControlled' /\ LiveIssued'
  BY DEF IInv, MemoryInv, SingleController, LiveNames, EphemeralIsControlled,
         LiveIssued, Live
<1>2. LiveReports'
  BY ReportsGrow DEF IInv, MemoryInv, LiveReports, Live
<1>3. ModesKept
  BY DEF ModesKept, Live
<1> QED
  BY <1>1, <1>2, <1>3

\* begin_execution() of a fresh operation keeps the invariant.  On a durable
\* session the marker must not be there yet, or an operation would be lost; on
\* another session nothing may be in the file.
LEMMA BeginInv ==
  ASSUME IInv, NEW s \in SessionId, NEW o \in Operation, NEW ok \in BOOLEAN,
         accepted[o] = None, begin_execution(s, o, ok)
  PROVE  IInv'
<1>0. TypeOK /\ TypeOK' /\ up /\ Live(s) /\ s \in issued
  BY BeginType DEF IInv, MemoryInv, LiveIssued, begin_execution
<1>1. CASE IsDurable(s) /\ ok
  <2>0. o \notin settled
    BY DEF IInv, MemoryInv, SettledAccepted
  <2>1. /\ in_flight[s] = None
        /\ in_flight' = [in_flight EXCEPT ![s] = o]
        /\ accepted' = [accepted EXCEPT ![o] = s]
        /\ UNCHANGED <<up, sessions, issued, settled>> /\ persist(ok)
    BY <1>1 DEF begin_execution
  <2>2. concluded \subseteq concluded' /\ concluded' \subseteq settled'
    BY <2>1 DEF persist, IInv, MemoryInv
  <2>3. /\ SingleController' /\ LiveNames' /\ EphemeralIsControlled'
        /\ LiveIssued' /\ LiveReports'
    BY <2>1, <2>2, SessionsKept
  <2>4. AcceptedIssued'
    BY <1>0, <2>1 DEF IInv, MemoryInv, AcceptedIssued, TypeOK
  <2>5. MarkerSound'
    <3> SUFFICES ASSUME NEW t \in SessionId, in_flight'[t] # None
                 PROVE  accepted'[in_flight'[t]] = t /\ in_flight'[t] \notin settled'
      BY DEF MarkerSound
    <3>1. CASE t = s
      BY <1>0, <2>1, <3>1, <2>0 DEF TypeOK
    <3>2. CASE t # s
      <4>1. in_flight'[t] = in_flight[t] /\ in_flight[t] \in Operation
        BY <1>0, <2>1, <3>2 DEF TypeOK
      <4>2. accepted[in_flight[t]] = t /\ in_flight[t] \notin settled
        BY <4>1, NoneAssumption DEF IInv, MemoryInv, MarkerSound
      <4>3. in_flight[t] # o
        BY <4>2, NoneAssumption
      <4> QED
        BY <1>0, <2>1, <4>1, <4>2, <4>3 DEF TypeOK
    <3> QED
      BY <3>1, <3>2
  <2>6. MarkerComplete'
    <3> SUFFICES ASSUME NEW t \in SessionId, NEW q \in Operation, IsDurable(t)',
                        accepted'[q] = t, q \notin settled'
                 PROVE  in_flight'[t] = q
      BY DEF MarkerComplete
    <3>1. IsDurable(t)
      BY <2>1 DEF IsDurable, Live
    <3>2. CASE q = o
      BY <1>0, <2>1, <3>2 DEF TypeOK
    <3>3. CASE q # o
      <4>1. accepted[q] = t /\ q \notin settled
        BY <1>0, <2>1, <3>3 DEF TypeOK
      <4>2. in_flight[t] = q
        BY <3>1, <4>1 DEF IInv, MemoryInv, MarkerComplete
      <4>3. t # s
        BY <2>1, <4>2, NoneAssumption
      <4> QED
        BY <1>0, <2>1, <4>2, <4>3 DEF TypeOK
    <3> QED
      BY <3>2, <3>3
  <2>7. SettledAccepted'
    BY <1>0, <2>1, NoneAssumption DEF IInv, MemoryInv, SettledAccepted, TypeOK
  <2>8. MemoryInv'
    BY <2>2, <2>3, <2>4, <2>5, <2>6, <2>7 DEF MemoryInv
  <2> QED
    BY <1>0, <1>1, <2>1, <2>8, PersistInv
<1>2. CASE IsDurable(s) /\ ~ok
  BY <1>0, <1>2, SameInv DEF begin_execution, regvars, TypeOK
<1>3. CASE ~IsDurable(s)
  <2>1. /\ accepted' = [accepted EXCEPT ![o] = s]
        /\ UNCHANGED <<up, sessions, in_flight, disk, issued, settled, concluded, dirty>>
    BY <1>3 DEF begin_execution
  <2>2. /\ SingleController' /\ LiveNames' /\ EphemeralIsControlled'
        /\ LiveIssued' /\ LiveReports'
    BY <2>1, SessionsKept
  <2>3. AcceptedIssued'
    BY <1>0, <2>1 DEF IInv, MemoryInv, AcceptedIssued, TypeOK
  <2>4. MarkerSound' /\ DiskMarkerSound'
    BY <1>0, <2>1, NoneAssumption DEF IInv, MemoryInv, MarkerSound, DiskInv,
       DiskMarkerSound, TypeOK, DurableState
  <2>5. MarkerComplete'
    BY <1>0, <1>3, <2>1 DEF IInv, MemoryInv, MarkerComplete, TypeOK, IsDurable, Live
  <2>6. disk.sessions[s] = None
    BY <1>0, <1>3 DEF IInv, SavedIsDurable, Saved
  <2>7. DiskMarkerComplete'
    BY <1>0, <2>1, <2>6 DEF IInv, DiskInv, DiskMarkerComplete, TypeOK, Saved
  <2>8. DiskDurable' /\ DiskNames' /\ DiskIssued' /\ DiskReports' /\ SavedIsDurable'
    BY <2>1 DEF IInv, DiskInv, DiskDurable, DiskNames, DiskIssued, DiskReports,
       SavedIsDurable, Saved, IsDurable, Live
  <2>9. DownIsEmpty' /\ DiskIsCurrent' /\ concluded' \subseteq settled'
    BY <1>0, <2>1 DEF IInv, MemoryInv, DownIsEmpty, DiskIsCurrent
  <2>10. SettledAccepted'
    BY <1>0, <2>1, NoneAssumption DEF IInv, MemoryInv, SettledAccepted, TypeOK
  <2> QED
    BY <1>0, <2>2, <2>3, <2>4, <2>5, <2>7, <2>8, <2>9, <2>10 DEF IInv, MemoryInv, DiskInv
<1> QED
  BY <1>1, <1>2, <1>3

\* finish_execution() keeps the invariant: it clears a marker only if it is the
\* operation's own.
LEMMA FinishInv ==
  ASSUME IInv, NEW s \in SessionId, NEW o \in Operation, NEW ok \in BOOLEAN,
         finish_execution(s, o, ok)
  PROVE  IInv'
<1>0. TypeOK /\ TypeOK' /\ up
  BY FinishType DEF IInv, finish_execution
<1>1. CASE in_flight[s] = o
  <2>1. /\ in_flight' = [in_flight EXCEPT ![s] = None]
        /\ settled' = settled \cup {o}
        /\ UNCHANGED <<up, sessions, issued, accepted>> /\ persist(ok)
    BY <1>1 DEF finish_execution
  <2>2. concluded \subseteq concluded' /\ concluded' \subseteq settled'
    BY <2>1 DEF persist, IInv, MemoryInv
  <2>3. /\ SingleController' /\ LiveNames' /\ EphemeralIsControlled'
        /\ LiveIssued' /\ LiveReports' /\ ModesKept
    BY <2>1, <2>2, SessionsKept
  <2>4. AcceptedIssued'
    BY <2>1 DEF IInv, MemoryInv, AcceptedIssued
  <2>5. accepted[o] = s
    BY <1>1, NoneAssumption DEF IInv, MemoryInv, MarkerSound
  <2>6. MarkerSound'
    <3> SUFFICES ASSUME NEW t \in SessionId, in_flight'[t] # None
                 PROVE  accepted'[in_flight'[t]] = t /\ in_flight'[t] \notin settled'
      BY DEF MarkerSound
    <3>1. t # s /\ in_flight'[t] = in_flight[t]
      BY <1>0, <2>1 DEF TypeOK
    <3>2. accepted[in_flight[t]] = t /\ in_flight[t] \notin settled
      BY <3>1 DEF IInv, MemoryInv, MarkerSound
    <3> QED
      BY <2>1, <2>5, <3>1, <3>2
  <2>7. MarkerComplete'
    <3> SUFFICES ASSUME NEW t \in SessionId, NEW q \in Operation, IsDurable(t)',
                        accepted'[q] = t, q \notin settled'
                 PROVE  in_flight'[t] = q
      BY DEF MarkerComplete
    <3>1. IsDurable(t) /\ accepted[q] = t /\ q \notin settled /\ q # o
      BY <2>1 DEF IsDurable, Live
    <3>2. in_flight[t] = q
      BY <3>1 DEF IInv, MemoryInv, MarkerComplete
    <3>3. t # s
      BY <1>1, <3>1, <3>2
    <3> QED
      BY <1>0, <2>1, <3>2, <3>3 DEF TypeOK
  <2>8. SettledAccepted'
    BY <2>1, <2>5, NoneAssumption DEF IInv, MemoryInv, SettledAccepted
  <2>9. MemoryInv'
    BY <2>2, <2>3, <2>4, <2>6, <2>7, <2>8 DEF MemoryInv
  <2> QED
    BY <1>0, <2>1, <2>3, <2>9, PersistInv
<1>2. CASE in_flight[s] # o
  BY <1>0, <1>2, SameInv DEF finish_execution, regvars, TypeOK
<1> QED
  BY <1>1, <1>2

\* update_execution_state() of an operation that was accepted on s keeps the
\* invariant: the marker that it removes without looking is that operation's.
LEMMA ExecutionStateInv ==
  ASSUME IInv, NEW s \in SessionId, NEW o \in Operation, NEW d \in Directory,
         NEW h \in TurnHistories(o), NEW ok \in BOOLEAN,
         accepted[o] = s, update_execution_state(s, o, d, h, ok)
  PROVE  IInv'
<1> DEFINE r == WithState(sessions[s], d, h)
<1>0. TypeOK /\ up /\ Live(s) /\ s \in issued /\ h \in Seq(Message) /\ Reports(h, concluded)
  BY TurnHistoriesType, TurnReports DEF IInv, MemoryInv, LiveIssued, update_execution_state
<1>1. TypeOK'
  BY <1>0, ExecutionStateType
<1>2. r \in SessionRecord /\ GoodRecord(s, r)
  BY <1>0, WithStateType, WithStateGood
<1>3. /\ sessions' = [sessions EXCEPT ![s] = r]
      /\ in_flight' = [in_flight EXCEPT ![s] = None]
      /\ settled' = settled \cup {o} \cup ({in_flight[s]} \ {None})
      /\ UNCHANGED <<up, issued, accepted>> /\ persist(ok)
  BY DEF update_execution_state
<1> HIDE DEF r
<1>4. concluded \subseteq concluded' /\ concluded' \subseteq settled'
  BY <1>3 DEF persist, IInv, MemoryInv
<1>5. /\ SingleController' /\ LiveNames' /\ EphemeralIsControlled'
      /\ LiveIssued' /\ AcceptedIssued' /\ LiveReports' /\ ModesKept
  BY <1>0, <1>1, <1>2, <1>3, <1>4, RecordStep DEF ModesKept
<1>6. MarkerSound'
  <2> SUFFICES ASSUME NEW t \in SessionId, in_flight'[t] # None
               PROVE  accepted'[in_flight'[t]] = t /\ in_flight'[t] \notin settled'
    BY DEF MarkerSound
  <2>1. t # s /\ in_flight'[t] = in_flight[t]
    BY <1>0, <1>3 DEF TypeOK
  <2>2. accepted[in_flight[t]] = t /\ in_flight[t] \notin settled
    BY <2>1 DEF IInv, MemoryInv, MarkerSound
  <2>3. in_flight[s] # None => accepted[in_flight[s]] = s
    BY DEF IInv, MemoryInv, MarkerSound
  <2> QED
    BY <1>3, <2>1, <2>2, <2>3
<1>7. MarkerComplete'
  <2> SUFFICES ASSUME NEW t \in SessionId, NEW q \in Operation, IsDurable(t)',
                      accepted'[q] = t, q \notin settled'
               PROVE  in_flight'[t] = q
    BY DEF MarkerComplete
  <2>1. accepted[q] = t /\ q \notin settled /\ t \in issued
    BY <1>3, NoneAssumption DEF IInv, MemoryInv, AcceptedIssued
  <2>2. IsDurable(t)
    BY <1>5, <2>1 DEF ModesKept, IsDurable, Live
  <2>3. in_flight[t] = q
    BY <2>1, <2>2 DEF IInv, MemoryInv, MarkerComplete
  <2>4. t # s
    BY <1>3, <2>3, NoneAssumption
  <2> QED
    BY <1>0, <1>3, <2>3, <2>4 DEF TypeOK
<1>8. SettledAccepted'
  BY <1>3, NoneAssumption DEF IInv, MemoryInv, SettledAccepted, MarkerSound
<1>9. MemoryInv'
  BY <1>4, <1>5, <1>6, <1>7, <1>8 DEF MemoryInv
<1> QED
  BY <1>0, <1>1, <1>3, <1>5, <1>9, PersistInv

\* A crash keeps the invariant: the file's promises do not depend on memory.
LEMMA CrashInv == ASSUME IInv, Crash PROVE IInv'
<1>0. TypeOK'
  BY CrashType DEF IInv
<1>1. /\ up' = FALSE /\ dirty' = FALSE
      /\ sessions' = NoSessions /\ in_flight' = NoSessions /\ settled' = concluded
      /\ UNCHANGED <<disk, issued, accepted, concluded>>
  BY DEF Crash
<1>2. \A s \in SessionId : sessions'[s] = None /\ in_flight'[s] = None
  BY <1>1 DEF NoSessions
<1>3. MemoryInv'
  BY <1>1, <1>2 DEF MemoryInv, IInv, SingleController, LiveNames, EphemeralIsControlled,
     LiveIssued, AcceptedIssued, SettledAccepted, MarkerSound, MarkerComplete,
     LiveReports, IsDurable, Live
<1>4. DiskInv' /\ SavedIsDurable'
  BY <1>1, <1>2, NotWritten DEF ModesKept
<1>5. DownIsEmpty' /\ DiskIsCurrent'
  BY <1>1 DEF DownIsEmpty, DiskIsCurrent
<1> QED
  BY <1>0, <1>3, <1>4, <1>5 DEF IInv

\* What load() puts in memory for a saved session: its snapshot, and after its
\* history the report of its marker, if it has one.  The test that the report
\* is not there already never finds it, because the file's histories report
\* concluded operations and a marker is of one that is not.
LEMMA RestoredIs ==
  ASSUME IInv, NEW s \in SessionId, Saved(s)
  PROVE  /\ Restored(s) \in SessionRecord
         /\ Restored(s).attachments = {}
         /\ Restored(s).snapshot.name = disk.sessions[s].name
         /\ Restored(s).snapshot.persistence = "Durable"
         /\ Restored(s).snapshot.cwd = disk.sessions[s].cwd
         /\ disk.in_flight[s] = None => Restored(s).snapshot = disk.sessions[s]
         /\ disk.in_flight[s] # None =>
              Restored(s).snapshot.history =
                Append(disk.sessions[s].history, OutcomeUnknown(disk.in_flight[s]))
<1> DEFINE saved == disk.sessions[s]
           o == disk.in_flight[s]
<1>1. saved \in Snapshot /\ saved # None /\ saved.persistence = "Durable"
  BY DEF IInv, TypeOK, DurableState, Saved, DiskInv, DiskDurable
<1>2. saved.history \in Seq(Message)
  BY <1>1 DEF Snapshot
<1>3. ASSUME o # None
      PROVE  ~(/\ saved.history # <<>>
               /\ saved.history[Len(saved.history)] = OutcomeUnknown(o))
  <2> SUFFICES ASSUME saved.history # <<>>,
                      saved.history[Len(saved.history)] = OutcomeUnknown(o)
               PROVE  FALSE
    OBVIOUS
  <2>1. Len(saved.history) \in 1..Len(saved.history)
    BY <1>2
  <2>2. Reports(saved.history, concluded)
    BY DEF IInv, DiskInv, DiskReports
  <2>3. o \in concluded
    BY <2>1, <2>2 DEF Reports, OutcomeUnknown
  <2> QED
    BY <1>3, <2>3 DEF IInv, DiskInv, DiskMarkerSound
<1>4. CASE o = None
  <2>1. Restored(s) = [snapshot |-> saved, attachments |-> {}]
    BY <1>1, <1>4 DEF Restored
  <2> QED
    BY <1>1, <1>4, <2>1 DEF SessionRecord
<1>5. CASE o # None
  <2>1. Restored(s) =
          [snapshot |-> [saved EXCEPT !.history = Append(@, OutcomeUnknown(o))],
           attachments |-> {}]
    BY <1>1, <1>3, <1>5 DEF Restored
  <2>2. o \in Operation
    BY <1>5 DEF IInv, TypeOK, DurableState
  <2>3. Append(saved.history, OutcomeUnknown(o)) \in Seq(Message)
    BY <1>2, <2>2 DEF OutcomeUnknown, Message
  <2> DEFINE snap == [saved EXCEPT !.history = Append(@, OutcomeUnknown(o))]
  <2>4. /\ snap \in Snapshot
        /\ snap.name = saved.name /\ snap.persistence = saved.persistence
        /\ snap.cwd = saved.cwd
        /\ snap.history = Append(saved.history, OutcomeUnknown(o))
    BY <1>1, <2>3 DEF Snapshot
  <2>5. Restored(s) = [snapshot |-> snap, attachments |-> {}]
    BY <2>1
  <2> HIDE DEF snap
  <2> QED
    BY <1>1, <1>5, <2>4, <2>5 DEF SessionRecord
<1> QED
  BY <1>4, <1>5

\* A session that is not in the file is not restored.
LEMMA RestoredNothing ==
  ASSUME NEW s \in SessionId, ~Saved(s)
  PROVE  Restored(s) = None
BY DEF Restored, Saved

\* The report that load() appends is of a marker, which load() concludes.
LEMMA ReportsAppend ==
  ASSUME NEW h \in Seq(Message), NEW o \in Operation, NEW C, Reports(h, C)
  PROVE  Reports(Append(h, OutcomeUnknown(o)), C \cup {o})
<1> DEFINE g == Append(h, OutcomeUnknown(o))
<1>0. OutcomeUnknown(o) \in Message
  BY DEF OutcomeUnknown, Message
<1>1. Len(g) = Len(h) + 1 /\ Len(h) \in Nat
  BY <1>0
<1> SUFFICES ASSUME NEW i \in 1..Len(g), g[i].outcome = "outcome_unknown"
             PROVE  g[i].operation \in C \cup {o}
  BY DEF Reports
<1>2. CASE i = Len(h) + 1
  <2>1. g[i] = OutcomeUnknown(o)
    BY <1>0, <1>2
  <2> QED
    BY <2>1 DEF OutcomeUnknown
<1>3. CASE i # Len(h) + 1
  <2>1. i \in 1..Len(h) /\ g[i] = h[i]
    BY <1>0, <1>1, <1>3
  <2> QED
    BY <2>1 DEF Reports
<1> QED
  BY <1>2, <1>3

\* load() keeps the invariant.
LEMMA LoadInv == ASSUME IInv, load PROVE IInv'
<1> USE DEF Live
<1>0. TypeOK /\ TypeOK' /\ up' = TRUE
  BY LoadType DEF IInv, load
<1>1. /\ \A s \in SessionId : sessions'[s] = Restored(s) /\ in_flight'[s] = None
      /\ settled' = settled \cup Markers
      /\ UNCHANGED <<issued, accepted>>
      /\ settled = concluded /\ ~dirty
  BY DEF load, NoSessions, IInv, DownIsEmpty
<1>2. \A s \in SessionId : sessions'[s] # None => Saved(s)
  BY <1>1, RestoredNothing
<1>3. /\ Markers \subseteq Operation
      /\ \A s \in SessionId : disk.in_flight[s] # None => disk.in_flight[s] \in Markers
      /\ \A o \in Markers : accepted[o] # None
  BY NoneAssumption DEF Markers, IInv, TypeOK, DurableState, DiskInv, DiskMarkerSound
<1>4. concluded' = settled'
  BY <1>1 DEF load, persist
<1>5. SingleController'
  BY <1>1, <1>2, RestoredIs DEF SingleController
<1>6. LiveNames'
  BY <1>1, <1>2, RestoredIs DEF LiveNames, IInv, DiskInv, DiskNames
<1>7. EphemeralIsControlled'
  BY <1>1, <1>2, RestoredIs DEF EphemeralIsControlled
<1>8. LiveIssued' /\ AcceptedIssued' /\ SettledAccepted'
  BY <1>1, <1>2, <1>3 DEF LiveIssued, AcceptedIssued, SettledAccepted, IInv, MemoryInv,
     DiskInv, DiskIssued
<1>9. MarkerSound'
  BY <1>1 DEF MarkerSound
<1>10. MarkerComplete'
  <2> SUFFICES ASSUME NEW s \in SessionId, NEW o \in Operation, IsDurable(s)',
                      accepted'[o] = s, o \notin settled'
               PROVE  FALSE
    BY DEF MarkerComplete
  <2>1. Saved(s)
    BY <1>2 DEF IsDurable
  <2>2. disk.in_flight[s] = o
    BY <1>1, <2>1 DEF IInv, DiskInv, DiskMarkerComplete
  <2> QED
    BY <1>1, <1>3, <2>2, NoneAssumption
<1>11. LiveReports'
  <2> SUFFICES ASSUME NEW s \in SessionId, sessions'[s] # None
               PROVE  Reports(sessions'[s].snapshot.history, concluded')
    BY DEF LiveReports
  <2>1. Saved(s) /\ Reports(disk.sessions[s].history, concluded)
    BY <1>2 DEF IInv, DiskInv, DiskReports
  <2>2. disk.sessions[s].history \in Seq(Message)
    BY <1>0, <2>1 DEF TypeOK, DurableState, Saved, Snapshot
  <2>3. CASE disk.in_flight[s] = None
    <3>1. sessions'[s].snapshot.history = disk.sessions[s].history
      BY <1>1, <2>1, <2>3, RestoredIs
    <3> QED
      BY <1>1, <1>4, <2>1, <3>1, ReportsGrow
  <2>4. CASE disk.in_flight[s] # None
    <3> DEFINE o == disk.in_flight[s]
    <3>1. o \in Operation /\ o \in Markers
      BY <1>3, <2>4
    <3>2. sessions'[s].snapshot.history = Append(disk.sessions[s].history, OutcomeUnknown(o))
      BY <1>1, <2>1, <2>4, RestoredIs
    <3>3. Reports(sessions'[s].snapshot.history, concluded \cup {o})
      BY <2>1, <2>2, <3>1, <3>2, ReportsAppend
    <3>4. concluded \cup {o} \subseteq concluded'
      BY <1>1, <1>4, <3>1
    <3> QED
      BY <3>3, <3>4, ReportsGrow
  <2> QED
    BY <2>3, <2>4
<1>12. MemoryInv'
  BY <1>4, <1>5, <1>6, <1>7, <1>8, <1>9, <1>10, <1>11 DEF MemoryInv
<1>13. DownIsEmpty'
  BY <1>0 DEF DownIsEmpty
<1>14. CASE Markers # {}
  <2>1. persist(TRUE)
    BY <1>14 DEF load
  <2> QED
    BY <1>0, <1>1, <1>12, <1>13, <2>1, Written DEF IInv
<1>15. CASE Markers = {}
  <2>1. UNCHANGED <<disk, concluded, dirty>>
    BY <1>15 DEF load
  <2>2. \A s \in SessionId : disk.in_flight[s] = None
    BY <1>3, <1>15
  <2>3. DiskInv'
    BY <1>1, <2>1 DEF IInv, DiskInv, DiskDurable, DiskNames, DiskIssued, DiskMarkerSound,
       DiskMarkerComplete, DiskReports, Saved
  <2>4. SavedIsDurable'
    BY <1>1, <1>2, RestoredIs DEF SavedIsDurable, IsDurable
  <2>5. disk.in_flight = in_flight'
    BY <1>0, <1>1, <2>2 DEF TypeOK, DurableState
  <2>6. disk.sessions =
          [s \in SessionId |->
             IF sessions'[s] # None /\ sessions'[s].snapshot.persistence = "Durable"
               THEN sessions'[s].snapshot ELSE None]
    <3>1. ASSUME NEW s \in SessionId
          PROVE  disk.sessions[s] =
                   IF sessions'[s] # None /\ sessions'[s].snapshot.persistence = "Durable"
                     THEN sessions'[s].snapshot ELSE None
      <4>1. CASE Saved(s)
        <5>1. sessions'[s] # None
          BY <1>1, <4>1, RestoredIs, NoneAssumption
        <5> QED
          BY <1>1, <2>2, <4>1, <5>1, RestoredIs
      <4>2. CASE ~Saved(s)
        BY <1>1, <4>2, RestoredNothing DEF Saved
      <4> QED
        BY <4>1, <4>2
    <3>2. disk.sessions \in [SessionId -> Snapshot \cup {None}]
      BY <1>0 DEF TypeOK, DurableState
    <3> QED
      BY <3>1, <3>2
  <2>7. disk = [sessions |-> disk.sessions, in_flight |-> disk.in_flight]
    BY <1>0 DEF TypeOK, DurableState
  <2>8. disk = DurableImage(sessions', in_flight')
    BY <2>5, <2>6, <2>7 DEF DurableImage
  <2>9. DiskIsCurrent'
    BY <2>1, <2>8 DEF DiskIsCurrent
  <2> QED
    BY <1>0, <1>12, <1>13, <2>3, <2>4, <2>9 DEF IInv
<1> QED
  BY <1>14, <1>15

-----------------------------------------------------------------------------
(* The theorems.                                                           *)

\* The empty registry satisfies the invariant.
LEMMA InvInit == Init => IInv
<1> SUFFICES ASSUME Init PROVE IInv
  OBVIOUS
<1>1. \A s \in SessionId : /\ sessions[s] = None /\ in_flight[s] = None
                           /\ disk.sessions[s] = None /\ disk.in_flight[s] = None
  BY DEF Init, NoSessions
<1>2. MemoryInv
  BY <1>1 DEF Init, MemoryInv, SingleController, LiveNames, EphemeralIsControlled,
     LiveIssued, AcceptedIssued, SettledAccepted, MarkerSound, MarkerComplete,
     LiveReports, IsDurable, Live
<1>3. DiskInv /\ SavedIsDurable
  BY <1>1 DEF DiskInv, DiskDurable, DiskNames, DiskIssued, DiskMarkerSound,
     DiskMarkerComplete, DiskReports, SavedIsDurable, Saved
<1>4. DiskIsCurrent
  BY <1>1 DEF Init, DiskIsCurrent, DurableImage, NoSessions
<1> QED
  BY <1>2, <1>3, <1>4, TypeInit DEF IInv, DownIsEmpty, Init

\* Every step of the registry keeps the invariant.
LEMMA InvNext == IInv /\ [Next]_regvars => IInv'
<1> SUFFICES ASSUME IInv, [Next]_regvars PROVE IInv'
  OBVIOUS
<1> USE OutcomeType
<1>1. ASSUME NEW c \in Client, NEW ok \in PersistOutcome, ClientStep(c, ok)
      PROVE  IInv'
  BY <1>1, CreateInv, AttachInv, CloseInv, DetachInv, UpdateInv DEF ClientStep
<1>2. ASSUME NEW s \in SessionId, NEW o \in Operation, NEW ok \in PersistOutcome,
             OperationStep(s, o, ok)
      PROVE  IInv'
  BY <1>2, BeginInv, FinishInv, ExecutionStateInv DEF OperationStep
<1>3. CASE \E d \in Directory : RemoveDirectory(d) \/ MakeDirectory(d)
  BY <1>3, SameInv DEF RemoveDirectory, MakeDirectory, IInv, TypeOK
<1>4. CASE UNCHANGED regvars
  BY <1>4, SameInv DEF regvars, IInv, TypeOK
<1> QED
  BY <1>1, <1>2, <1>3, <1>4, CrashInv, LoadInv DEF Next

\* The inductive invariant holds throughout.
THEOREM Invariance == Spec => []IInv
BY InvInit, InvNext, PTL DEF Spec

\* No session ever has two controllers, whatever sequence of attaches,
\* switches, detaches, crashes and reloads led there.
THEOREM OneController == Spec => []SingleController
<1>1. IInv => SingleController
  BY DEF IInv, MemoryInv
<1> QED
  BY <1>1, Invariance, PTL

\* Names stay unique in memory and in the file, failed writes included.
THEOREM NamesAreUnique == Spec => []UniqueNames
<1>1. IInv => UniqueNames
  BY DEF IInv, MemoryInv, LiveNames, DiskInv, DiskNames, Saved, UniqueNames
<1> QED
  BY <1>1, Invariance, PTL

\* No ephemeral session outlives its controller.
THEOREM NoOrphanedEphemeral == Spec => []EphemeralIsControlled
<1>1. IInv => EphemeralIsControlled
  BY DEF IInv, MemoryInv
<1> QED
  BY <1>1, Invariance, PTL

\* Unless the last write failed, the file is exactly the durable part of memory.
THEOREM FileIsCurrent == Spec => []DiskIsCurrent
<1>1. IInv => DiskIsCurrent
  BY DEF IInv
<1> QED
  BY <1>1, Invariance, PTL

\* Only load() brings a registry up.
LEMMA OnlyLoadStarts == ASSUME Next, ~up, up' PROVE load
<1>1. ASSUME NEW c \in Client, NEW ok \in PersistOutcome, ClientStep(c, ok) PROVE up
  BY <1>1 DEF ClientStep, create, attach, detach, update, close
<1>2. ASSUME NEW s \in SessionId, NEW o \in Operation, NEW ok \in PersistOutcome,
             OperationStep(s, o, ok)
      PROVE  up
  BY <1>2 DEF OperationStep, begin_execution, finish_execution, update_execution_state
<1>3. ASSUME NEW d \in Directory, RemoveDirectory(d) \/ MakeDirectory(d) PROVE up' = up
  BY <1>3 DEF RemoveDirectory, MakeDirectory
<1>4. Crash => up
  BY DEF Crash
<1> QED
  BY <1>1, <1>2, <1>3, <1>4 DEF Next

\* What load() does with one saved session is what RecoveryIsExact asks.
LEMMA LoadIsExact ==
  ASSUME IInv, load, NEW s \in SessionId, sessions'[s] # None
  PROVE  LET before == disk.sessions[s].history
             after  == sessions'[s].snapshot.history
         IN  \/ Interrupted(s) = {} /\ after = before
             \/ \E o \in Operation : /\ Interrupted(s) = {o}
                                     /\ after = Append(before, OutcomeUnknown(o))
<1>1. sessions'[s] = Restored(s)
  BY DEF load
<1>2. Saved(s)
  BY <1>1, RestoredNothing
<1>3. CASE disk.in_flight[s] = None
  <2>1. Interrupted(s) = {}
    BY <1>2, <1>3, NoneAssumption DEF Interrupted, IInv, DiskInv, DiskMarkerComplete
  <2> QED
    BY <1>1, <1>2, <1>3, <2>1, RestoredIs
<1>4. CASE disk.in_flight[s] # None
  <2> DEFINE o == disk.in_flight[s]
  <2>1. o \in Operation /\ accepted[o] = s /\ o \notin concluded
    BY <1>4 DEF IInv, TypeOK, DurableState, DiskInv, DiskMarkerSound
  <2>2. Interrupted(s) = {o}
    BY <1>2, <2>1 DEF Interrupted, IInv, DiskInv, DiskMarkerComplete
  <2>3. sessions'[s].snapshot.history = Append(disk.sessions[s].history, OutcomeUnknown(o))
    BY <1>1, <1>2, <1>4, RestoredIs
  <2> QED
    BY <2>1, <2>2, <2>3
<1> QED
  BY <1>3, <1>4

\* A restart reports exactly the operations whose end never reached the disk:
\* none is forgotten, and none that ended is reported.
THEOREM ExactRecovery == Spec => RecoveryIsExact
<1> DEFINE Exact ==
      ~up /\ up' =>
        \A s \in SessionId : sessions'[s] # None =>
          LET before == disk.sessions[s].history
              after  == sessions'[s].snapshot.history
          IN  \/ Interrupted(s) = {} /\ after = before
              \/ \E o \in Operation : /\ Interrupted(s) = {o}
                                      /\ after = Append(before, OutcomeUnknown(o))
<1>1. IInv /\ [Next]_regvars => [Exact]_regvars
  BY OnlyLoadStarts, LoadIsExact
<1>2. Spec => [][Exact]_regvars
  BY <1>1, Invariance, PTL DEF Spec
<1> QED
  BY <1>2 DEF RecoveryIsExact

=============================================================================

--------------------------- MODULE SessionRegistry ---------------------------
(***************************************************************************)
(* The session registry of xshelld (crates/xshell-session/src/registry.rs): *)
(* the map of named sessions, the attachments that say which connection    *)
(* controls each one, the in-flight markers of durable sessions, and the   *)
(* file sessions.json that persist() replaces and load() reads back.       *)
(*                                                                         *)
(* Every operation runs under the registry mutex and is one action.  An    *)
(* operation that the code refuses before it has changed anything is not a *)
(* step.  An operation whose persist() fails IS a step: except for         *)
(* begin_execution the code keeps what it changed in memory.               *)
(*                                                                         *)
(* Abstracted: model binding, visibility, timestamps and host identity of  *)
(* a descriptor (no guard reads them).  A history is the sequence of what  *)
(* operations left in it: the record of a finished turn, or the system     *)
(* message "[xshell recovery] outcome_unknown" that load() pushes.         *)
(***************************************************************************)
EXTENDS Naturals, Sequences, FiniteSets

CONSTANTS
  SessionId,      \* UUIDs that Uuid::new_v4 may return for a session
  Name,           \* display names accepted by validate_name
  Client,         \* connection identities, one per accepted connection
  Operation,      \* identities of turns and terminal jobs
  Directory,      \* working directories
  None,           \* Rust's Option::None
  PersistMayFail  \* whether opening, writing, syncing or renaming may fail

VARIABLES
  up,             \* TRUE while a daemon holds a loaded registry
  sessions,       \* SessionRegistry::sessions
  in_flight,      \* SessionRegistry::in_flight
  disk,           \* the DurableState in sessions.json
  directories,    \* the directories that exist on the host
  (*************************************************************************)
  (* History variables, read by properties and by the freshness of UUIDs.  *)
  (*************************************************************************)
  issued,         \* session ids that have been handed out
  accepted,       \* the session on which begin_execution accepted an operation
  settled,        \* operations whose end has reached the registry's memory
  concluded,      \* operations whose end has reached sessions.json
  dirty           \* the last persist() failed

ghosts  == <<issued, accepted, settled, concluded, dirty>>
regvars == <<up, sessions, in_flight, disk, directories, ghosts>>

PersistenceMode == {"Ephemeral", "Daemon", "Durable"}
PersistOutcome  == IF PersistMayFail THEN BOOLEAN ELSE {TRUE}

Message == [operation: Operation, outcome: {"recorded", "outcome_unknown"}]

Snapshot == [name: Name, persistence: PersistenceMode, cwd: Directory,
             history: Seq(Message)]

SessionRecord == [snapshot: Snapshot, attachments: SUBSET Client]

DurableState == [sessions: [SessionId -> Snapshot \cup {None}],
                 in_flight: [SessionId -> Operation \cup {None}]]

\* None is the absence of a value: it is no identity, record or snapshot.
ASSUME NoneAssumption ==
  /\ None \notin SessionId
  /\ None \notin Operation
  /\ None \notin Client
  /\ None \notin SessionRecord
  /\ None \notin Snapshot

ASSUME PersistMayFailAssumption == PersistMayFail \in BOOLEAN

-----------------------------------------------------------------------------
(* Reading the registry.                                                   *)

Live(s) == sessions[s] # None

IsDurable(s) == Live(s) /\ sessions[s].snapshot.persistence = "Durable"

NameTaken(n) == \E s \in SessionId : Live(s) /\ sessions[s].snapshot.name = n

\* resolve(): a selector is first tried as a session id, then as a name that
\* exactly one session has.
Resolves(selector, s) ==
  /\ Live(s)
  /\ \/ selector = s
     \/ /\ selector \notin {t \in SessionId : Live(t)}
        /\ {t \in SessionId : Live(t) /\ sessions[t].snapshot.name = selector} = {s}

\* No connection other than c is attached: the ownership test of attach and close.
OnlyControlledBy(c, s) == sessions[s].attachments \subseteq {c}

OutcomeUnknown(o) == [operation |-> o, outcome |-> "outcome_unknown"]

-----------------------------------------------------------------------------
(* persist(): the durable sessions and every marker, written to a temporary *)
(* file that is synced and renamed over sessions.json.  A failure anywhere *)
(* leaves the old file.                                                    *)

DurableImage(S, F) ==
  [sessions  |-> [s \in SessionId |->
                    IF S[s] # None /\ S[s].snapshot.persistence = "Durable"
                      THEN S[s].snapshot ELSE None],
   in_flight |-> F]

persist(ok) ==
  /\ ok \in PersistOutcome
  /\ disk' = IF ok THEN DurableImage(sessions', in_flight') ELSE disk
  /\ concluded' = IF ok THEN concluded \cup settled' ELSE concluded
  /\ dirty' = ~ok

-----------------------------------------------------------------------------
(* The operations.  `ok' is the result of the persist() an operation ends  *)
(* with; an operation that does not persist takes ok = TRUE.               *)

NewRecord(c, n, p, d, h) ==
  [snapshot    |-> [name |-> n, persistence |-> p, cwd |-> d, history |-> h],
   attachments |-> {c}]

\* Mutant: create() does not look for a session of the same name.
CreateWithoutNameCheck(c, id, n, p, d, h, ok) ==
  /\ up
  /\ id \notin issued
  /\ d \in directories
  /\ sessions' = [sessions EXCEPT ![id] = NewRecord(c, n, p, d, h)]
  /\ issued' = issued \cup {id}
  /\ UNCHANGED <<up, in_flight, directories, accepted, settled>>
  /\ persist(ok)

create(c, id, n, p, d, h, ok) ==
  /\ up
  /\ id \notin issued
  /\ d \in directories
  /\ ~NameTaken(n)
  /\ sessions' = [sessions EXCEPT ![id] = NewRecord(c, n, p, d, h)]
  /\ issued' = issued \cup {id}
  /\ UNCHANGED <<up, in_flight, directories, accepted, settled>>
  /\ persist(ok)

Attached(c, s) == [snapshot    |-> sessions[s].snapshot,
                   attachments |-> sessions[s].attachments \cup {c}]

\* Mutant: attach() accepts any client that names the session.
AttachAnyone(c, s) ==
  /\ up /\ Live(s)
  /\ sessions' = [sessions EXCEPT ![s] = Attached(c, s)]
  /\ UNCHANGED <<up, in_flight, disk, directories, ghosts>>

attach(c, s) ==
  /\ up /\ Live(s)
  /\ OnlyControlledBy(c, s)
  /\ sessions' = [sessions EXCEPT ![s] = Attached(c, s)]
  /\ UNCHANGED <<up, in_flight, disk, directories, ghosts>>

Detached(c, s) == [snapshot    |-> sessions[s].snapshot,
                   attachments |-> sessions[s].attachments \ {c}]

\* Mutant: detach() keeps an ephemeral session that lost its controller.
DetachKeepingEphemeral(c, s, ok) ==
  /\ up /\ Live(s)
  /\ sessions' = [sessions EXCEPT ![s] = Detached(c, s)]
  /\ UNCHANGED <<up, in_flight, directories, issued, accepted, settled>>
  /\ persist(ok)

\* Detaching from a session that is gone succeeds and does nothing.
detach(c, s, ok) ==
  /\ up
  /\ IF Live(s)
       THEN /\ sessions' = [sessions EXCEPT ![s] =
                 IF /\ Detached(c, s).attachments = {}
                    /\ sessions[s].snapshot.persistence = "Ephemeral"
                   THEN None ELSE Detached(c, s)]
            /\ UNCHANGED <<up, in_flight, directories, issued, accepted, settled>>
            /\ persist(ok)
       ELSE ok /\ UNCHANGED regvars

\* A record whose cwd and history are replaced.
WithState(r, d, h) ==
  [snapshot    |-> [name |-> r.snapshot.name, persistence |-> r.snapshot.persistence,
                    cwd |-> d, history |-> h],
   attachments |-> r.attachments]

update(c, s, d, h, ok) ==
  /\ up /\ Live(s)
  /\ d \in directories
  /\ c \in sessions[s].attachments
  /\ sessions' = [sessions EXCEPT ![s] = WithState(@, d, h)]
  /\ UNCHANGED <<up, in_flight, directories, issued, accepted, settled>>
  /\ persist(ok)

\* Mutant: the marker's two identities are swapped.
BeginSwapped(s, o, ok) ==
  /\ up /\ ok /\ IsDurable(s) /\ in_flight[s] = None
  /\ in_flight' = [in_flight EXCEPT ![s] = s]
  /\ accepted' = [accepted EXCEPT ![o] = s]
  /\ UNCHANGED <<up, sessions, directories, issued, settled>>
  /\ persist(ok)

\* Only a durable session is marked.  The marker is on disk before the caller
\* goes on, and a failed persist() takes it out of memory again.
begin_execution(s, o, ok) ==
  /\ up /\ Live(s)
  /\ IF IsDurable(s)
       THEN /\ in_flight[s] = None
            /\ IF ok THEN /\ in_flight' = [in_flight EXCEPT ![s] = o]
                          /\ accepted' = [accepted EXCEPT ![o] = s]
                          /\ UNCHANGED <<up, sessions, directories, issued, settled>>
                          /\ persist(ok)
                     ELSE ok \in PersistOutcome /\ UNCHANGED regvars
       ELSE /\ ok
            /\ accepted' = [accepted EXCEPT ![o] = s]
            /\ UNCHANGED <<up, sessions, in_flight, disk, directories,
                           issued, settled, concluded, dirty>>

\* Mutant: finish_execution() forgets to persist the cleared marker.
FinishInMemoryOnly(s, o, ok) ==
  /\ up /\ ok
  /\ in_flight' = [in_flight EXCEPT ![s] = IF @ = o THEN None ELSE @]
  /\ settled' = settled \cup (IF in_flight[s] = o THEN {o} ELSE {})
  /\ UNCHANGED <<up, sessions, disk, directories, issued, accepted, concluded, dirty>>

finish_execution(s, o, ok) ==
  /\ up
  /\ IF in_flight[s] = o
       THEN /\ in_flight' = [in_flight EXCEPT ![s] = None]
            /\ settled' = settled \cup {o}
            /\ UNCHANGED <<up, sessions, directories, issued, accepted>>
            /\ persist(ok)
       ELSE ok /\ UNCHANGED regvars

\* The turn's cwd and history replace the session's.  Whatever marker the
\* session has is removed, without comparing operations.
update_execution_state(s, o, d, h, ok) ==
  /\ up /\ Live(s)
  /\ d \in directories
  /\ sessions' = [sessions EXCEPT ![s] = WithState(@, d, h)]
  /\ in_flight' = [in_flight EXCEPT ![s] = None]
  /\ settled' = settled \cup {o} \cup ({in_flight[s]} \ {None})
  /\ UNCHANGED <<up, directories, issued, accepted>>
  /\ persist(ok)

\* close() removes the session and leaves the marker that it may have.
close(c, s, ok) ==
  /\ up /\ Live(s)
  /\ OnlyControlledBy(c, s)
  /\ sessions' = [sessions EXCEPT ![s] = None]
  /\ UNCHANGED <<up, in_flight, directories, issued, accepted, settled>>
  /\ persist(ok)

-----------------------------------------------------------------------------
(* The daemon stops (killed, or exits after its shutdown) and starts again. *)

NoSessions == [s \in SessionId |-> None]

Crash ==
  /\ up
  /\ up' = FALSE
  /\ sessions' = NoSessions
  /\ in_flight' = NoSessions
  /\ settled' = concluded
  /\ dirty' = FALSE
  /\ UNCHANGED <<disk, directories, issued, accepted, concluded>>

\* What load() checks before it accepts sessions.json.
LoadAccepts ==
  /\ \A s \in SessionId : disk.sessions[s] # None =>
       /\ disk.sessions[s].persistence = "Durable"
       /\ disk.sessions[s].cwd \in directories
       /\ \A t \in SessionId \ {s} : disk.sessions[t] # None =>
            disk.sessions[t].name # disk.sessions[s].name
  /\ \A s \in SessionId : disk.in_flight[s] # None => disk.sessions[s] # None

\* Mutant: load() drops the markers without a word in the history.
RestoreSilently(s) ==
  IF disk.sessions[s] = None THEN None
  ELSE [snapshot |-> disk.sessions[s], attachments |-> {}]

\* A restored session is detached; one with a marker says so in its history,
\* unless its last message already says so.
Restored(s) ==
  LET o == disk.in_flight[s]
      saved == disk.sessions[s]
      said  == /\ saved.history # <<>>
               /\ saved.history[Len(saved.history)] = OutcomeUnknown(o)
  IN  IF saved = None THEN None
      ELSE [snapshot |-> IF o = None \/ said THEN saved
                         ELSE [saved EXCEPT !.history = Append(@, OutcomeUnknown(o))],
            attachments |-> {}]

Markers == {disk.in_flight[s] : s \in SessionId} \ {None}

\* A load() that refuses the file, or whose own persist() fails, ends the
\* process and changes nothing.
load ==
  /\ ~up
  /\ LoadAccepts
  /\ up' = TRUE
  /\ sessions' = [s \in SessionId |-> Restored(s)]
  /\ in_flight' = NoSessions
  /\ settled' = settled \cup Markers
  /\ UNCHANGED <<directories, issued, accepted>>
  /\ IF Markers # {} THEN persist(TRUE) ELSE UNCHANGED <<disk, concluded, dirty>>

\* The host's directories come and go without the daemon.
RemoveDirectory(d) ==
  /\ d \in directories
  /\ directories' = directories \ {d}
  /\ UNCHANGED <<up, sessions, in_flight, disk, ghosts>>

MakeDirectory(d) ==
  /\ d \notin directories
  /\ directories' = directories \cup {d}
  /\ UNCHANGED <<up, sessions, in_flight, disk, ghosts>>

-----------------------------------------------------------------------------
(* The registry under any caller that uses fresh operation identities,     *)
(* ends an operation at most once, and sends histories of ended operations. *)

Init ==
  /\ up = TRUE
  /\ sessions = NoSessions
  /\ in_flight = NoSessions
  /\ disk = [sessions |-> NoSessions, in_flight |-> NoSessions]
  /\ directories = Directory
  /\ issued = {}
  /\ accepted = [o \in Operation |-> None]
  /\ settled = {}
  /\ concluded = {}
  /\ dirty = FALSE

\* The histories a client may send with a create or an update: a fresh one, or
\* one that it was shown.
ClientHistories ==
  {<<>>} \cup {sessions[s].snapshot.history : s \in {t \in SessionId : Live(t)}}

Recorded(o) == [operation |-> o, outcome |-> "recorded"]

\* The histories a turn of operation o may end with: it works on a copy taken
\* when it was submitted and may have dropped messages of it, so nothing is
\* assumed but that each message speaks of an operation that has ended.
Sayable(o) ==
  {Recorded(q) : q \in settled \cup {o}} \cup {OutcomeUnknown(q) : q \in concluded}

TurnHistories(o) ==
  UNION {{h \in [1..n -> Sayable(o)] :
            \A i, j \in 1..n : i # j => h[i].operation # h[j].operation}
         : n \in 0..Cardinality(settled \cup {o})}

ClientStep(c, ok) ==
  \/ \E id \in SessionId, n \in Name, p \in PersistenceMode, d \in Directory,
        h \in ClientHistories : create(c, id, n, p, d, h, ok)
  \/ \E selector \in SessionId \cup Name, s \in SessionId :
       Resolves(selector, s) /\ (attach(c, s) \/ close(c, s, ok))
  \/ \E s \in SessionId : detach(c, s, ok)
  \/ \E s \in SessionId, d \in Directory, h \in ClientHistories : update(c, s, d, h, ok)

OperationStep(s, o, ok) ==
  \/ accepted[o] = None /\ begin_execution(s, o, ok)
  \/ /\ accepted[o] = s /\ o \notin settled
     /\ \/ finish_execution(s, o, ok)
        \/ \E d \in Directory, h \in TurnHistories(o) :
             update_execution_state(s, o, d, h, ok)

Next ==
  \/ \E c \in Client, ok \in PersistOutcome : ClientStep(c, ok)
  \/ \E s \in SessionId, o \in Operation, ok \in PersistOutcome :
       OperationStep(s, o, ok)
  \/ Crash
  \/ load
  \/ \E d \in Directory : RemoveDirectory(d) \/ MakeDirectory(d)

Spec == Init /\ [][Next]_regvars

-----------------------------------------------------------------------------
(* Properties.                                                             *)

\* The registry's maps, the file and the history variables are well typed.
TypeOK ==
  /\ up \in BOOLEAN
  /\ sessions \in [SessionId -> SessionRecord \cup {None}]
  /\ in_flight \in [SessionId -> Operation \cup {None}]
  /\ disk \in DurableState
  /\ directories \subseteq Directory
  /\ issued \subseteq SessionId
  /\ accepted \in [Operation -> SessionId \cup {None}]
  /\ settled \subseteq Operation
  /\ concluded \subseteq Operation
  /\ dirty \in BOOLEAN

\* "One client may hold the owner/controller attachment at a time"
\* (docs/session-fabric.md): no two connections are attached to one session.
SingleController ==
  \A s \in SessionId : Live(s) =>
    \A c1, c2 \in sessions[s].attachments : c1 = c2

\* Display names are unique among live sessions and, through every create,
\* close, failed persist() and crash, among the sessions of sessions.json, so
\* that load() never refuses its own file for a duplicate name.
UniqueNames ==
  \A s, t \in SessionId : s # t =>
    /\ Live(s) /\ Live(t) => sessions[s].snapshot.name # sessions[t].snapshot.name
    /\ disk.sessions[s] # None /\ disk.sessions[t] # None =>
         disk.sessions[s].name # disk.sessions[t].name

\* An ephemeral session exists only while somebody controls it, so none can be
\* left behind by a detach.
EphemeralIsControlled ==
  \A s \in SessionId :
    Live(s) /\ sessions[s].snapshot.persistence = "Ephemeral" =>
      sessions[s].attachments # {}

\* Unless the last persist() failed, sessions.json is what a restart should
\* find: exactly the durable sessions and exactly the operations in flight.
DiskIsCurrent ==
  up /\ ~dirty => disk = DurableImage(sessions, in_flight)

\* The operations of session s that began and whose end never reached the disk.
Interrupted(s) == {o \in Operation : accepted[o] = s} \ concluded

\* A restart reports an operation as outcome_unknown if and only if it was
\* accepted on a durable session and its end was not persisted, whatever
\* failed writes and crashes came before; the rest of the history is unchanged.
RecoveryIsExact ==
  [][ ~up /\ up' =>
        \A s \in SessionId : sessions'[s] # None =>
          LET before == disk.sessions[s].history
              after  == sessions'[s].snapshot.history
          IN  \/ Interrupted(s) = {} /\ after = before
              \/ \E o \in Operation : /\ Interrupted(s) = {o}
                                      /\ after = Append(before, OutcomeUnknown(o))
    ]_regvars

=============================================================================

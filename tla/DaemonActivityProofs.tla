------------------------ MODULE DaemonActivityProofs ------------------------
(***************************************************************************)
(* One session runs one thing, and a shutdown reaches everything.  The     *)
(* checks behind both are made by different threads under different locks; *)
(* what makes them sound is that a thread which works on a live session is *)
(* its controller, and a session has one.                                  *)
(*                                                                         *)
(* Three invariants beside DaemonInv: who controls what (Control), where a *)
(* turn can be when it is not its session's active one (Turns), and where  *)
(* a terminal job can be when it is not in the coordinator's map (Jobs).   *)
(*                                                                         *)
(* The second half is about what the registry and the connections believe  *)
(* of each other, and what happens to the work of a session that is        *)
(* removed.  Both are promises the code keeps only while the registry's    *)
(* file can be written: a create, a detach or a close whose persist()      *)
(* fails has already changed the registry when its handler gives up        *)
(* (xshelld.rs: `?' before the session becomes current, before the jobs    *)
(* are terminated).  So those theorems are for a disk that does not fail,  *)
(* PersistMayFail = FALSE; crashes and everything else may happen.         *)
(***************************************************************************)
EXTENDS DaemonRefinementProofs

-----------------------------------------------------------------------------
(* What the registry's operations do to controllers.                       *)

\* Every session lives as before, under the same controller and mode.
SameControl ==
  /\ issued' = issued
  /\ \A s \in SessionId :
       /\ sessions'[s] # None <=> Live(s)
       /\ Live(s) => /\ sessions'[s].attachments = sessions[s].attachments
                     /\ sessions'[s].snapshot.persistence = sessions[s].snapshot.persistence

\* Whatever x did, the sessions that another connection controls are still
\* there, under its control, and no issued session has come back to life.
SparesOthers(x) ==
  /\ issued \subseteq issued'
  /\ \A s \in SessionId :
       /\ s \in issued /\ sessions'[s] # None =>
            /\ Live(s) /\ sessions[s].attachments \ {x} \subseteq sessions'[s].attachments
            /\ sessions'[s].snapshot.persistence = sessions[s].snapshot.persistence
       /\ Live(s) /\ ~(sessions[s].attachments \subseteq {x}) => sessions'[s] # None

\* A step that touches no controller spares everybody.
LEMMA SameSpares == ASSUME SameControl, NEW x PROVE SparesOthers(x)
BY DEF SameControl, SparesOthers, Live

\* A step that leaves the registry alone touches no controller.
LEMMA UnchangedControl == ASSUME UNCHANGED regvars PROVE SameControl
BY DEF SameControl, regvars, ghosts, Live

\* Neither does a change of a session's cwd and history.
LEMMA WithStateControl ==
  ASSUME TypeOK, NEW s \in SessionId, Live(s), NEW d, NEW h, issued' = issued,
         sessions' = [sessions EXCEPT ![s] = WithState(@, d, h)],
         d \in Directory, h \in Seq(Message)
  PROVE  SameControl
<1> DEFINE r == WithState(sessions[s], d, h)
<1>1. r # None
  <2>1. r \in SessionRecord
    BY WithStateType
  <2> QED
    BY <2>1, NoneAssumption
<1>2. /\ r.attachments = sessions[s].attachments
      /\ r.snapshot.persistence = sessions[s].snapshot.persistence
  BY DEF WithState
<1>3. \A t \in SessionId : sessions'[t] = IF t = s THEN r ELSE sessions[t]
  BY DEF TypeOK
<1> HIDE DEF r
<1> QED
  BY <1>1, <1>2, <1>3 DEF SameControl, Live

\* What is done to operations, and an update, touches no controller.
LEMMA OperationControl ==
  ASSUME TypeOK, NEW s \in SessionId, NEW o \in Operation, NEW ok \in BOOLEAN,
         begin_execution(s, o, ok) \/ finish_execution(s, o, ok)
  PROVE  SameControl
<1>1. CASE UNCHANGED regvars
  BY <1>1, UnchangedControl
<1>2. CASE ~UNCHANGED regvars
  <2>1. sessions' = sessions /\ issued' = issued
    BY <1>2 DEF begin_execution, finish_execution
  <2> QED
    BY <2>1 DEF SameControl, Live
<1> QED
  BY <1>1, <1>2

\* create: the new session is its creator's, the others are as they were.
LEMMA CreateControl ==
  ASSUME TypeOK, NEW c \in Client, NEW id \in SessionId, NEW n \in Name,
         NEW p \in PersistenceMode, NEW d \in Directory, NEW h \in ClientHistories,
         NEW ok \in PersistOutcome, create(c, id, n, p, d, h, ok)
  PROVE  /\ id \notin issued /\ issued' = issued \cup {id}
         /\ sessions'[id] # None /\ sessions'[id].attachments = {c}
         /\ \A s \in SessionId \ {id} : sessions'[s] = sessions[s]
<1> DEFINE r == NewRecord(c, n, p, d, h)
<1>1. h \in Seq(Message)
  BY ClientHistoriesType
<1>2. r \in SessionRecord
  BY <1>1 DEF NewRecord, SessionRecord, Snapshot
<1>3. r.attachments = {c} /\ r # None
  BY <1>2, NoneAssumption DEF NewRecord
<1>4. sessions' = [sessions EXCEPT ![id] = r]
  BY DEF create
<1> HIDE DEF r
<1> QED
  BY <1>3, <1>4 DEF create, TypeOK

\* attach: the session was nobody else's and is now the connection's.
LEMMA AttachControl ==
  ASSUME TypeOK, NEW c \in Client, NEW s \in SessionId, attach(c, s)
  PROVE  /\ issued' = issued /\ Live(s) /\ sessions[s].attachments \subseteq {c}
         /\ sessions'[s] # None /\ sessions'[s].attachments = {c}
         /\ sessions'[s].snapshot = sessions[s].snapshot
         /\ \A t \in SessionId \ {s} : sessions'[t] = sessions[t]
<1>0. Live(s) /\ sessions[s].attachments \subseteq {c} /\ issued' = issued
  BY DEF attach, OnlyControlledBy, ghosts
<1>1. Attached(c, s) \in SessionRecord
  BY <1>0, LiveType DEF Attached, SessionRecord
<1>2. /\ Attached(c, s).attachments = {c} /\ Attached(c, s).snapshot = sessions[s].snapshot
      /\ Attached(c, s) # None
  BY <1>0, <1>1, NoneAssumption DEF Attached
<1>3. sessions' = [sessions EXCEPT ![s] = Attached(c, s)]
  BY DEF attach
<1> QED
  BY <1>0, <1>2, <1>3 DEF TypeOK

\* detach: the connection is out; a session that was only its own and
\* ephemeral is gone.
LEMMA DetachControl ==
  ASSUME TypeOK, NEW c \in Client, NEW s \in SessionId, NEW ok, detach(c, s, ok)
  PROVE  /\ issued' = issued
         /\ \A t \in SessionId \ {s} : sessions'[t] = sessions[t]
         /\ ~Live(s) => sessions'[s] = sessions[s]
         /\ Live(s) =>
              IF /\ sessions[s].attachments \subseteq {c}
                 /\ sessions[s].snapshot.persistence = "Ephemeral"
                THEN sessions'[s] = None
                ELSE /\ sessions'[s] # None
                     /\ sessions'[s].attachments = sessions[s].attachments \ {c}
                     /\ sessions'[s].snapshot = sessions[s].snapshot
<1>1. CASE ~Live(s)
  BY <1>1 DEF detach, regvars, ghosts
<1>2. CASE Live(s)
  <2>1. Detached(c, s) \in SessionRecord
    BY <1>2, LiveType DEF Detached, SessionRecord
  <2>2. /\ Detached(c, s).attachments = sessions[s].attachments \ {c}
        /\ Detached(c, s).snapshot = sessions[s].snapshot /\ Detached(c, s) # None
    BY <2>1, NoneAssumption DEF Detached
  <2>3. Detached(c, s).attachments = {} <=> sessions[s].attachments \subseteq {c}
    BY <2>2
  <2>4. issued' = issued /\ sessions' = [sessions EXCEPT ![s] =
          IF sessions[s].attachments \subseteq {c} /\ sessions[s].snapshot.persistence = "Ephemeral"
            THEN None ELSE Detached(c, s)]
    BY <1>2, <2>3 DEF detach
  <2> QED
    BY <1>2, <2>2, <2>4 DEF TypeOK
<1> QED
  BY <1>1, <1>2

\* close: the session was nobody else's and is gone.
LEMMA CloseControl ==
  ASSUME TypeOK, NEW c \in Client, NEW s \in SessionId, NEW ok, close(c, s, ok)
  PROVE  /\ issued' = issued /\ Live(s) /\ sessions[s].attachments \subseteq {c}
         /\ sessions'[s] = None
         /\ \A t \in SessionId \ {s} : sessions'[t] = sessions[t]
BY DEF close, OnlyControlledBy, TypeOK

\* A client's step spares the other connections.
LEMMA ClientSpares ==
  ASSUME IInv, NEW c \in Client, NEW ok \in PersistOutcome, ClientStep(c, ok)
  PROVE  SparesOthers(c)
<1>0. TypeOK /\ (\A s \in SessionId : Live(s) => s \in issued)
  BY DEF IInv, MemoryInv, LiveIssued
<1>1. ASSUME NEW id \in SessionId, NEW n \in Name, NEW p \in PersistenceMode,
             NEW d \in Directory, NEW h \in ClientHistories, create(c, id, n, p, d, h, ok)
      PROVE  SparesOthers(c)
  <2>1. /\ id \notin issued /\ issued' = issued \cup {id} /\ sessions'[id] # None
        /\ \A s \in SessionId \ {id} : sessions'[s] = sessions[s]
    BY <1>0, <1>1, CreateControl
  <2> QED
    BY <1>0, <2>1 DEF SparesOthers, Live
<1>2. ASSUME NEW s \in SessionId, attach(c, s) PROVE SparesOthers(c)
  <2>1. /\ issued' = issued /\ Live(s) /\ sessions[s].attachments \subseteq {c}
        /\ sessions'[s] # None /\ sessions'[s].attachments = {c}
        /\ sessions'[s].snapshot = sessions[s].snapshot
        /\ \A t \in SessionId \ {s} : sessions'[t] = sessions[t]
    BY <1>0, <1>2, AttachControl
  <2> QED
    BY <2>1 DEF SparesOthers, Live
<1>3. ASSUME NEW s \in SessionId, close(c, s, ok) PROVE SparesOthers(c)
  <2>1. /\ issued' = issued /\ Live(s) /\ sessions[s].attachments \subseteq {c}
        /\ sessions'[s] = None
        /\ \A t \in SessionId \ {s} : sessions'[t] = sessions[t]
    BY <1>0, <1>3, CloseControl
  <2> QED
    BY <2>1 DEF SparesOthers, Live
<1>4. ASSUME NEW s \in SessionId, detach(c, s, ok) PROVE SparesOthers(c)
  <2>1. /\ issued' = issued
        /\ \A t \in SessionId \ {s} : sessions'[t] = sessions[t]
        /\ ~Live(s) => sessions'[s] = sessions[s]
        /\ Live(s) =>
              IF /\ sessions[s].attachments \subseteq {c}
                 /\ sessions[s].snapshot.persistence = "Ephemeral"
                THEN sessions'[s] = None
                ELSE /\ sessions'[s] # None
                     /\ sessions'[s].attachments = sessions[s].attachments \ {c}
                     /\ sessions'[s].snapshot = sessions[s].snapshot
    BY <1>0, <1>4, DetachControl
  <2> QED
    BY <2>1 DEF SparesOthers, Live
<1>5. ASSUME NEW s \in SessionId, NEW d \in Directory, NEW h \in ClientHistories,
             update(c, s, d, h, ok)
      PROVE  SparesOthers(c)
  <2>1. SameControl
    BY <1>0, <1>5, ClientHistoriesType, WithStateControl DEF update
  <2> QED
    BY <2>1, SameSpares
<1> QED
  BY <1>1, <1>2, <1>3, <1>4, <1>5 DEF ClientStep

-----------------------------------------------------------------------------
(***************************************************************************)
(* Who controls what.  A connection holds the session it is attached to,   *)
(* the one its request works on and the one it will be attached to next;   *)
(* what it holds was issued, and while that session lives the connection   *)
(* is its controller.                                                      *)
(***************************************************************************)

Holds(c, s) ==
  \/ conn[c].attached = s
  \/ conn[c].next = s
  \/ conn[c].session = s /\ conn[c].pc \notin ClosePc

Ephemeral(s) == Live(s) /\ sessions[s].snapshot.persistence = "Ephemeral"

EphemeralPc == {"detach_cancel", "detach_terminate", "detach_wait"}

ControlOf(c, s) ==
  /\ Holds(c, s) => s \in issued /\ (Live(s) => c \in sessions[s].attachments)
  /\ conn[c].session = s =>
       /\ conn[c].next # s
       /\ conn[c].pc \in SubmitPc \cup PtyPc => Live(s)
       /\ conn[c].pc \in ClosePc => ~Live(s) /\ s \in issued
       /\ conn[c].pc \in EphemeralPc => Ephemeral(s)

Control ==
  /\ \A c \in Client, s \in SessionId : ControlOf(c, s)
  /\ ~up => \A c \in Client, s \in SessionId : ~Holds(c, s)

\* Two connections never hold the same live session.
LEMMA Exclusive ==
  ASSUME IInv, Control, NEW c \in Client, NEW d \in Client, NEW s \in SessionId,
         Live(s), Holds(c, s), Holds(d, s)
  PROVE  c = d
BY DEF IInv, MemoryInv, SingleController, Control, ControlOf

\* What connection c does leaves the others in control of what they hold.
LEMMA ControlStep ==
  ASSUME Control, NEW c \in Client, SparesOthers(c), OthersStay(c), up',
         \A s \in SessionId : ControlOf(c, s)'
  PROVE  Control'
<1>1. ASSUME NEW d \in Client, d # c, NEW s \in SessionId PROVE ControlOf(d, s)'
  <2>1. conn'[d] = conn[d] /\ ControlOf(d, s)
    BY <1>1 DEF OthersStay, Control
  <2>2. /\ issued \subseteq issued'
        /\ s \in issued /\ sessions'[s] # None =>
             /\ Live(s) /\ sessions[s].attachments \ {c} \subseteq sessions'[s].attachments
             /\ sessions'[s].snapshot.persistence = sessions[s].snapshot.persistence
        /\ Live(s) /\ ~(sessions[s].attachments \subseteq {c}) => sessions'[s] # None
    BY DEF SparesOthers
  <2>3. Holds(d, s)' <=> Holds(d, s)
    BY <2>1 DEF Holds
  <2>4. ASSUME Holds(d, s), Live(s)
        PROVE  sessions'[s] # None /\ s \in issued /\ d \in sessions[s].attachments
    BY <1>1, <2>1, <2>2, <2>4 DEF ControlOf
  <2>5. conn[d].session = s /\ conn[d].pc \notin ClosePc => Holds(d, s)
    BY DEF Holds
  <2>6. /\ conn[d].pc \in SubmitPc \cup PtyPc => conn[d].pc \notin ClosePc
        /\ conn[d].pc \in EphemeralPc => conn[d].pc \notin ClosePc
    BY DEF SubmitPc, PtyPc, ClosePc, EphemeralPc
  <2>7. Holds(d, s) => s \in issued' /\ (sessions'[s] # None => d \in sessions'[s].attachments)
    BY <1>1, <2>1, <2>2, <2>4 DEF ControlOf
  <2>8. ASSUME conn[d].session = s
        PROVE  /\ conn[d].next # s
               /\ conn[d].pc \in SubmitPc \cup PtyPc => sessions'[s] # None
               /\ conn[d].pc \in ClosePc => sessions'[s] = None /\ s \in issued'
               /\ conn[d].pc \in EphemeralPc => Ephemeral(s)'
    BY <2>1, <2>2, <2>4, <2>5, <2>6, <2>8 DEF ControlOf, Ephemeral, Live
  <2> QED
    BY <2>1, <2>3, <2>7, <2>8 DEF ControlOf, Live
<1> QED
  BY <1>1 DEF Control

\* A step of c that touches no controller and takes hold of nothing new.
LEMMA OwnControl ==
  ASSUME Control, NEW c \in Client, SameControl,
         \A s \in SessionId : Holds(c, s)' => Holds(c, s),
         \A s \in SessionId : conn'[c].session = s =>
           /\ conn'[c].next # s
           /\ conn'[c].pc \in SubmitPc \cup PtyPc => Live(s)
           /\ conn'[c].pc \in ClosePc => conn[c].pc \in ClosePc /\ conn[c].session = s
           /\ conn'[c].pc \in EphemeralPc => Ephemeral(s)
  PROVE  \A s \in SessionId : ControlOf(c, s)'
<1> SUFFICES ASSUME NEW s \in SessionId PROVE ControlOf(c, s)'
  OBVIOUS
<1>1. /\ ControlOf(c, s) /\ issued' = issued /\ (sessions'[s] # None <=> Live(s))
      /\ Live(s) => /\ sessions'[s].attachments = sessions[s].attachments
                    /\ sessions'[s].snapshot.persistence = sessions[s].snapshot.persistence
  BY DEF Control, SameControl
<1>2. Holds(c, s)' => s \in issued' /\ (sessions'[s] # None => c \in sessions'[s].attachments)
  BY <1>1 DEF ControlOf
<1>3. conn'[c].session = s =>
           /\ conn'[c].next # s
           /\ conn'[c].pc \in SubmitPc \cup PtyPc => sessions'[s] # None
           /\ conn'[c].pc \in ClosePc => sessions'[s] = None /\ s \in issued'
           /\ conn'[c].pc \in EphemeralPc => Ephemeral(s)'
  BY <1>1 DEF ControlOf, Ephemeral, Live
<1> QED
  BY <1>2, <1>3 DEF ControlOf, Live

\* The step of c is over, or goes on to another lock of the same request.
LEMMA QuietControl ==
  ASSUME Control, NEW c \in Client, SameControl, up', DaemonTypes, Threads,
         \/ Returned(c, conn[c].attached) \/ Returned(c, None) \/ Left(c)
         \/ \E to \in ConnPc : /\ Moved(c, to) /\ (to \in ClosePc <=> conn[c].pc \in ClosePc)
                               /\ to \in SubmitPc \cup PtyPc => conn[c].pc \in SubmitPc \cup PtyPc
                               /\ to \in EphemeralPc =>
                                    \/ conn[c].pc \in EphemeralPc
                                    \/ Ephemeral(conn[c].session)
         \/ conn' = conn
  PROVE  Control'
<1>0. OthersStay(c) /\ SparesOthers(c)
  BY SameSpares DEF Returned, Left, Moved, OthersStay
<1>1. \A s \in SessionId : ControlOf(c, s) /\ s # None
  BY NoneAssumption DEF Control
<1>2. CASE Returned(c, conn[c].attached) \/ Returned(c, None) \/ Left(c)
  <2>1. \A s \in SessionId : (Holds(c, s)' => Holds(c, s)) /\ conn'[c].session # s
    BY <1>1, <1>2 DEF Returned, Left, Holds
  <2> QED
    BY <1>0, <2>1, OwnControl, ControlStep
<1>3. ASSUME NEW to \in ConnPc, Moved(c, to), to \in ClosePc <=> conn[c].pc \in ClosePc,
             to \in SubmitPc \cup PtyPc => conn[c].pc \in SubmitPc \cup PtyPc,
             to \in EphemeralPc => conn[c].pc \in EphemeralPc \/ Ephemeral(conn[c].session)
      PROVE  Control'
  <2>1. \A s \in SessionId : Holds(c, s)' => Holds(c, s)
    BY <1>3 DEF Moved, Holds
  <2>2. \A s \in SessionId : conn'[c].session = s =>
           /\ conn'[c].next # s
           /\ conn'[c].pc \in SubmitPc \cup PtyPc => Live(s)
           /\ conn'[c].pc \in ClosePc => conn[c].pc \in ClosePc /\ conn[c].session = s
           /\ conn'[c].pc \in EphemeralPc => Ephemeral(s)
    BY <1>1, <1>3 DEF Moved, ControlOf
  <2> QED
    BY <1>0, <2>1, <2>2, OwnControl, ControlStep
<1>4. CASE conn' = conn
  <2>1. \A s \in SessionId : Holds(c, s)' => Holds(c, s)
    BY <1>4 DEF Holds
  <2>2. \A s \in SessionId : conn'[c].session = s =>
           /\ conn'[c].next # s
           /\ conn'[c].pc \in SubmitPc \cup PtyPc => Live(s)
           /\ conn'[c].pc \in ClosePc => conn[c].pc \in ClosePc /\ conn[c].session = s
           /\ conn'[c].pc \in EphemeralPc => Ephemeral(s)
    BY <1>1, <1>4 DEF ControlOf
  <2> QED
    BY <1>0, <2>1, <2>2, OwnControl, ControlStep
<1> QED
  BY <1>2, <1>3, <1>4

\* create gives its connection the new session, and the previous one until the
\* detach that follows.
LEMMA CreateOwns ==
  ASSUME DaemonInv, Control, NEW c \in Client, NEW id \in SessionId, NEW n \in Name,
         NEW p \in PersistenceMode, NEW d \in Directory, NEW h \in ClientHistories,
         NEW ok \in PersistOutcome, CreateRequest(c, id, n, p, d, h, ok)
  PROVE  Control' /\ SparesOthers(c) /\ OthersStay(c)
<1> USE DEF DaemonInv
<1>0. TypeOK /\ conn[c].pc = "idle" /\ create(c, id, n, p, d, h, ok)
  BY DEF CreateRequest, IInv
<1>1. /\ id \notin issued /\ issued' = issued \cup {id}
      /\ sessions'[id] # None /\ sessions'[id].attachments = {c}
      /\ \A s \in SessionId \ {id} : sessions'[s] = sessions[s]
  BY <1>0, CreateControl
<1>2. SparesOthers(c) /\ up'
  <2>1. ClientStep(c, ok)
    BY <1>0 DEF ClientStep
  <2> QED
    BY <2>1, ClientSpares, ClientKeeps
<1>3. conn[c].session = None /\ conn[c].next = None
  BY <1>0, ThreadFacts
<1>4. conn' = conn \/ Attaches(c, id) \/ (LetsGo(c, id, FALSE) /\ conn[c].attached # id)
  BY CreateDoes
<1>5. OthersStay(c)
  BY <1>4 DEF OthersStay, Attaches, LetsGo
<1>6. ASSUME NEW s \in SessionId PROVE ControlOf(c, s)'
  <2>0. ControlOf(c, s) /\ s # None /\ conn[c].pc \notin ClosePc
    BY <1>0, NoneAssumption DEF Control, ClosePc
  <2>1. /\ Holds(c, s)' => s = id \/ Holds(c, s)
        /\ conn'[c].session = s => conn'[c].pc = "detach_snapshot" /\ conn'[c].next # s
    BY <1>0, <1>3, <1>4, <2>0 DEF Attaches, LetsGo, Holds
  <2>2. Holds(c, s)' => s \in issued' /\ (sessions'[s] # None => c \in sessions'[s].attachments)
    BY <1>1, <2>0, <2>1 DEF ControlOf, Live
  <2> QED
    BY <2>1, <2>2 DEF ControlOf, Live, SubmitPc, PtyPc, ClosePc, EphemeralPc
<1> QED
  BY <1>2, <1>5, <1>6, ControlStep

\* So do attach and switch with the session they name.
LEMMA AttachOwns ==
  ASSUME DaemonInv, Control, NEW c \in Client, NEW selector \in SessionId \cup Name,
         NEW s \in SessionId,
         AttachRequest(c, selector, s) \/ SwitchRequest(c, selector, s)
  PROVE  Control' /\ SparesOthers(c) /\ OthersStay(c)
<1> USE DEF DaemonInv
<1>0. TypeOK /\ conn[c].pc = "idle" /\ attach(c, s) /\ Resolves(selector, s)
  BY DEF AttachRequest, SwitchRequest, IInv
<1>1. /\ issued' = issued /\ Live(s) /\ s \in issued
      /\ sessions'[s] # None /\ sessions'[s].attachments = {c}
      /\ \A t \in SessionId \ {s} : sessions'[t] = sessions[t]
  BY <1>0, AttachControl DEF IInv, MemoryInv, LiveIssued
<1>2. SparesOthers(c) /\ up'
  <2>1. PICK ok \in PersistOutcome : TRUE
    BY DEF PersistOutcome
  <2>2. ClientStep(c, ok)
    BY <1>0 DEF ClientStep
  <2> QED
    BY <2>2, ClientSpares, ClientKeeps
<1>3. conn[c].session = None /\ conn[c].next = None
  BY <1>0, ThreadFacts
<1>4. Attaches(c, s) \/ (LetsGo(c, s, FALSE) /\ conn[c].attached # s)
  BY AttachDoes
<1>5. OthersStay(c)
  BY <1>4 DEF Attaches, LetsGo
<1>6. ASSUME NEW t \in SessionId PROVE ControlOf(c, t)'
  <2>0. ControlOf(c, t) /\ t # None /\ conn[c].pc \notin ClosePc
    BY <1>0, NoneAssumption DEF Control, ClosePc
  <2>1. /\ Holds(c, t)' => t = s \/ Holds(c, t)
        /\ conn'[c].session = t => conn'[c].pc = "detach_snapshot" /\ conn'[c].next # t
    BY <1>0, <1>3, <1>4, <2>0 DEF Attaches, LetsGo, Holds
  <2>2. Holds(c, t)' => t \in issued' /\ (sessions'[t] # None => c \in sessions'[t].attachments)
    BY <1>1, <2>0, <2>1 DEF ControlOf, Live
  <2> QED
    BY <2>1, <2>2 DEF ControlOf, Live, SubmitPc, PtyPc, ClosePc, EphemeralPc
<1> QED
  BY <1>2, <1>5, <1>6, ControlStep

\* close removes a session that was nobody else's.
LEMMA CloseOwns ==
  ASSUME DaemonInv, Control, NEW c \in Client, NEW selector \in SessionId \cup Name,
         NEW s \in SessionId, NEW ok \in PersistOutcome, CloseRequest(c, selector, s, ok)
  PROVE  Control' /\ SparesOthers(c) /\ OthersStay(c)
<1> USE DEF DaemonInv
<1>0. TypeOK /\ conn[c].pc = "idle" /\ close(c, s, ok) /\ Resolves(selector, s)
      /\ ok \in BOOLEAN
  BY OutcomeType DEF CloseRequest, IInv
<1>1. /\ issued' = issued /\ Live(s) /\ s \in issued /\ sessions'[s] = None
      /\ \A t \in SessionId \ {s} : sessions'[t] = sessions[t]
  BY <1>0, CloseControl DEF IInv, MemoryInv, LiveIssued
<1>2. SparesOthers(c) /\ up'
  <2>2. ClientStep(c, ok)
    BY <1>0 DEF ClientStep
  <2> QED
    BY <2>2, ClientSpares, ClientKeeps
<1>3. conn[c].session = None /\ conn[c].next = None
  BY <1>0, ThreadFacts
<1>4. /\ OthersStay(c) /\ conn'[c].attached = conn[c].attached /\ conn'[c].next = None
      /\ \/ conn'[c].pc = "close_terminate" /\ conn'[c].session = s
         \/ conn'[c].pc = "idle" /\ conn'[c].session = None
  BY <1>0, <1>3, CloseDoes
<1>6. ASSUME NEW t \in SessionId PROVE ControlOf(c, t)'
  <2>0. ControlOf(c, t) /\ t # None
    BY NoneAssumption DEF Control
  <2>1. /\ Holds(c, t)' => Holds(c, t)
        /\ conn'[c].session = t => /\ conn'[c].pc = "close_terminate" /\ conn'[c].next # t
                                   /\ t = s
    BY <1>3, <1>4, <2>0 DEF Holds, ClosePc
  <2>2. Holds(c, t)' => t \in issued' /\ (sessions'[t] # None => c \in sessions'[t].attachments)
    BY <1>1, <2>0, <2>1 DEF ControlOf, Live
  <2> QED
    BY <1>1, <2>1, <2>2 DEF ControlOf, Live, SubmitPc, PtyPc, ClosePc, EphemeralPc
<1> QED
  BY <1>2, <1>4, <1>6, ControlStep

\* The detach in the registry lets go of the session, and of nothing else.
LEMMA DetachOwns ==
  ASSUME DaemonInv, Control, NEW c \in Client, NEW ok \in PersistOutcome, DetachRegistry(c, ok)
  PROVE  Control' /\ SparesOthers(c) /\ OthersStay(c)
<1> USE DEF DaemonInv
<1>0. TypeOK /\ conn[c].pc = "detach_registry" /\ detach(c, conn[c].session, ok) /\ ok \in BOOLEAN
  BY OutcomeType DEF DetachRegistry, IInv
<1>i. PICK s \in SessionId : s = conn[c].session
  BY <1>0, ThreadFacts
<1>1. /\ issued' = issued
      /\ \A t \in SessionId \ {s} : sessions'[t] = sessions[t]
  BY <1>0, <1>i, DetachControl
<1>2. SparesOthers(c) /\ up'
  <2>2. ClientStep(c, ok)
    BY <1>0, <1>i DEF ClientStep
  <2> QED
    BY <2>2, ClientSpares, ClientKeeps
<1>4. Left(c) \/ Returned(c, conn[c].next) \/ Returned(c, None)
  BY <1>0, DetachRegistryDoes
<1>5. OthersStay(c)
  BY <1>4 DEF Left, Returned
<1>6. ASSUME NEW t \in SessionId PROVE ControlOf(c, t)'
  <2>0. ControlOf(c, t) /\ ControlOf(c, s) /\ t # None
    BY NoneAssumption DEF Control
  <2>1. (Holds(c, t)' => t = conn[c].next) /\ conn'[c].session # t
    BY <1>4, <2>0 DEF Left, Returned, Holds
  <2>2. t = conn[c].next => t # s /\ Holds(c, t)
    BY <1>i, <2>0 DEF ControlOf, Holds
  <2>3. Holds(c, t)' => t \in issued' /\ (sessions'[t] # None => c \in sessions'[t].attachments)
    BY <1>1, <2>0, <2>1, <2>2 DEF ControlOf, Live
  <2> QED
    BY <2>1, <2>3 DEF ControlOf, Live
<1> QED
  BY <1>2, <1>5, <1>6, ControlStep

\* A request keeps Control and spares the other connections.
LEMMA RequestControl ==
  ASSUME DaemonInv, Control, NEW c \in Client, Requests(c)
  PROVE  Control' /\ SparesOthers(c) /\ OthersStay(c)
<1> USE DEF DaemonInv
<1>0. TypeOK /\ conn[c].attached \in SessionId \cup {None}
  BY ThreadFacts DEF IInv
<1>1. ASSUME SameControl, up', OthersStay(c), conn[c].pc = "idle",
             conn'[c].next = None, conn'[c].attached \in {None, conn[c].attached},
             conn'[c].session \in {None, conn[c].attached},
             conn'[c].pc \notin ClosePc \cup EphemeralPc,
             conn'[c].pc \in SubmitPc \cup PtyPc =>
               Live(conn[c].attached) /\ conn'[c].session = conn[c].attached
      PROVE  Control' /\ SparesOthers(c) /\ OthersStay(c)
  <2>1. \A s \in SessionId : s # None /\ (Holds(c, s)' => Holds(c, s))
    BY <1>1, NoneAssumption DEF Holds
  <2>2. \A s \in SessionId : conn'[c].session = s =>
           /\ conn'[c].next # s
           /\ conn'[c].pc \in SubmitPc \cup PtyPc => Live(s)
           /\ conn'[c].pc \in ClosePc => conn[c].pc \in ClosePc /\ conn[c].session = s
           /\ conn'[c].pc \in EphemeralPc => Ephemeral(s)
    BY <1>1, <2>1
  <2>3. SparesOthers(c)
    BY <1>1, SameSpares
  <2> QED
    BY <1>1, <2>1, <2>2, <2>3, OwnControl, ControlStep
<1>2. CASE DetachRequest(c) \/ Disconnect(c)
  <2>1. /\ up' /\ SameControl /\ conn[c].pc = "idle"
        /\ Left(c) \/ \E leaving \in BOOLEAN : LetsGo(c, None, leaving)
    BY <1>2, LeaveDoes, UnchangedControl DEF regvars
  <2> QED
    BY <1>1, <2>1 DEF Left, LetsGo, ClosePc, EphemeralPc, SubmitPc, PtyPc
<1>3. ASSUME NEW d \in Directory, NEW h \in ClientHistories, NEW ok \in PersistOutcome,
             UpdateRequest(c, d, h, ok)
      PROVE  Control' /\ SparesOthers(c) /\ OthersStay(c)
  <2>1. /\ conn[c].attached \in SessionId /\ conn[c].pc = "idle" /\ conn' = conn
        /\ update(c, conn[c].attached, d, h, ok)
    BY <1>0, <1>3 DEF UpdateRequest, daemon
  <2>2. SameControl /\ up'
    BY <1>0, <2>1, ClientHistoriesType, WithStateControl DEF update
  <2>3. conn[c].next = None /\ conn[c].session = None
    BY <2>1, ThreadFacts
  <2> QED
    BY <1>1, <2>1, <2>2, <2>3 DEF OthersStay, ClosePc, EphemeralPc, SubmitPc, PtyPc
<1>4. CASE CancelRequest(c)
  <2>1. /\ UNCHANGED regvars /\ conn' = conn /\ up /\ conn[c].pc = "idle"
    BY <1>4 DEF CancelRequest
  <2>2. SameControl /\ up'
    BY <2>1, UnchangedControl DEF regvars
  <2>3. conn[c].next = None /\ conn[c].session = None
    BY <2>1, ThreadFacts
  <2> QED
    BY <1>1, <2>1, <2>2, <2>3 DEF OthersStay, ClosePc, EphemeralPc, SubmitPc, PtyPc
<1>5. ASSUME NEW o \in Operation, SubmitSnapshot(c, o) \/ PtyStartRequest(c, o)
      PROVE  Control' /\ SparesOthers(c) /\ OthersStay(c)
  <2>1. /\ UNCHANGED regvars /\ up /\ conn[c].pc = "idle" /\ Live(conn[c].attached)
        /\ Begins(c, o, "submit_reserve") \/ Begins(c, o, "pty_reap")
    BY <1>0, <1>5, SubmitSnapshotDoes, PtyStartDoes DEF SubmitSnapshot, PtyStartRequest
  <2>2. SameControl /\ up'
    BY <2>1, UnchangedControl DEF regvars
  <2>3. conn[c].next = None
    BY <2>1, ThreadFacts
  <2> QED
    BY <1>1, <2>1, <2>2, <2>3 DEF Begins, ClosePc, EphemeralPc
<1>6. CASE PtyCloseRequest(c)
  <2>1. /\ UNCHANGED regvars /\ up /\ conn[c].pc = "idle"
    BY <1>6 DEF PtyCloseRequest
  <2>2. SameControl /\ up'
    BY <2>1, UnchangedControl DEF regvars
  <2>3. conn[c].next = None
    BY <2>1, ThreadFacts
  <2> QED
    BY <1>1, <1>6, <2>1, <2>2, <2>3, PtyCloseDoes DEF ClosePc, EphemeralPc, SubmitPc, PtyPc
<1> QED
  BY <1>2, <1>3, <1>4, <1>5, <1>6, CreateOwns, AttachOwns, CloseOwns DEF Requests

\* So does what a connection thread goes on to do.
LEMMA HandlerControl ==
  ASSUME DaemonInv, Control, NEW c \in Client, Handler(c)
  PROVE  Control' /\ SparesOthers(c) /\ OthersStay(c)
<1> USE DEF DaemonInv
<1>0. TypeOK /\ PersistOutcome \subseteq BOOLEAN
  BY OutcomeType DEF IInv
<1>1. ASSUME SameControl, up',
         \/ Returned(c, conn[c].attached) \/ Returned(c, None) \/ Left(c)
         \/ \E to \in ConnPc : /\ Moved(c, to) /\ (to \in ClosePc <=> conn[c].pc \in ClosePc)
                               /\ to \in SubmitPc \cup PtyPc => conn[c].pc \in SubmitPc \cup PtyPc
                               /\ to \in EphemeralPc =>
                                    \/ conn[c].pc \in EphemeralPc
                                    \/ Ephemeral(conn[c].session)
      PROVE  Control' /\ SparesOthers(c) /\ OthersStay(c)
  <2>1. OthersStay(c)
    BY <1>1 DEF Returned, Left, Moved
  <2> QED
    BY <1>1, <2>1, QuietControl, SameSpares
<1> USE DEF ClosePc, EphemeralPc, SubmitPc, PtyPc, ConnPc
<1>2. CASE \/ SubmitReserve(c) \/ SubmitSpawn(c)
           \/ \E recorded \in BOOLEAN : SubmitAudit(c, recorded)
           \/ \E ok \in BOOLEAN : SubmitBegin(c, ok)
           \/ \E ok \in PersistOutcome : SubmitNotSpawned(c, ok)
  <2>1. conn[c].pc \in SubmitPc /\ up
    BY <1>2 DEF SubmitReserve, SubmitSpawn, SubmitAudit, SubmitBegin, SubmitNotSpawned
  <2>2. conn[c].session = conn[c].attached /\ conn[c].session \in SessionId /\ conn[c].op \in Operation
    BY <2>1, ThreadFacts
  <2>3. SameControl /\ up'
    <3>1. CASE UNCHANGED regvars
      BY <2>1, <3>1, UnchangedControl DEF regvars
    <3>2. CASE ~UNCHANGED regvars
      <4>1. \E ok \in BOOLEAN : \/ begin_execution(conn[c].session, conn[c].op, ok)
                                \/ finish_execution(conn[c].session, conn[c].op, ok)
        BY <1>0, <1>2, <3>2 DEF SubmitReserve, SubmitSpawn, SubmitAudit, SubmitBegin, SubmitNotSpawned
      <4> QED
        BY <1>0, <2>2, <4>1, <3>2, OperationControl DEF begin_execution, finish_execution
    <3> QED
      BY <3>1, <3>2
  <2>4. \/ Returned(c, conn[c].session)
        \/ \E to \in {"submit_audit", "submit_begin", "submit_spawn"} : Moved(c, to)
    BY <1>2, SubmitReserveDoes, SubmitSpawnDoes, SubmitAuditDoes, SubmitBeginDoes,
       SubmitNotSpawnedDoes
  <2> QED
    BY <1>1, <2>1, <2>2, <2>3, <2>4
<1>3. CASE \/ PtyReap(c) \/ PtyAdmit(c) \/ PtySpawn(c) \/ PtyInsert(c)
           \/ \E recorded \in BOOLEAN : PtyAudit(c, recorded)
           \/ \E ok \in BOOLEAN : PtyBegin(c, ok)
           \/ \E ok \in PersistOutcome : PtySpawnFails(c, ok) \/ PtyInsertRefused(c, ok)
  <2>1. conn[c].pc \in PtyPc /\ up
    BY <1>3 DEF PtyReap, PtyAdmit, PtySpawn, PtyInsert, PtyAudit, PtyBegin, PtySpawnFails,
       PtyInsertRefused, Step
  <2>2. conn[c].session = conn[c].attached /\ conn[c].session \in SessionId /\ conn[c].op \in Operation
    BY <2>1, ThreadFacts
  <2>3. SameControl /\ up'
    <3>1. CASE UNCHANGED regvars
      BY <2>1, <3>1, UnchangedControl DEF regvars
    <3>2. CASE ~UNCHANGED regvars
      <4>1. \E ok \in BOOLEAN : \/ begin_execution(conn[c].session, conn[c].op, ok)
                                \/ finish_execution(conn[c].session, conn[c].op, ok)
        BY <1>0, <1>3, <3>2 DEF PtyReap, PtyAdmit, PtySpawn, PtyInsert, PtyAudit, PtyBegin,
           PtySpawnFails, PtyInsertRefused
      <4> QED
        BY <1>0, <2>2, <4>1, <3>2, OperationControl DEF begin_execution, finish_execution
    <3> QED
      BY <3>1, <3>2
  <2>4. \/ Returned(c, conn[c].session)
        \/ \E to \in {"pty_admit", "pty_audit", "pty_begin", "pty_spawn", "pty_insert"} : Moved(c, to)
    BY <1>3, PtyReapDoes, PtyWaitsDo, PtyBeginDoes, PtySpawnDoes, PtyInsertDoes,
       PtySpawnFailsDoes, PtyInsertRefusedDoes
  <2> QED
    BY <1>1, <2>1, <2>2, <2>3, <2>4
<1>4. CASE \/ DetachSnapshot(c) \/ DetachCancel(c) \/ DetachTerminate(c) \/ DetachWait(c)
           \/ CloseTerminate(c) \/ CloseWait(c) \/ CloseCancel(c) \/ PtyCloseWait(c)
  <2>1. SameControl /\ up'
    <3>1. UNCHANGED regvars /\ up
      BY <1>4 DEF DetachSnapshot, DetachCancel, DetachTerminate, DetachWait, CloseTerminate,
         CloseWait, CloseCancel, PtyCloseWait, Step
    <3> QED
      BY <3>1, UnchangedControl DEF regvars
  <2>2. CASE DetachSnapshot(c)
    <3>1. /\ conn[c].pc = "detach_snapshot"
          /\ \/ Left(c) \/ Returned(c, None)
             \/ Moved(c, "detach_registry")
             \/ Moved(c, "detach_cancel") /\ Ephemeral(conn[c].session)
      BY <2>2, DetachSnapshotDoes DEF Ephemeral
    <3> QED
      BY <1>1, <2>1, <3>1
  <2>3. CASE DetachCancel(c)
    BY <1>1, <2>1, <2>3, DetachCancelDoes
  <2>4. CASE DetachTerminate(c) \/ CloseTerminate(c)
    BY <1>1, <2>1, <2>4, TerminateDoes
  <2>5. CASE DetachWait(c) \/ CloseWait(c)
    BY <1>1, <2>1, <2>5, WaitDoes
  <2>6. CASE CloseCancel(c)
    BY <1>1, <2>1, <2>6, CloseCancelDoes
  <2>7. CASE PtyCloseWait(c)
    <3>1. conn[c].session = conn[c].attached
      BY <2>7, ThreadFacts DEF PtyCloseWait
    <3> QED
      BY <1>1, <2>1, <2>7, <3>1, PtyCloseWaitDoes
  <2> QED
    BY <1>4, <2>2, <2>3, <2>4, <2>5, <2>6, <2>7
<1> QED
  BY <1>2, <1>3, <1>4, DetachOwns DEF Handler

\* A step that moves no connection and touches no controller.
LEMMA SameControlKept == ASSUME Control, SameControl, conn' = conn, up' PROVE Control'
<1> SUFFICES ASSUME NEW c \in Client, NEW s \in SessionId PROVE ControlOf(c, s)'
  BY DEF Control
<1>1. /\ ControlOf(c, s) /\ issued' = issued /\ (sessions'[s] # None <=> Live(s))
      /\ Live(s) => /\ sessions'[s].attachments = sessions[s].attachments
                    /\ sessions'[s].snapshot.persistence = sessions[s].snapshot.persistence
  BY DEF Control, SameControl
<1> QED
  BY <1>1 DEF ControlOf, Holds, Ephemeral, Live

\* The workers touch no controller.
LEMMA WorkerControl ==
  ASSUME DaemonInv, Control, NEW o \in Operation, TurnWorker(o) \/ JobWorker(o)
  PROVE  Control' /\ SameControl /\ conn' = conn /\ up /\ up'
<1> USE DEF DaemonInv
<1>0. TypeOK /\ PersistOutcome \subseteq BOOLEAN
  BY OutcomeType DEF IInv
<1>1. conn' = conn
  BY DEF TurnWorker, TurnRuns, RuntimeFails, TurnConcludes, TurnPersists, TurnEnds, JobWorker,
     JobExits, JobFinishes
<1>2. SameControl /\ up /\ up'
  <2>1. CASE UNCHANGED regvars /\ up
    BY <2>1, UnchangedControl DEF regvars
  <2>2. ASSUME NEW ok \in PersistOutcome, JobFinishes(o, ok) PROVE SameControl /\ up /\ up'
    <3>1. job[o].session \in SessionId
      BY <2>2 DEF JobFinishes, Threads, OneRole, DaemonTypes, JobType, Job
    <3>2. finish_execution(job[o].session, o, ok) /\ ok \in BOOLEAN
      BY <1>0, <2>2 DEF JobFinishes
    <3>3. up /\ up'
      BY <3>2 DEF finish_execution, regvars
    <3> QED
      BY <1>0, <3>1, <3>2, <3>3, OperationControl
  <2>3. ASSUME NEW h \in TurnResults(turn[o].history, o), NEW ok \in PersistOutcome,
               TurnPersists(o, h, ok)
        PROVE  SameControl /\ up /\ up'
    <3>i. PICK s \in SessionId : s = turn[o].session
      BY <2>3 DEF TurnPersists, Threads, OneRole, DaemonTypes, TurnType, Turn
    <3>1. CASE ~(Live(s) /\ turn[o].cwd \in directories)
      <4>1. UNCHANGED regvars /\ up
        BY <2>3, <3>i, <3>1 DEF TurnPersists
      <4> QED
        BY <2>1, <4>1
    <3>2. CASE Live(s) /\ turn[o].cwd \in directories
      <4>1. update_execution_state(s, o, turn[o].cwd, h, ok)
        BY <2>3, <3>i, <3>2 DEF TurnPersists
      <4>2. h \in Seq(Message)
        <5>1. IsFiniteSet(settled)
          <6>1. settled \subseteq Begun /\ IsFiniteSet(Begun)
            BY <1>0 DEF Begun, HistoryInv, IInv, MemoryInv, SettledAccepted, TypeOK
          <6> QED
            BY <6>1, FS_Subset
        <5>2. /\ settled \subseteq Operation /\ concluded \subseteq settled
              /\ Says(turn[o].history, settled, concluded) /\ Silent(turn[o].history, o)
              /\ turn[o].history \in Seq(Message)
          BY <1>0, <2>3 DEF IInv, MemoryInv, TypeOK, Calls, DaemonTypes, TurnType, Turn
        <5>3. h \in TurnHistories(o)
          BY <5>1, <5>2, TurnResultsSay
        <5> QED
          BY <1>0, <5>3, TurnHistoriesType
      <4>3. turn[o].cwd \in Directory
        BY <1>0, <3>2 DEF TypeOK
      <4>4. /\ sessions' = [sessions EXCEPT ![s] = WithState(@, turn[o].cwd, h)]
            /\ issued' = issued /\ up /\ up'
        BY <4>1 DEF update_execution_state
      <4> QED
        BY <1>0, <3>2, <4>2, <4>3, <4>4, WithStateControl
    <3> QED
      BY <3>1, <3>2
  <2> QED
    BY <2>1, <2>2, <2>3 DEF TurnWorker, TurnRuns, RuntimeFails, TurnConcludes, TurnEnds,
       JobWorker, JobExits
<1> QED
  BY <1>1, <1>2, SameControlKept

\* Shutdown, the end of the process, a restart and the host's directories.
LEMMA LifeControl ==
  ASSUME DaemonInv, Control, Shutdown \/ Stop \/ Restart \/ Environment
  PROVE  Control'
<1> USE DEF DaemonInv
<1>1. CASE Shutdown \/ Environment
  <2>1. UNCHANGED <<up, sessions, issued, conn>>
    BY <1>1 DEF Shutdown, StopAdmission, CancelActive, StopPtys, DrainPtys, Environment,
       RemoveDirectory, MakeDirectory, daemon, ghosts, regvars
  <2> QED
    BY <2>1 DEF Control, ControlOf, Holds, Ephemeral, Live
<1>2. CASE Stop
  <2>1. \A c \in Client : /\ conn'[c].attached = None /\ conn'[c].session = None
                          /\ conn'[c].next = None
    BY <1>2, StopDoes
  <2>2. \A s \in SessionId : s # None
    BY NoneAssumption
  <2> QED
    BY <2>1, <2>2 DEF Control, ControlOf, Holds
<1>3. CASE Restart
  <2>1. ~up /\ up' /\ conn' = conn
    BY <1>3 DEF Restart, load, daemon
  <2>2. \A c \in Client : conn[c].pc = "idle"
    BY <2>1 DEF Calls, DownIsIdle
  <2>3. \A c \in Client : conn[c].session = None
    BY <2>2, ThreadFacts
  <2>4. \A c \in Client, s \in SessionId : s # None /\ ~Holds(c, s)
    BY <2>1, NoneAssumption DEF Control
  <2> QED
    BY <2>1, <2>3, <2>4 DEF Control, ControlOf, Holds
<1> QED
  BY <1>1, <1>2, <1>3

-----------------------------------------------------------------------------
(***************************************************************************)
(* Turns.  A turn that runs is its session's active one, unless it has     *)
(* been cancelled and the session is gone or about to be: its only         *)
(* controller is on the way out.  So a controller that finds no active     *)
(* turn knows that none runs.                                              *)
(***************************************************************************)

Leaving(c, s) ==
  /\ conn[c].session = s /\ Ephemeral(s)
  /\ conn[c].pc \in {"detach_terminate", "detach_wait", "detach_registry"}

Known(o, s) ==
  TurnAlive(o) /\ turn[o].session = s =>
    /\ s \in issued
    /\ \/ active[s] = o
       \/ turn[o].cancelled /\ (~Live(s) \/ \E c \in Client : Leaving(c, s))

Reserves(c, s) ==
  conn[c].session = s =>
    /\ conn[c].pc \in ReservedPc => active[s] = conn[c].op
    /\ conn[c].pc \in PtyPc => \A o \in Operation : ~(TurnAlive(o) /\ turn[o].session = s)
    /\ Leaving(c, s) => active[s] = None

Turns ==
  /\ \A o \in Operation, s \in SessionId : Known(o, s)
  /\ \A c \in Client, s \in SessionId : Reserves(c, s)

\* Who leaves holds the session.
LEMMA LeavingHolds ==
  ASSUME NEW c \in Client, NEW s \in SessionId, Leaving(c, s)
  PROVE  Holds(c, s) /\ Live(s)
BY DEF Leaving, Holds, Ephemeral, ClosePc

\* A controller that is not leaving and sees no active turn knows that none runs.
LEMMA NoneRuns ==
  ASSUME IInv, Control, Turns, NEW c \in Client, NEW s \in SessionId, Live(s), Holds(c, s),
         ~Leaving(c, s), NEW o \in Operation, TurnAlive(o), turn[o].session = s
  PROVE  active[s] = o
<1>1. ASSUME NEW d \in Client, Leaving(d, s) PROVE FALSE
  BY <1>1, LeavingHolds, Exclusive
<1> QED
  BY <1>1 DEF Turns, Known

\* What x does to turns and active entries, if it cannot mislead the others.
LEMMA TurnsStep ==
  ASSUME Control, Turns, NEW x \in Client \cup {None}, OthersStay(x), SparesOthers(x),
         \A o \in Operation, s \in SessionId : TurnAlive(o)' /\ turn'[o].session = s =>
           \/ active'[s] = o /\ s \in issued
           \/ /\ TurnAlive(o) /\ turn[o].session = s /\ (turn[o].cancelled => turn'[o].cancelled)
              /\ active[s] = o =>
                   \/ active'[s] = o
                   \/ /\ turn'[o].cancelled
                      /\ ~Live(s)' \/ \E c \in Client : Leaving(c, s)',
         \A d \in Client \ {x}, s \in SessionId : conn[d].session = s =>
           /\ conn[d].pc \in ReservedPc => active'[s] = active[s]
           /\ Leaving(d, s) => active'[s] \in {None, active[s]}
           /\ conn[d].pc \in PtyPc => \A o \in Operation : TurnAlive(o)' /\ turn'[o].session = s =>
                                        TurnAlive(o) /\ turn[o].session = s,
         \A c \in Client, s \in SessionId : c = x =>
           Reserves(c, s)' /\ (Leaving(c, s) => Leaving(c, s)' \/ ~Live(s)')
  PROVE  Turns'
<1>1. ASSUME NEW c \in Client, NEW s \in SessionId, Leaving(c, s)
      PROVE  Leaving(c, s)' \/ ~Live(s)'
  <2>1. s \in issued
    BY <1>1, LeavingHolds DEF Control, ControlOf
  <2>2. c # x => conn'[c] = conn[c]
    BY DEF OthersStay
  <2>3. Live(s)' => Live(s) /\ sessions'[s].snapshot.persistence = sessions[s].snapshot.persistence
    BY <2>1 DEF SparesOthers, Live
  <2> QED
    BY <1>1, <2>2, <2>3 DEF Leaving, Ephemeral
<1>2. ASSUME NEW o \in Operation, NEW s \in SessionId PROVE Known(o, s)'
  <2>1. s \in issued => s \in issued' /\ (~Live(s) => ~Live(s)')
    BY DEF SparesOthers, Live
  <2>2. Known(o, s)
    BY DEF Turns
  <2>3. \A c \in Client : Leaving(c, s) => Leaving(c, s)' \/ ~Live(s)'
    BY <1>1
  <2> SUFFICES ASSUME TurnAlive(o)', turn'[o].session = s
               PROVE  /\ s \in issued'
                      /\ \/ active'[s] = o
                         \/ turn'[o].cancelled /\ (~Live(s)' \/ \E c \in Client : Leaving(c, s)')
    BY DEF Known
  <2>4. CASE active'[s] = o /\ s \in issued
    BY <2>1, <2>4
  <2>5. CASE /\ TurnAlive(o) /\ turn[o].session = s /\ (turn[o].cancelled => turn'[o].cancelled)
             /\ active[s] = o =>
                   \/ active'[s] = o
                   \/ /\ turn'[o].cancelled
                      /\ ~Live(s)' \/ \E c \in Client : Leaving(c, s)'
    BY <2>1, <2>2, <2>3, <2>5 DEF Known
  <2> QED
    BY <2>4, <2>5
<1>3. ASSUME NEW d \in Client, d # x, NEW s \in SessionId PROVE Reserves(d, s)'
  <2>1. conn'[d] = conn[d] /\ Reserves(d, s) /\ ControlOf(d, s)
    BY <1>3 DEF OthersStay, Turns, Control
  <2>2. Leaving(d, s)' => Leaving(d, s)
    <3>1. SUFFICES ASSUME Leaving(d, s)' PROVE Leaving(d, s)
      OBVIOUS
    <3>2. Holds(d, s)
      BY <2>1, <3>1 DEF Leaving, Holds, ClosePc
    <3>3. Live(s)' => Live(s) /\ sessions'[s].snapshot.persistence = sessions[s].snapshot.persistence
      BY <2>1, <3>2 DEF ControlOf, SparesOthers, Live
    <3> QED
      BY <2>1, <3>1, <3>3 DEF Leaving, Ephemeral
  <2> QED
    BY <1>3, <2>1, <2>2 DEF Reserves
<1> QED
  BY <1>2, <1>3 DEF Turns

\* Connection c goes on and no turn starts or is released.
LEMMA TurnsQuiet ==
  ASSUME Control, Turns, NEW c \in Client, OthersStay(c), SparesOthers(c), active' = active,
         \A o \in Operation : TurnAlive(o)' =>
           /\ TurnAlive(o) /\ turn'[o].session = turn[o].session
           /\ turn[o].cancelled => turn'[o].cancelled,
         \A s \in SessionId : Reserves(c, s)' /\ (Leaving(c, s) => Leaving(c, s)' \/ ~Live(s)')
  PROVE  Turns'
<1>1. \A o \in Operation, s \in SessionId : TurnAlive(o)' /\ turn'[o].session = s =>
        /\ TurnAlive(o) /\ turn[o].session = s /\ (turn[o].cancelled => turn'[o].cancelled)
        /\ active[s] = o => active'[s] = o
  OBVIOUS
<1> QED
  BY <1>1, TurnsStep

\* A request starts no turn, and a terminal start finds none.
LEMMA RequestTurns ==
  ASSUME DaemonInv, Control, Turns, NEW c \in Client, Requests(c)
  PROVE  Turns'
<1> USE DEF DaemonInv
<1>0. /\ SparesOthers(c) /\ OthersStay(c) /\ TypeOK /\ TurnType
      /\ \A s \in SessionId : s # None
  BY RequestControl, NoneAssumption DEF IInv, DaemonTypes
<1>1. ASSUME conn[c].pc = "idle", active' = active,
             conn'[c].pc \in {"idle", "gone", "detach_snapshot", "close_terminate",
                              "ptyclose_wait", "submit_reserve", "pty_reap"},
             \A o \in Operation : TurnAlive(o)' =>
               /\ TurnAlive(o) /\ turn'[o].session = turn[o].session
               /\ turn[o].cancelled => turn'[o].cancelled,
             \A s \in SessionId : conn'[c].session = s /\ conn'[c].pc = "pty_reap" =>
               \A o \in Operation : ~(TurnAlive(o) /\ turn[o].session = s)
      PROVE  Turns'
  <2>1. ASSUME NEW s \in SessionId
        PROVE  Reserves(c, s)' /\ (Leaving(c, s) => Leaving(c, s)' \/ ~Live(s)')
    BY <1>1 DEF Reserves, Leaving, ReservedPc, PtyPc
  <2> QED
    BY <1>0, <1>1, <2>1, TurnsQuiet
<1>2. ASSUME turn' = turn, active' = active, conn[c].pc = "idle",
             conn'[c].pc \in {"idle", "gone", "detach_snapshot", "close_terminate",
                              "ptyclose_wait"}
      PROVE  Turns'
  BY <1>1, <1>2 DEF TurnAlive
<1>3. ASSUME NEW id \in SessionId, NEW n \in Name, NEW p \in PersistenceMode,
             NEW d \in Directory, NEW h \in ClientHistories, NEW ok \in PersistOutcome,
             CreateRequest(c, id, n, p, d, h, ok)
      PROVE  Turns'
  <2>1. conn[c].pc = "idle"
    BY <1>3 DEF CreateRequest
  <2> QED
    BY <1>2, <1>3, <2>1, CreateDoes DEF Attaches, LetsGo
<1>4. ASSUME NEW selector \in SessionId \cup Name, NEW s \in SessionId,
             \/ AttachRequest(c, selector, s) \/ SwitchRequest(c, selector, s)
             \/ \E ok \in PersistOutcome : CloseRequest(c, selector, s, ok)
      PROVE  Turns'
  <2>1. conn[c].pc = "idle" /\ PersistOutcome \subseteq BOOLEAN
    BY <1>4, OutcomeType DEF AttachRequest, SwitchRequest, CloseRequest
  <2>2. turn' = turn /\ active' = active
    BY <1>4 DEF AttachRequest, SwitchRequest, CloseRequest
  <2>3. CASE AttachRequest(c, selector, s) \/ SwitchRequest(c, selector, s)
    <3>1. Attaches(c, s) \/ LetsGo(c, s, FALSE)
      BY <2>3, AttachDoes
    <3> QED
      BY <1>2, <2>1, <2>2, <3>1 DEF Attaches, LetsGo
  <2>4. CASE \E ok \in PersistOutcome : CloseRequest(c, selector, s, ok)
    <3>1. conn'[c].pc \in {"close_terminate", "idle"}
      BY <2>1, <2>4, CloseDoes
    <3> QED
      BY <1>2, <2>1, <2>2, <3>1
  <2> QED
    BY <1>4, <2>3, <2>4
<1>5. CASE DetachRequest(c) \/ Disconnect(c)
  BY <1>2, <1>5, LeaveDoes DEF Left, LetsGo
<1>6. CASE \/ \E d \in Directory, h \in ClientHistories, ok \in PersistOutcome :
                UpdateRequest(c, d, h, ok)
           \/ PtyCloseRequest(c)
  <2>1. conn[c].pc = "idle" /\ turn' = turn /\ active' = active
        /\ (conn' = conn \/ PtyCloseRequest(c))
    BY <1>6 DEF UpdateRequest, PtyCloseRequest, daemon
  <2> QED
    BY <1>2, <2>1, PtyCloseDoes
<1>7. CASE CancelRequest(c)
  <2>1. conn[c].pc = "idle" /\ active' = active /\ conn' = conn /\ TurnsCancelled
    BY <1>7, CancelRequestDoes DEF CancelRequest
  <2> QED
    BY <1>1, <2>1 DEF TurnsCancelled, TurnAlive
<1>8. ASSUME NEW o \in Operation, SubmitSnapshot(c, o) PROVE Turns'
  <2>1. /\ conn[c].pc = "idle" /\ active' = active /\ conn'[c].pc = "submit_reserve"
        /\ TurnsStay(o) /\ turn'[o].stage = "submitting"
    BY <1>0, <1>8, SubmitSnapshotDoes DEF SubmitSnapshot, Begins
  <2>2. \A q \in Operation : TurnAlive(q)' => turn'[q] = turn[q]
    BY <2>1 DEF TurnsStay, TurnAlive
  <2> QED
    BY <1>1, <2>1, <2>2 DEF TurnAlive
<1>9. ASSUME NEW o \in Operation, PtyStartRequest(c, o) PROVE Turns'
  <2>1. /\ conn[c].pc = "idle" /\ active' = active /\ turn' = turn
        /\ conn[c].attached # None /\ active[conn[c].attached] = None /\ Live(conn[c].attached)
        /\ conn'[c].pc = "pty_reap" /\ conn'[c].session = conn[c].attached
    BY <1>9, PtyStartDoes DEF PtyStartRequest, Begins
  <2>i. PICK s \in SessionId : s = conn[c].attached
    BY <2>1, ThreadFacts
  <2>2. ASSUME NEW q \in Operation, TurnAlive(q), turn[q].session = s PROVE FALSE
    <3>1. Holds(c, s) /\ ~Leaving(c, s)
      BY <2>1, <2>i DEF Holds, Leaving
    <3>2. active[s] = q
      BY <2>1, <2>2, <2>i, <3>1, NoneRuns
    <3> QED
      BY <2>1, <2>i, <3>2, NoneAssumption
  <2> QED
    BY <1>1, <2>1, <2>i, <2>2 DEF TurnAlive
<1> QED
  BY <1>3, <1>4, <1>5, <1>6, <1>7, <1>8, <1>9 DEF Requests

\* A submission starts a turn only as the session's active one.
LEMMA SubmitTurns ==
  ASSUME DaemonInv, Control, Turns, NEW c \in Client, SparesOthers(c), OthersStay(c),
         \/ SubmitReserve(c) \/ SubmitSpawn(c)
         \/ \E recorded \in BOOLEAN : SubmitAudit(c, recorded)
         \/ \E ok \in BOOLEAN : SubmitBegin(c, ok)
         \/ \E ok \in PersistOutcome : SubmitNotSpawned(c, ok)
  PROVE  Turns'
<1> USE DEF DaemonInv
<1>0. conn[c].pc \in SubmitPc /\ TurnType /\ ActiveType
  BY DEF SubmitReserve, SubmitSpawn, SubmitAudit, SubmitBegin, SubmitNotSpawned, SubmitPc,
     DaemonTypes
<1>i. PICK s \in SessionId, o \in Operation : s = conn[c].session /\ o = conn[c].op
  BY <1>0, ThreadFacts
<1>1. /\ Live(s) /\ Holds(c, s) /\ s \in issued /\ turn[o].stage = "submitting"
      /\ turn[o].session = s /\ Reserves(c, s)
  BY <1>0, <1>i DEF Control, ControlOf, Holds, SubmitPc, ClosePc, Threads, Starting, Turns
<1>2. \A t \in SessionId : t # None /\ ~Leaving(c, t)
  BY <1>0, NoneAssumption DEF Leaving, SubmitPc
<1>3. ASSUME active' = active, NEW to \in {"idle", "submit_begin", "submit_spawn"},
             conn'[c].pc = to,
             to # "idle" => /\ conn[c].pc \in ReservedPc /\ conn'[c].op = o
                            /\ conn'[c].session = s,
             to = "idle" => conn'[c].session = None,
             \A q \in Operation : TurnAlive(q)' => turn'[q] = turn[q]
      PROVE  Turns'
  <2>1. ASSUME NEW t \in SessionId PROVE Reserves(c, t)'
    BY <1>1, <1>2, <1>3, <1>i DEF Reserves, Leaving, PtyPc, ReservedPc
  <2> QED
    BY <1>2, <1>3, <2>1, TurnsQuiet DEF TurnAlive
<1>4. ASSUME Returned(c, s), TurnsStay(o), ~TurnAlive(o)',
             \A t \in SessionId \ {s} : active'[t] = active[t],
             active'[s] = IF active[s] = o THEN None ELSE active[s]
      PROVE  Turns'
  <2>1. \A q \in Operation, t \in SessionId : TurnAlive(q)' /\ turn'[q].session = t =>
          /\ TurnAlive(q) /\ turn[q].session = t /\ turn'[q] = turn[q]
          /\ active[t] = q => active'[t] = q
    BY <1>4 DEF TurnsStay, TurnAlive
  <2>2. ASSUME NEW d \in Client \ {c}, NEW t \in SessionId, conn[d].session = t
        PROVE  /\ conn[d].pc \in ReservedPc => active'[t] = active[t]
               /\ Leaving(d, t) => active'[t] \in {None, active[t]}
    <3>1. conn[d].pc \in ReservedPc => active[t] = conn[d].op
      BY <2>2 DEF Turns, Reserves
    <3>2. conn[d].op # o
      BY <1>i, <1>0, ThreadFacts, NoneAssumption DEF Threads, OpsApart
    <3> QED
      BY <1>4, <3>1, <3>2
  <2>3. \A t \in SessionId : Reserves(c, t)'
    BY <1>2, <1>4 DEF Reserves, Returned
  <2> QED
    BY <1>2, <2>1, <2>2, <2>3, TurnsStep
<1>5. CASE SubmitReserve(c)
  <2>1. conn[c].pc = "submit_reserve"
    BY <1>5 DEF SubmitReserve
  <2>2. CASE Returned(c, s) /\ active' = active /\ TurnsStay(o) /\ turn'[o] = NoTurn
    <3>1. ~TurnAlive(o)'
      BY <2>2, NoTurnType DEF TurnAlive
    <3> QED
      BY <1>3, <2>2, <3>1 DEF Returned, TurnsStay
  <2>3. CASE /\ Moved(c, "submit_audit") /\ turn' = turn /\ active[s] = None
             /\ active' = [active EXCEPT ![s] = o]
    <3>0. active'[s] = o /\ \A t \in SessionId \ {s} : active'[t] = active[t]
      BY <1>0, <2>3 DEF ActiveType
    <3>1. \A q \in Operation, t \in SessionId : TurnAlive(q)' /\ turn'[q].session = t =>
            /\ TurnAlive(q) /\ turn[q].session = t /\ turn'[q] = turn[q]
            /\ active[t] = q => active'[t] = q
      BY <2>3, <3>0, NoneAssumption DEF TurnAlive
    <3>2. ASSUME NEW d \in Client \ {c}, NEW t \in SessionId, conn[d].session = t
          PROVE  /\ conn[d].pc \in ReservedPc => active'[t] = active[t]
                 /\ Leaving(d, t) => active'[t] \in {None, active[t]}
      <4>1. t = s => conn[d].pc \notin ReservedPc
        BY <2>3, <3>2, ThreadFacts DEF Turns, Reserves, ReservedPc, SubmitPc
      <4>2. t = s => ~Leaving(d, t)
        BY <1>1, LeavingHolds, Exclusive
      <4> QED
        BY <3>0, <4>1, <4>2
    <3>3. \A t \in SessionId : Reserves(c, t)'
      BY <1>2, <1>i, <2>3, <3>0 DEF Reserves, Leaving, Moved, PtyPc
    <3>4. \A d \in Client \ {c}, t \in SessionId : conn[d].session = t =>
           /\ conn[d].pc \in ReservedPc => active'[t] = active[t]
           /\ Leaving(d, t) => active'[t] \in {None, active[t]}
           /\ conn[d].pc \in PtyPc => \A q \in Operation : TurnAlive(q)' /\ turn'[q].session = t =>
                                        TurnAlive(q) /\ turn[q].session = t
      BY <3>1, <3>2
    <3> QED
      BY <1>2, <3>1, <3>3, <3>4, TurnsStep
  <2> QED
    BY <1>5, <1>i, <2>2, <2>3, SubmitReserveDoes
<1>6. ASSUME Returned(c, s), Unreserve(c) PROVE Turns'
  <2>1. /\ TurnsStay(o) /\ turn'[o] = NoTurn
        /\ \A t \in SessionId \ {s} : active'[t] = active[t]
        /\ active'[s] = IF active[s] = o THEN None ELSE active[s]
    BY <1>0, <1>6, <1>i, UnreserveFields DEF TurnsStay
  <2>2. ~TurnAlive(o)'
    BY <2>1, NoTurnType DEF TurnAlive
  <2> QED
    BY <1>4, <1>6, <2>1, <2>2
<1>7. CASE \/ \E recorded \in BOOLEAN : SubmitAudit(c, recorded)
           \/ \E ok \in BOOLEAN : SubmitBegin(c, ok)
  <2>1. conn[c].pc \in ReservedPc
    BY <1>7 DEF SubmitAudit, SubmitBegin, ReservedPc
  <2>2. \/ Returned(c, s) /\ Unreserve(c)
        \/ \E to \in {"submit_begin", "submit_spawn"} : Moved(c, to) /\ UNCHANGED <<active, turn>>
    BY <1>7, <1>i, SubmitAuditDoes, SubmitBeginDoes
  <2> QED
    BY <1>3, <1>6, <1>i, <2>1, <2>2 DEF Moved
<1>8. ASSUME NEW ok \in PersistOutcome, SubmitNotSpawned(c, ok) PROVE Turns'
  <2>1. Returned(c, s) /\ (Conclude(o) \/ UNCHANGED <<active, turn>>)
    BY <1>8, <1>i, SubmitNotSpawnedDoes
  <2>2. CASE UNCHANGED <<active, turn>>
    BY <1>3, <2>1, <2>2 DEF Returned
  <2>3. CASE Conclude(o)
    <3>1. /\ TurnsStay(o) /\ turn'[o].stage = "over"
          /\ \A t \in SessionId \ {s} : active'[t] = active[t]
          /\ active'[s] = IF active[s] = o THEN None ELSE active[s]
      BY <1>0, <1>1, <2>3, ConcludeFields DEF TurnsStay
    <3> QED
      BY <1>4, <2>1, <3>1 DEF TurnAlive
  <2> QED
    BY <2>1, <2>2, <2>3
<1>9. CASE SubmitSpawn(c)
  <2>1. Returned(c, s) /\ TurnReaches(o, "spawned") /\ active' = active /\ active[s] = o
    BY <1>1, <1>9, <1>i, SubmitSpawnDoes DEF SubmitSpawn, Reserves, ReservedPc
  <2>2. \A q \in Operation, t \in SessionId : TurnAlive(q)' /\ turn'[q].session = t =>
           \/ active'[t] = q /\ t \in issued
           \/ /\ TurnAlive(q) /\ turn[q].session = t /\ turn'[q] = turn[q]
              /\ active[t] = q => active'[t] = q
    BY <1>1, <2>1 DEF TurnReaches, TurnsStay, TurnAlive
  <2>3. ASSUME NEW d \in Client \ {c}, NEW t \in SessionId, conn[d].session = t,
               conn[d].pc \in PtyPc, NEW q \in Operation, TurnAlive(q)', turn'[q].session = t
        PROVE  TurnAlive(q) /\ turn[q].session = t
    <3>1. t # s
      BY <1>1, <2>3, Exclusive DEF Holds, PtyPc, ClosePc
    <3> QED
      BY <1>1, <2>1, <2>3, <3>1 DEF TurnReaches, TurnsStay, TurnAlive
  <2>4. \A t \in SessionId : Reserves(c, t)'
    BY <1>2, <2>1 DEF Reserves, Returned
  <2> QED
    BY <1>2, <2>1, <2>2, <2>3, <2>4, TurnsStep
<1> QED
  BY <1>5, <1>7, <1>8, <1>9

\* The rest of what a connection does only releases or cancels turns.
LEMMA LeaveTurns ==
  ASSUME DaemonInv, Control, Turns, NEW c \in Client, SparesOthers(c), OthersStay(c),
         \/ PtyReap(c) \/ PtyAdmit(c) \/ PtySpawn(c) \/ PtyInsert(c)
         \/ \E recorded \in BOOLEAN : PtyAudit(c, recorded)
         \/ \E ok \in BOOLEAN : PtyBegin(c, ok)
         \/ \E ok \in PersistOutcome : PtySpawnFails(c, ok) \/ PtyInsertRefused(c, ok)
         \/ DetachSnapshot(c) \/ DetachCancel(c) \/ DetachTerminate(c) \/ DetachWait(c)
         \/ CloseTerminate(c) \/ CloseWait(c) \/ CloseCancel(c) \/ PtyCloseWait(c)
         \/ \E ok \in PersistOutcome : DetachRegistry(c, ok)
  PROVE  Turns'
<1> USE DEF DaemonInv
<1>0. /\ TurnType /\ ActiveType /\ TypeOK /\ PersistOutcome \subseteq BOOLEAN
      /\ \A t \in SessionId : t # None
  BY NoneAssumption, OutcomeType DEF DaemonTypes, IInv
<1>i. PICK s \in SessionId : s = conn[c].session
  <2>1. conn[c].pc \notin {"idle", "gone"}
    BY DEF PtyReap, PtyAdmit, PtySpawn, PtyInsert, PtyAudit, PtyBegin, PtySpawnFails,
       PtyInsertRefused, DetachSnapshot, DetachCancel, DetachTerminate, DetachWait,
       CloseTerminate, CloseWait, CloseCancel, PtyCloseWait, DetachRegistry, Step
  <2> QED
    BY <2>1, ThreadFacts
<1>1. Reserves(c, s) /\ ControlOf(c, s)
  BY DEF Turns, Control
<1>2. ASSUME active' = active, turn' = turn,
             \A t \in SessionId : Reserves(c, t)' /\ (Leaving(c, t) => Leaving(c, t)' \/ ~Live(t)')
      PROVE  Turns'
  BY <1>2, TurnsQuiet DEF TurnAlive
<1>3. ASSUME active' = active, turn' = turn, conn[c].pc \in PtyPc \cup {"ptyclose_wait"},
             \/ Returned(c, s)
             \/ conn[c].pc \in PtyPc /\ \E to \in PtyPc : Moved(c, to)
      PROVE  Turns'
  <2>1. ASSUME NEW t \in SessionId PROVE Reserves(c, t)' /\ ~Leaving(c, t)
    BY <1>0, <1>1, <1>3, <1>i DEF Reserves, Leaving, Returned, Moved, TurnAlive, PtyPc, ReservedPc
  <2> QED
    BY <1>2, <1>3, <2>1
<1>4. CASE \/ PtyReap(c) \/ PtyAdmit(c) \/ PtySpawn(c) \/ PtyInsert(c)
           \/ \E recorded \in BOOLEAN : PtyAudit(c, recorded)
           \/ \E ok \in BOOLEAN : PtyBegin(c, ok)
           \/ \E ok \in PersistOutcome : PtySpawnFails(c, ok) \/ PtyInsertRefused(c, ok)
  <2>1. conn[c].pc \in PtyPc /\ active' = active /\ turn' = turn
    BY <1>4 DEF PtyReap, PtyAdmit, PtySpawn, PtyInsert, PtyAudit, PtyBegin, PtySpawnFails,
       PtyInsertRefused, Step, PtyPc
  <2>2. \/ Returned(c, s)
        \/ \E to \in {"pty_admit", "pty_audit", "pty_begin", "pty_spawn", "pty_insert"} : Moved(c, to)
    BY <1>4, <1>i, PtyReapDoes, PtyWaitsDo, PtyBeginDoes, PtySpawnDoes, PtyInsertDoes,
       PtySpawnFailsDoes, PtyInsertRefusedDoes
  <2> QED
    BY <1>3, <2>1, <2>2 DEF PtyPc
<1>5. CASE PtyCloseWait(c)
  BY <1>3, <1>5, <1>i, PtyCloseWaitDoes DEF PtyCloseWait
<1>6. CASE DetachSnapshot(c)
  <2>1. /\ UNCHANGED <<sessions, active, turn>> /\ conn[c].pc = "detach_snapshot"
        /\ \/ Left(c) \/ Returned(c, None) \/ Moved(c, "detach_cancel")
           \/ Moved(c, "detach_registry") /\ ~Ephemeral(s)
    BY <1>6, <1>i, DetachSnapshotDoes DEF Ephemeral, regvars
  <2>2. ASSUME NEW t \in SessionId PROVE Reserves(c, t)' /\ ~Leaving(c, t)
    BY <1>0, <1>i, <2>1 DEF Reserves, Leaving, Ephemeral, Live, Returned, Left, Moved, PtyPc, ReservedPc
  <2> QED
    BY <1>2, <2>1, <2>2
<1>7. CASE DetachTerminate(c) \/ DetachWait(c)
  <2>1. /\ UNCHANGED <<sessions, active, turn>>
        /\ \/ conn[c].pc = "detach_terminate" /\ Moved(c, "detach_wait")
           \/ conn[c].pc = "detach_wait" /\ Moved(c, "detach_registry")
    BY <1>7, TerminateDoes, WaitDoes DEF DetachTerminate, DetachWait, Step, regvars
  <2>2. ASSUME NEW t \in SessionId PROVE Reserves(c, t)' /\ (Leaving(c, t) => Leaving(c, t)')
    BY <1>0, <1>1, <1>i, <2>1 DEF Reserves, Leaving, Ephemeral, Live, Moved, PtyPc, ReservedPc
  <2> QED
    BY <1>2, <2>1, <2>2
<1>8. CASE CloseTerminate(c) \/ CloseWait(c)
  <2>1. /\ UNCHANGED <<active, turn>> /\ conn[c].pc \in ClosePc
        /\ \E to \in ClosePc : Moved(c, to)
    BY <1>8, TerminateDoes, WaitDoes DEF CloseTerminate, CloseWait, Step, ClosePc
  <2>2. ASSUME NEW t \in SessionId PROVE Reserves(c, t)' /\ ~Leaving(c, t)
    BY <2>1 DEF Reserves, Leaving, Moved, PtyPc, ReservedPc, ClosePc
  <2> QED
    BY <1>2, <2>1, <2>2
<1>9. ASSUME NEW ok \in PersistOutcome, DetachRegistry(c, ok) PROVE Turns'
  <2>1. /\ UNCHANGED <<active, turn>> /\ conn'[c].session = None
        /\ conn[c].pc = "detach_registry" /\ detach(c, s, ok)
    BY <1>0, <1>9, <1>i, DetachRegistryDoes DEF DetachRegistry, Left, Returned
  <2>2. ASSUME NEW t \in SessionId, Leaving(c, t) PROVE ~Live(t)'
    <3>1. t = s /\ Live(s) /\ sessions[s].snapshot.persistence = "Ephemeral"
      BY <1>i, <2>2 DEF Leaving, Ephemeral
    <3>2. sessions[s].attachments \subseteq {c}
      BY <1>0, <1>1, <1>i, <2>1, <3>1
         DEF ControlOf, Holds, ClosePc, IInv, MemoryInv, SingleController, TypeOK
    <3>3. sessions'[s] = None
      BY <1>0, <2>1, <3>1, <3>2, DetachControl
    <3> QED
      BY <3>1, <3>3 DEF Live
  <2>3. \A t \in SessionId : Reserves(c, t)'
    BY <1>0, <2>1 DEF Reserves
  <2> QED
    BY <1>2, <2>1, <2>2, <2>3
<1>10. CASE DetachCancel(c) \/ CloseCancel(c)
  <2>1. /\ cancel_and_remove(s) /\ UNCHANGED <<sessions, issued>>
        /\ \/ conn[c].pc = "detach_cancel" /\ Moved(c, "detach_terminate")
           \/ conn[c].pc = "close_cancel" /\ \E t : Returned(c, t)
    BY <1>10, <1>i, DetachCancelDoes, CloseCancelDoes DEF DetachCancel, CloseCancel, regvars, ghosts
  <2>2. /\ active'[s] = None
        /\ \A t \in SessionId \ {s} : active'[t] = active[t]
        /\ \A o \in Operation :
              /\ turn'[o].stage = turn[o].stage /\ turn'[o].session = turn[o].session
              /\ turn'[o].cancelled = (turn[o].cancelled \/ active[s] = o)
    BY <1>0, <2>1, CancelFields DEF ActiveType
  <2>3. ~Live(s)' \/ Leaving(c, s)'
    BY <1>1, <1>i, <2>1 DEF ControlOf, EphemeralPc, ClosePc, Leaving, Ephemeral, Live, Moved
  <2>4. \A o \in Operation, t \in SessionId : TurnAlive(o)' /\ turn'[o].session = t =>
           /\ TurnAlive(o) /\ turn[o].session = t /\ (turn[o].cancelled => turn'[o].cancelled)
           /\ active[t] = o =>
                \/ active'[t] = o
                \/ turn'[o].cancelled /\ (~Live(t)' \/ \E d \in Client : Leaving(d, t)')
    BY <2>2, <2>3 DEF TurnAlive
  <2>5. ASSUME NEW d \in Client \ {c}, NEW t \in SessionId, conn[d].session = t,
               conn[d].pc \in ReservedPc
        PROVE  active'[t] = active[t]
    <3>1. Live(t) /\ Holds(d, t)
      BY <2>5 DEF Control, ControlOf, Holds, ReservedPc, SubmitPc, ClosePc
    <3>2. t = s => Holds(c, s)
      BY <1>1, <1>i, <2>1, <3>1 DEF Holds, ControlOf, ClosePc
    <3>3. t # s
      BY <3>1, <3>2, Exclusive
    <3> QED
      BY <2>2, <3>3
  <2>6. \A t \in SessionId : Reserves(c, t)' /\ ~Leaving(c, t)
    BY <1>0, <1>i, <2>1, <2>2 DEF Reserves, Returned, Moved, Leaving, ReservedPc, PtyPc
  <2>7. \A d \in Client \ {c}, t \in SessionId : conn[d].session = t =>
           /\ conn[d].pc \in ReservedPc => active'[t] = active[t]
           /\ Leaving(d, t) => active'[t] \in {None, active[t]}
           /\ conn[d].pc \in PtyPc => \A q \in Operation : TurnAlive(q)' /\ turn'[q].session = t =>
                                        TurnAlive(q) /\ turn[q].session = t
    BY <2>2, <2>4, <2>5
  <2> QED
    BY <2>4, <2>6, <2>7, TurnsStep
<1> QED
  BY <1>4, <1>5, <1>6, <1>7, <1>8, <1>9, <1>10

\* A turn's worker advances it or releases it; a job's leaves turns alone.
LEMMA WorkerTurns ==
  ASSUME DaemonInv, Control, Turns, NEW o \in Operation, TurnWorker(o) \/ JobWorker(o)
  PROVE  Turns'
<1> USE DEF DaemonInv
<1>0. TurnType /\ ActiveType /\ SameControl /\ conn' = conn /\ directories \subseteq Directory
  BY WorkerControl DEF DaemonTypes, IInv, TypeOK
<1>1. OthersStay(None) /\ SparesOthers(None) /\ None \notin Client
  BY <1>0, SameSpares, NoneAssumption DEF OthersStay
<1>2. ASSUME active' = active,
             \A q \in Operation : TurnAlive(q)' =>
               /\ TurnAlive(q) /\ turn'[q].session = turn[q].session
               /\ turn'[q].cancelled = turn[q].cancelled
      PROVE  Turns'
  <2>1. \A q \in Operation, s \in SessionId : TurnAlive(q)' /\ turn'[q].session = s =>
          /\ TurnAlive(q) /\ turn[q].session = s /\ (turn[q].cancelled => turn'[q].cancelled)
          /\ active[s] = q => active'[s] = q
    BY <1>2
  <2> QED
    BY <1>1, <1>2, <2>1, TurnsStep
<1>3. CASE JobWorker(o)
  BY <1>2, <1>3, JobWorkerDoes DEF TurnAlive
<1>4. CASE TurnWorker(o)
  <2>i. PICK s \in SessionId : s = turn[o].session
    BY <1>0, <1>4, TurnWorkerDoes
  <2>1. CASE \E stage \in TurnStage : active' = active /\ TurnReaches(o, stage)
    <3>1. TurnAlive(o)
      BY <1>0, <1>4, TurnWorkerDoes
    <3> QED
      BY <1>2, <2>1, <3>1 DEF TurnReaches, TurnsStay, TurnAlive
  <2>2. CASE Conclude(o)
    <3>1. /\ TurnsStay(o) /\ turn'[o].stage = "over"
          /\ \A t \in SessionId \ {s} : active'[t] = active[t]
          /\ active'[s] = IF active[s] = o THEN None ELSE active[s]
      BY <1>0, <2>2, <2>i, ConcludeFields DEF TurnsStay
    <3>2. \A q \in Operation, t \in SessionId : TurnAlive(q)' /\ turn'[q].session = t =>
            /\ TurnAlive(q) /\ turn[q].session = t /\ turn'[q] = turn[q]
            /\ active[t] = q => active'[t] = q
      BY <3>1 DEF TurnsStay, TurnAlive
    <3>3. ASSUME NEW d \in Client, NEW t \in SessionId, conn[d].session = t
          PROVE  /\ conn[d].pc \in ReservedPc => active'[t] = active[t]
                 /\ Leaving(d, t) => active'[t] \in {None, active[t]}
      <4>1. TurnAlive(o)
        BY <1>0, <1>4, TurnWorkerDoes
      <4>2. conn[d].pc \in ReservedPc => conn[d].op # o /\ active[t] = conn[d].op
        BY <3>3, <4>1 DEF Turns, Reserves, Threads, Starting, ReservedPc, SubmitPc, TurnAlive
      <4> QED
        BY <3>1, <4>2
    <3>4. \A d \in Client \ {None}, t \in SessionId : conn[d].session = t =>
           /\ conn[d].pc \in ReservedPc => active'[t] = active[t]
           /\ Leaving(d, t) => active'[t] \in {None, active[t]}
           /\ conn[d].pc \in PtyPc => \A q \in Operation : TurnAlive(q)' /\ turn'[q].session = t =>
                                        TurnAlive(q) /\ turn[q].session = t
      BY <3>2, <3>3
    <3> QED
      BY <1>1, <3>2, <3>4, TurnsStep
  <2>3. \/ Conclude(o)
        \/ \E stage \in TurnStage : active' = active /\ TurnReaches(o, stage)
    BY <1>0, <1>4, TurnWorkerDoes DEF TurnStage
  <2> QED
    BY <2>1, <2>2, <2>3
<1> QED
  BY <1>3, <1>4

\* Nothing in the daemon's own life starts a turn.
LEMMA LifeTurns ==
  ASSUME DaemonInv, Control, Turns, Shutdown \/ Stop \/ Restart \/ Environment
  PROVE  Turns'
<1> USE DEF DaemonInv
<1>1. CASE Shutdown \/ Environment
  <2>1. UNCHANGED <<sessions, issued, conn, active>>
    BY <1>1 DEF Shutdown, StopAdmission, CancelActive, StopPtys, DrainPtys, Environment,
       RemoveDirectory, MakeDirectory, daemon, ghosts, regvars
  <2>2. \A o \in Operation :
          /\ turn'[o].stage = turn[o].stage /\ turn'[o].session = turn[o].session
          /\ turn[o].cancelled => turn'[o].cancelled
    <3>1. CASE CancelActive
      BY <3>1, CancelActiveDoes DEF TurnsCancelled
    <3>2. CASE ~CancelActive
      BY <1>1, <3>2 DEF Shutdown, StopAdmission, StopPtys, DrainPtys, Environment, daemon
    <3> QED
      BY <3>1, <3>2
  <2>3. SameControl
    BY <2>1 DEF SameControl, Live
  <2>4. OthersStay(None) /\ SparesOthers(None) /\ None \notin Client
    BY <2>1, <2>3, SameSpares, NoneAssumption DEF OthersStay
  <2>5. \A q \in Operation, s \in SessionId : TurnAlive(q)' /\ turn'[q].session = s =>
          /\ TurnAlive(q) /\ turn[q].session = s /\ (turn[q].cancelled => turn'[q].cancelled)
          /\ active[s] = q => active'[s] = q
    BY <2>1, <2>2 DEF TurnAlive
  <2> QED
    BY <2>1, <2>4, <2>5, TurnsStep
<1>2. CASE Stop
  <2>1. /\ \A c \in Client : conn'[c].session = None
        /\ \A o \in Operation : ~TurnAlive(o)'
    BY <1>2, StopDoes DEF TurnAlive
  <2> QED
    BY <2>1, NoneAssumption DEF Turns, Known, Reserves
<1>3. CASE Restart
  <2>1. ~up /\ UNCHANGED <<conn, turn>>
    BY <1>3 DEF Restart, load, daemon
  <2>2. /\ \A c \in Client : conn[c].pc = "idle"
        /\ \A o \in Operation : ~TurnAlive(o)'
    BY <2>1 DEF Calls, DownIsIdle, TurnAlive
  <2>3. \A c \in Client : conn'[c].session = None
    BY <2>1, <2>2, ThreadFacts
  <2> QED
    BY <2>2, <2>3, NoneAssumption DEF Turns, Known, Reserves
<1> QED
  BY <1>1, <1>2, <1>3

\* Every step of the daemon keeps who controls what, and where turns can be.
LEMMA TurnsNext ==
  ASSUME DaemonInv, Control, Turns, [DaemonNext]_vars
  PROVE  Control' /\ Turns'
<1>1. CASE UNCHANGED vars
  <2>1. UNCHANGED <<up, sessions, issued, conn, active, turn>>
    BY <1>1 DEF vars, daemon, regvars, ghosts
  <2>2. Control'
    BY <2>1 DEF Control, ControlOf, Holds, Ephemeral, Live
  <2>3. Turns'
    BY <2>1 DEF Turns, Known, Reserves, Leaving, Ephemeral, Live, TurnAlive
  <2> QED
    BY <2>2, <2>3
<1>2. ASSUME NEW c \in Client, Handler(c) PROVE Control' /\ Turns'
  <2>1. Control' /\ SparesOthers(c) /\ OthersStay(c)
    BY <1>2, HandlerControl
  <2> QED
    BY <1>2, <2>1, SubmitTurns, LeaveTurns DEF Handler
<1> QED
  BY <1>1, <1>2, RequestControl, RequestTurns, WorkerControl, WorkerTurns, LifeControl, LifeTurns
     DEF DaemonNext

-----------------------------------------------------------------------------
(***************************************************************************)
(* Terminal jobs.  A process that is starting belongs to a thread that is  *)
(* about to insert it; one that runs is in the coordinator's map, unless   *)
(* it has been told to go, by the shutdown or by a thread that waits for   *)
(* its worker.  So a controller that finds the map without its session     *)
(* knows that nothing runs there.                                          *)
(***************************************************************************)

Undrained(o) == ProcessAlive(o) /\ ~Drained(o)

WaitPc     == {"ptyclose_wait", "detach_wait", "close_wait"}
AdmittedPc == {"pty_audit", "pty_begin", "pty_spawn", "pty_insert"}

HasStarter(o) ==
  job[o].stage = "starting" =>
    /\ ~job[o].listed
    /\ \E c \in Client : conn[c].pc = "pty_insert" /\ conn[c].op = o

IsListed(o) ==
  job[o].stage = "running" =>
    \/ job[o].listed
    \/ job[o].shutdown /\ phase = "drained"
    \/ /\ job[o].shutdown
       /\ \E c \in Client : /\ job[o].taken = c /\ conn[c].session = job[o].session
                            /\ conn[c].pc \in WaitPc

Alone(c, s) ==
  conn[c].session = s =>
    /\ conn[c].pc \in SubmitPc =>
         \A o \in Operation : ~(Undrained(o) /\ job[o].session = s)
    /\ conn[c].pc \in AdmittedPc =>
         \A o \in Operation : o # conn[c].op => ~(Undrained(o) /\ job[o].session = s)

Jobs ==
  /\ \A o \in Operation : HasStarter(o) /\ IsListed(o)
  /\ \A c \in Client, s \in SessionId : Alone(c, s)

\* To a controller that neither starts nor awaits one, a process is in the map.
LEMMA ProcessIsListed ==
  ASSUME DaemonInv, Control, Jobs, NEW c \in Client, NEW s \in SessionId, Live(s), Holds(c, s),
         conn[c].pc \notin WaitPc \cup {"pty_insert"},
         NEW o \in Operation, Undrained(o), job[o].session = s
  PROVE  job[o].stage = "running" /\ o \in JobsOf(s)
<1> USE DEF DaemonInv
<1>1. ASSUME NEW d \in Client, conn[d].session = s, conn[d].pc \in WaitPc \cup {"pty_insert"}
      PROVE  FALSE
  <2>1. conn[d].pc \notin ClosePc
    BY <1>1 DEF Control, ControlOf
  <2>2. Holds(d, s)
    BY <1>1, <2>1 DEF Holds
  <2> QED
    BY <1>1, <2>2, Exclusive
<1>2. job[o].stage # "starting"
  <2>1. SUFFICES ASSUME job[o].stage = "starting" PROVE FALSE
    OBVIOUS
  <2>2. PICK d \in Client : conn[d].pc = "pty_insert" /\ conn[d].op = o
    BY <2>1 DEF Jobs, HasStarter
  <2>3. conn[d].session = s
    BY <2>2 DEF Threads, Starting
  <2> QED
    BY <1>1, <2>2, <2>3
<1>3. job[o].stage = "running" /\ ~(job[o].shutdown /\ phase = "drained")
  BY <1>2 DEF Undrained, ProcessAlive, Drained
<1> QED
  BY <1>1, <1>3 DEF Jobs, IsListed, JobsOf

\* Connection c goes on; it may have told running jobs to go and now waits.
LEMMA JobsQuiet ==
  ASSUME Jobs, NEW c \in Client, OthersStay(c), phase' = phase, conn[c].pc # "pty_insert",
         conn[c].pc \in WaitPc => WorkersFinished(c),
         \A o \in Operation :
           /\ job'[o].stage = job[o].stage /\ job'[o].session = job[o].session
           /\ ProcessAlive(o) =>
                \/ job'[o] = job[o]
                \/ /\ job[o].stage = "running" /\ job'[o].shutdown /\ job'[o].taken = c
                   /\ conn'[c].session = job[o].session /\ conn'[c].pc \in WaitPc,
         \A s \in SessionId : conn'[c].session = s =>
           /\ conn'[c].pc \in SubmitPc =>
                \A o \in Operation : ~(Undrained(o) /\ job[o].session = s)
           /\ conn'[c].pc \in AdmittedPc =>
                \A o \in Operation : o # conn'[c].op => ~(Undrained(o) /\ job[o].session = s)
  PROVE  Jobs'
<1>0. \A d \in Client : d # c => conn'[d] = conn[d]
  BY DEF OthersStay
<1>1. ASSUME NEW o \in Operation PROVE HasStarter(o)'
  BY <1>0 DEF Jobs, HasStarter, ProcessAlive
<1>2. ASSUME NEW o \in Operation PROVE IsListed(o)'
  <2> SUFFICES ASSUME job'[o].stage = "running"
               PROVE  \/ job'[o].listed
                      \/ job'[o].shutdown /\ phase' = "drained"
                      \/ /\ job'[o].shutdown
                         /\ \E d \in Client : /\ job'[o].taken = d
                                              /\ conn'[d].session = job'[o].session
                                              /\ conn'[d].pc \in WaitPc
    BY DEF IsListed
  <2>1. job[o].stage = "running" /\ ProcessAlive(o) /\ IsListed(o)
    BY DEF ProcessAlive, Jobs
  <2>2. CASE job'[o] = job[o]
    <3>1. ASSUME NEW d \in Client, job[o].taken = d, conn[d].pc \in WaitPc PROVE d # c
      BY <3>1 DEF WorkersFinished
    <3> QED
      BY <1>0, <2>1, <2>2, <3>1 DEF IsListed
  <2> QED
    BY <2>1, <2>2
<1>3. \A o \in Operation : Undrained(o)' => Undrained(o)
  BY DEF Undrained, ProcessAlive, Drained
<1>4. ASSUME NEW d \in Client, NEW s \in SessionId PROVE Alone(d, s)'
  <2>1. Alone(d, s)
    BY DEF Jobs
  <2>2. CASE d = c
    BY <1>3, <2>2 DEF Alone
  <2>3. CASE d # c
    BY <1>0, <1>3, <2>1, <2>3 DEF Alone
  <2> QED
    BY <2>2, <2>3
<1> QED
  BY <1>1, <1>2, <1>4 DEF Jobs

\* Connection c creates, inserts or drops the process it is starting.
LEMMA JobsStart ==
  ASSUME DaemonInv, Control, Jobs, NEW c \in Client, NEW o \in Operation, NEW s \in SessionId,
         OthersStay(c), phase' = phase, conn[c].pc \in {"pty_spawn", "pty_insert"},
         conn[c].op = o, conn[c].session = s, JobsStay(o), job'[o].session = s,
         HasStarter(o)', IsListed(o)',
         \A t \in SessionId : Alone(c, t)'
  PROVE  Jobs'
<1> USE DEF DaemonInv
<1>0. /\ \A d \in Client : d # c => conn'[d] = conn[d]
      /\ \A q \in Operation : q # o => job'[q] = job[q]
  BY DEF OthersStay, JobsStay
<1>1. Live(s) /\ Holds(c, s)
  BY DEF Control, ControlOf, Holds, PtyPc, ClosePc
<1>2. ASSUME NEW q \in Operation, q # o PROVE HasStarter(q)' /\ IsListed(q)'
  <2>1. HasStarter(q) /\ IsListed(q) /\ job'[q] = job[q]
    BY <1>0, <1>2 DEF Jobs
  <2>2. HasStarter(q)'
    BY <1>0, <1>2, <2>1 DEF HasStarter
  <2>3. IsListed(q)'
    BY <1>0, <2>1 DEF IsListed, WaitPc
  <2> QED
    BY <2>2, <2>3
<1>3. ASSUME NEW d \in Client, d # c, NEW t \in SessionId PROVE Alone(d, t)'
  <2>1. Alone(d, t) /\ conn'[d] = conn[d]
    BY <1>0, <1>3 DEF Jobs
  <2>2. conn[d].session = t /\ conn[d].pc \in SubmitPc \cup AdmittedPc => t # s
    <3>1. conn[d].session = t /\ conn[d].pc \in SubmitPc \cup AdmittedPc => Holds(d, t)
      BY DEF Holds, SubmitPc, AdmittedPc, ClosePc
    <3> QED
      BY <1>1, <1>3, <3>1, Exclusive
  <2>3. \A q \in Operation : t # s /\ Undrained(q)' /\ job'[q].session = t =>
          Undrained(q) /\ job[q].session = t
    BY <1>0 DEF Undrained, ProcessAlive, Drained
  <2> QED
    BY <2>1, <2>2, <2>3 DEF Alone
<1> QED
  BY <1>2, <1>3 DEF Jobs

\* A submission begins only where no process runs; a terminal close tells the
\* session's processes to go and waits.
LEMMA RequestJobs ==
  ASSUME DaemonInv, Control, Jobs, NEW c \in Client, Requests(c)
  PROVE  Jobs'
<1> USE DEF DaemonInv
<1>0. /\ OthersStay(c) /\ TypeOK /\ PersistOutcome \subseteq BOOLEAN
      /\ \A s \in SessionId : s # None
  BY RequestControl, NoneAssumption, OutcomeType DEF IInv
<1>1. ASSUME conn[c].pc = "idle", phase' = phase, job' = job,
             conn'[c].pc \notin SubmitPc \cup AdmittedPc
      PROVE  Jobs'
  BY <1>0, <1>1, JobsQuiet DEF WaitPc
<1>2. ASSUME NEW id \in SessionId, NEW n \in Name, NEW p \in PersistenceMode,
             NEW d \in Directory, NEW h \in ClientHistories, NEW ok \in PersistOutcome,
             CreateRequest(c, id, n, p, d, h, ok)
      PROVE  Jobs'
  <2>1. conn[c].pc = "idle" /\ phase' = phase /\ job' = job
    BY <1>2 DEF CreateRequest
  <2>2. conn'[c].pc \in {"idle", "detach_snapshot"}
    BY <1>2, <2>1, CreateDoes DEF Attaches, LetsGo
  <2> QED
    BY <1>1, <2>1, <2>2 DEF SubmitPc, AdmittedPc
<1>3. ASSUME NEW selector \in SessionId \cup Name, NEW s \in SessionId,
             \/ AttachRequest(c, selector, s) \/ SwitchRequest(c, selector, s)
             \/ \E ok \in PersistOutcome : CloseRequest(c, selector, s, ok)
      PROVE  Jobs'
  <2>1. conn[c].pc = "idle" /\ phase' = phase /\ job' = job
    BY <1>3 DEF AttachRequest, SwitchRequest, CloseRequest
  <2>2. CASE AttachRequest(c, selector, s) \/ SwitchRequest(c, selector, s)
    <3>1. conn'[c].pc \in {"idle", "detach_snapshot"}
      BY <2>1, <2>2, AttachDoes DEF Attaches, LetsGo
    <3> QED
      BY <1>1, <2>1, <3>1 DEF SubmitPc, AdmittedPc
  <2>3. CASE \E ok \in PersistOutcome : CloseRequest(c, selector, s, ok)
    <3>1. conn'[c].pc \in {"close_terminate", "idle"}
      BY <1>0, <2>3, CloseDoes
    <3> QED
      BY <1>1, <2>1, <3>1 DEF SubmitPc, AdmittedPc
  <2> QED
    BY <1>3, <2>2, <2>3
<1>4. CASE DetachRequest(c) \/ Disconnect(c)
  BY <1>1, <1>4, LeaveDoes DEF Left, LetsGo, SubmitPc, AdmittedPc
<1>5. CASE \/ \E d \in Directory, h \in ClientHistories, ok \in PersistOutcome :
                UpdateRequest(c, d, h, ok)
           \/ CancelRequest(c)
  BY <1>1, <1>5 DEF UpdateRequest, CancelRequest, daemon, SubmitPc, AdmittedPc
<1>6. ASSUME NEW o \in Operation, PtyStartRequest(c, o) PROVE Jobs'
  BY <1>1, <1>6, PtyStartDoes DEF PtyStartRequest, Begins, SubmitPc, AdmittedPc
<1>7. CASE PtyCloseRequest(c)
  <2>1. /\ conn[c].pc = "idle" /\ phase' = phase /\ terminate_session(c, conn[c].attached)
        /\ conn'[c].pc = "ptyclose_wait" /\ conn'[c].session = conn[c].attached
    BY <1>7, PtyCloseDoes DEF PtyCloseRequest
  <2>2. \A o \in Operation :
          /\ job'[o].stage = job[o].stage /\ job'[o].session = job[o].session
          /\ \/ job'[o] = job[o]
             \/ /\ job[o].session = conn[c].attached
                /\ job[o].stage # "finished" => job'[o].shutdown /\ job'[o].taken = c
    BY <2>1, TerminateFields DEF JobsOf, DaemonTypes
  <2>3. \A o \in Operation : job[o].listed => job[o].stage # "starting"
    BY DEF Jobs, HasStarter
  <2>4. \A o \in Operation : ProcessAlive(o) =>
                \/ job'[o] = job[o]
                \/ /\ job[o].stage = "running" /\ job'[o].shutdown /\ job'[o].taken = c
                   /\ conn'[c].session = job[o].session /\ conn'[c].pc \in WaitPc
    BY <2>1, <2>2, <2>3, TerminateFields DEF JobsOf, DaemonTypes, ProcessAlive, WaitPc
  <2> QED
    BY <1>0, <2>1, <2>2, <2>4, JobsQuiet DEF WaitPc, SubmitPc, AdmittedPc
<1>8. ASSUME NEW o \in Operation, SubmitSnapshot(c, o) PROVE Jobs'
  <2>1. /\ conn[c].pc = "idle" /\ phase' = phase /\ job' = job /\ conn[c].attached # None
        /\ ~has_session(conn[c].attached) /\ Live(conn[c].attached)
        /\ conn'[c].pc = "submit_reserve" /\ conn'[c].session = conn[c].attached
    BY <1>0, <1>8, SubmitSnapshotDoes DEF SubmitSnapshot, Begins
  <2>i. PICK s \in SessionId : s = conn[c].attached
    BY <2>1, ThreadFacts
  <2>2. ASSUME NEW q \in Operation, Undrained(q), job[q].session = s PROVE FALSE
    <3>1. Holds(c, s) /\ conn[c].pc \notin WaitPc \cup {"pty_insert"}
      BY <2>1, <2>i DEF Holds, WaitPc
    <3>2. job[q].stage = "running" /\ q \in JobsOf(s)
      BY <2>1, <2>2, <2>i, <3>1, ProcessIsListed
    <3> QED
      BY <2>1, <2>i, <3>2 DEF has_session
  <2> QED
    BY <1>0, <2>1, <2>2, <2>i, JobsQuiet DEF WaitPc, AdmittedPc
<1> QED
  BY <1>2, <1>3, <1>4, <1>5, <1>6, <1>7, <1>8 DEF Requests

\* A terminal start is admitted where no process runs, and starts one.
LEMMA PtyJobs ==
  ASSUME DaemonInv, Control, Jobs, NEW c \in Client, OthersStay(c),
         \/ PtyReap(c) \/ PtyAdmit(c) \/ PtySpawn(c) \/ PtyInsert(c)
         \/ \E recorded \in BOOLEAN : PtyAudit(c, recorded)
         \/ \E ok \in BOOLEAN : PtyBegin(c, ok)
         \/ \E ok \in PersistOutcome : PtySpawnFails(c, ok) \/ PtyInsertRefused(c, ok)
  PROVE  Jobs'
<1> USE DEF DaemonInv
<1>0. conn[c].pc \in PtyPc /\ JobType /\ \A t \in SessionId : t # None
  BY NoneAssumption DEF PtyReap, PtyAdmit, PtySpawn, PtyInsert, PtyAudit, PtyBegin,
     PtySpawnFails, PtyInsertRefused, Step, PtyPc, DaemonTypes
<1>i. PICK s \in SessionId, o \in Operation : s = conn[c].session /\ o = conn[c].op
  BY <1>0, ThreadFacts
<1>1. Live(s) /\ Holds(c, s) /\ Alone(c, s) /\ phase' = phase
  BY <1>0, <1>i DEF Control, ControlOf, Holds, PtyPc, ClosePc, Jobs, PtyReap, PtyAdmit, PtySpawn,
     PtyInsert, PtyAudit, PtyBegin, PtySpawnFails, PtyInsertRefused
<1>2. ASSUME job' = job, conn[c].pc # "pty_insert",
             \/ Returned(c, s)
             \/ /\ \E to \in {"pty_begin", "pty_spawn"} : Moved(c, to)
                /\ conn[c].pc \in AdmittedPc
      PROVE  Jobs'
  <2>1. \A t \in SessionId : conn'[c].session = t =>
           /\ conn'[c].pc \notin SubmitPc
           /\ conn'[c].pc \in AdmittedPc =>
                \A q \in Operation : q # conn'[c].op => ~(Undrained(q) /\ job[q].session = t)
    BY <1>0, <1>1, <1>2, <1>i DEF Returned, Moved, SubmitPc, AdmittedPc, Alone
  <2> QED
    BY <1>0, <1>1, <1>2, <2>1, JobsQuiet DEF PtyPc, WaitPc
<1>3. CASE PtyReap(c)
  <2>1. /\ Moved(c, "pty_admit") /\ conn[c].pc = "pty_reap"
        /\ \A q \in Operation :
              /\ job'[q].stage = job[q].stage /\ job'[q].session = job[q].session
              /\ ProcessAlive(q) => job'[q] = job[q]
    BY <1>3, PtyReapDoes DEF PtyReap, Step, ProcessAlive
  <2> QED
    BY <1>1, <2>1, JobsQuiet DEF Moved, WaitPc, SubmitPc, AdmittedPc
<1>4. CASE PtyAdmit(c)
  <2>1. /\ job' = job /\ conn[c].pc = "pty_admit"
        /\ Returned(c, s) \/ (Moved(c, "pty_audit") /\ Room(s))
    BY <1>4, <1>i, PtyWaitsDo DEF PtyAdmit
  <2>2. CASE Returned(c, s)
    BY <1>2, <2>1, <2>2
  <2>3. CASE Moved(c, "pty_audit") /\ Room(s)
    <3>1. ASSUME NEW q \in Operation, Undrained(q), job[q].session = s PROVE FALSE
      <4>1. q \in JobsOf(s)
        BY <1>1, <2>1, <3>1, ProcessIsListed DEF WaitPc
      <4> QED
        BY <2>3, <4>1 DEF Room
    <3> QED
      BY <1>1, <1>i, <2>1, <2>3, <3>1, JobsQuiet DEF Moved, WaitPc, SubmitPc
  <2> QED
    BY <2>1, <2>2, <2>3
<1>5. CASE \/ \E recorded \in BOOLEAN : PtyAudit(c, recorded)
           \/ \E ok \in BOOLEAN : PtyBegin(c, ok)
           \/ \E ok \in PersistOutcome : PtySpawnFails(c, ok)
  <2>1. job' = job /\ conn[c].pc \in {"pty_audit", "pty_begin", "pty_spawn"}
    BY <1>5 DEF PtyAudit, PtyBegin, PtySpawnFails
  <2>2. Returned(c, s) \/ \E to \in {"pty_begin", "pty_spawn"} : Moved(c, to)
    BY <1>5, <1>i, <2>1, PtyWaitsDo, PtyBeginDoes, PtySpawnFailsDoes DEF PtyAudit
  <2> QED
    BY <1>2, <2>1, <2>2 DEF AdmittedPc
<1>6. CASE PtySpawn(c)
  <2>1. /\ conn[c].pc = "pty_spawn" /\ Moved(c, "pty_insert") /\ JobsStay(o)
        /\ job'[o].stage = "starting" /\ job'[o].session = s /\ ~job'[o].listed
    BY <1>6, <1>i, PtySpawnDoes DEF PtySpawn, Step
  <2>2. HasStarter(o)' /\ IsListed(o)'
    BY <1>i, <2>1 DEF HasStarter, IsListed, Moved
  <2>3. \A t \in SessionId : Alone(c, t)'
    <3>1. \A q \in Operation : q # o => (Undrained(q)' => Undrained(q)) /\ job'[q] = job[q]
      BY <1>1, <2>1 DEF JobsStay, Undrained, ProcessAlive, Drained
    <3> QED
      BY <1>1, <1>i, <2>1, <3>1 DEF Alone, Moved, SubmitPc, AdmittedPc
  <2> QED
    BY <1>1, <1>i, <2>1, <2>2, <2>3, JobsStart
<1>7. CASE PtyInsert(c) \/ \E ok \in PersistOutcome : PtyInsertRefused(c, ok)
  <2>1. /\ conn[c].pc = "pty_insert" /\ Returned(c, s) /\ JobsStay(o)
        /\ \/ job'[o].stage = "running" /\ job'[o].listed /\ job'[o].session = job[o].session
           \/ job'[o].stage = "finished"
    BY <1>7, <1>i, PtyInsertDoes, PtyInsertRefusedDoes DEF PtyInsert, PtyInsertRefused
  <2>2. job'[o].session = s
    <3>1. job[o].session = s
      BY <1>i, <2>1 DEF Threads, Starting
    <3> QED
      BY <1>0, <1>7, <1>i, <3>1 DEF PtyInsert, PtyInsertRefused, JobType, Job
  <2>3. HasStarter(o)' /\ IsListed(o)' /\ \A t \in SessionId : Alone(c, t)'
    BY <1>0, <2>1 DEF HasStarter, IsListed, Alone, Returned
  <2> QED
    BY <1>1, <1>i, <2>1, <2>2, <2>3, JobsStart
<1> QED
  BY <1>3, <1>4, <1>5, <1>6, <1>7

\* The rest of what a connection does tells jobs to go, and waits.
LEMMA LeaveJobs ==
  ASSUME DaemonInv, Control, Jobs, NEW c \in Client, OthersStay(c),
         \/ SubmitReserve(c) \/ SubmitSpawn(c)
         \/ \E recorded \in BOOLEAN : SubmitAudit(c, recorded)
         \/ \E ok \in BOOLEAN : SubmitBegin(c, ok)
         \/ \E ok \in PersistOutcome : SubmitNotSpawned(c, ok)
         \/ DetachSnapshot(c) \/ DetachCancel(c) \/ DetachTerminate(c) \/ DetachWait(c)
         \/ CloseTerminate(c) \/ CloseWait(c) \/ CloseCancel(c) \/ PtyCloseWait(c)
         \/ \E ok \in PersistOutcome : DetachRegistry(c, ok)
  PROVE  Jobs'
<1> USE DEF DaemonInv
<1>0. (\A t \in SessionId : t # None) /\ PersistOutcome \subseteq BOOLEAN /\ JobType
  BY NoneAssumption, OutcomeType DEF DaemonTypes
<1>1. ASSUME job' = job, phase' = phase, conn[c].pc # "pty_insert",
             conn[c].pc \in WaitPc => WorkersFinished(c),
             conn'[c].pc \notin SubmitPc \cup AdmittedPc
      PROVE  Jobs'
  BY <1>1, JobsQuiet
<1>2. CASE \/ SubmitReserve(c) \/ SubmitSpawn(c)
           \/ \E recorded \in BOOLEAN : SubmitAudit(c, recorded)
           \/ \E ok \in BOOLEAN : SubmitBegin(c, ok)
           \/ \E ok \in PersistOutcome : SubmitNotSpawned(c, ok)
  <2>1. conn[c].pc \in SubmitPc /\ job' = job /\ phase' = phase
    BY <1>2 DEF SubmitReserve, SubmitSpawn, SubmitAudit, SubmitBegin, SubmitNotSpawned, SubmitPc
  <2>2. \/ Returned(c, conn[c].session)
        \/ \E to \in {"submit_audit", "submit_begin", "submit_spawn"} : Moved(c, to)
    BY <1>2, SubmitReserveDoes, SubmitSpawnDoes, SubmitAuditDoes, SubmitBeginDoes,
       SubmitNotSpawnedDoes
  <2>3. \A t \in SessionId : conn'[c].session = t =>
           /\ \A q \in Operation : ~(Undrained(q) /\ job[q].session = t)
           /\ conn'[c].pc \notin AdmittedPc
    BY <1>0, <2>1, <2>2 DEF Jobs, Alone, Returned, Moved, AdmittedPc
  <2> QED
    BY <2>1, <2>3, JobsQuiet DEF SubmitPc, WaitPc
<1>3. CASE DetachSnapshot(c) \/ DetachCancel(c) \/ DetachWait(c) \/ CloseWait(c)
           \/ CloseCancel(c) \/ PtyCloseWait(c) \/ \E ok \in PersistOutcome : DetachRegistry(c, ok)
  <2>1. /\ job' = job /\ phase' = phase /\ conn[c].pc # "pty_insert"
        /\ conn[c].pc \in WaitPc => WorkersFinished(c)
    BY <1>3 DEF DetachSnapshot, DetachCancel, DetachWait, CloseWait, CloseCancel, PtyCloseWait,
       DetachRegistry, Step, WaitPc
  <2>2. \/ \E t : Returned(c, t)
        \/ Left(c)
        \/ \E to \in DetachPc \cup ClosePc : Moved(c, to)
    BY <1>0, <1>3, DetachSnapshotDoes, DetachCancelDoes, WaitDoes, CloseCancelDoes,
       PtyCloseWaitDoes, DetachRegistryDoes DEF DetachPc, ClosePc
  <2>3. conn'[c].pc \in {"idle", "gone"} \cup DetachPc \cup ClosePc
    BY <2>2 DEF Returned, Left, Moved
  <2> QED
    BY <1>1, <2>1, <2>3 DEF SubmitPc, AdmittedPc, DetachPc, ClosePc
<1>4. CASE DetachTerminate(c) \/ CloseTerminate(c)
  <2>1. /\ phase' = phase /\ terminate_session(c, conn[c].session)
        /\ conn[c].pc \in {"detach_terminate", "close_terminate"}
        /\ conn'[c].pc \in WaitPc /\ conn'[c].session = conn[c].session
    BY <1>4, TerminateDoes DEF Moved, WaitPc
  <2>2. \A o \in Operation :
          /\ job'[o].stage = job[o].stage /\ job'[o].session = job[o].session
          /\ job[o].listed => job[o].stage # "starting"
    BY <1>0, <2>1, TerminateFields DEF Jobs, HasStarter
  <2>3. \A o \in Operation : ProcessAlive(o) =>
                \/ job'[o] = job[o]
                \/ /\ job[o].stage = "running" /\ job'[o].shutdown /\ job'[o].taken = c
                   /\ conn'[c].session = job[o].session /\ conn'[c].pc \in WaitPc
    <3>1. \A o \in Operation :
            /\ o \in JobsOf(conn[c].session) =>
                 /\ job'[o].shutdown = (job[o].stage # "finished")
                 /\ job[o].stage # "finished" => job'[o].taken = c
            /\ o \notin JobsOf(conn[c].session) => job'[o] = job[o]
      BY <1>0, <2>1, TerminateFields
    <3> QED
      BY <2>1, <2>2, <3>1 DEF JobsOf, ProcessAlive
  <2> QED
    BY <2>1, <2>2, <2>3, JobsQuiet DEF WaitPc, SubmitPc, AdmittedPc
<1> QED
  BY <1>2, <1>3, <1>4

\* Every step of the daemon keeps where terminal jobs can be.
LEMMA JobsNext ==
  ASSUME DaemonInv, Control, Jobs, [DaemonNext]_vars
  PROVE  Jobs'
<1> USE DEF DaemonInv
<1>1. ASSUME UNCHANGED <<conn, job, phase>> PROVE Jobs'
  BY <1>1 DEF Jobs, HasStarter, IsListed, Alone, Undrained, ProcessAlive, Drained
<1>2. ASSUME NEW c \in Client, Handler(c) PROVE Jobs'
  <2>1. OthersStay(c)
    BY <1>2, HandlerControl
  <2> QED
    BY <1>2, <2>1, PtyJobs, LeaveJobs DEF Handler
<1>3. ASSUME NEW o \in Operation, TurnWorker(o) PROVE Jobs'
  BY <1>1, <1>3 DEF TurnWorker, TurnRuns, RuntimeFails, TurnConcludes, TurnPersists, TurnEnds
<1>4. ASSUME NEW o \in Operation, JobWorker(o) PROVE Jobs'
  <2>1. /\ conn' = conn /\ phase' = phase /\ JobsStay(o)
        /\ job'[o].stage \notin {"starting", "running"}
    BY <1>4, JobWorkerDoes
  <2>2. \A q \in Operation : HasStarter(q)' /\ IsListed(q)'
    BY <2>1 DEF Jobs, HasStarter, IsListed, JobsStay
  <2>3. \A q \in Operation : Undrained(q)' => Undrained(q) /\ job'[q] = job[q]
    BY <2>1 DEF JobsStay, Undrained, ProcessAlive, Drained
  <2>4. \A c \in Client, s \in SessionId : Alone(c, s)'
    BY <2>1, <2>3 DEF Jobs, Alone
  <2> QED
    BY <2>2, <2>4 DEF Jobs
<1>5. CASE StopAdmission \/ CancelActive \/ StopPtys
  <2>1. UNCHANGED <<conn, job>> /\ phase # "drained" /\ phase' # "drained"
    BY <1>5 DEF StopAdmission, CancelActive, StopPtys
  <2> QED
    BY <2>1 DEF Jobs, HasStarter, IsListed, Alone, Undrained, ProcessAlive, Drained
<1>6. CASE DrainPtys
  <2>1. /\ conn' = conn /\ phase = "ptys_closed" /\ phase' = "drained"
        /\ \A o \in Operation :
              /\ job'[o].stage = job[o].stage /\ job'[o].session = job[o].session
              /\ ~job'[o].listed
              /\ job[o].listed => job'[o].shutdown = (job[o].stage # "finished")
              /\ ~job[o].listed => job'[o] = job[o]
    BY <1>6, DrainDoes DEF DrainPtys
  <2>2. ASSUME NEW o \in Operation PROVE HasStarter(o)' /\ IsListed(o)'
    <3>1. HasStarter(o)'
      BY <2>1 DEF Jobs, HasStarter
    <3>2. IsListed(o) /\ phase # "drained"
      BY <2>1 DEF Jobs
    <3>3. ASSUME job[o].listed, job'[o].stage = "running" PROVE job'[o].shutdown
      BY <2>1, <3>3
    <3>4. ASSUME ~job[o].listed, job'[o].stage = "running"
          PROVE  /\ job'[o].shutdown
                 /\ \E c \in Client : /\ job'[o].taken = c /\ conn'[c].session = job'[o].session
                                      /\ conn'[c].pc \in WaitPc
      <4>1. job'[o] = job[o] /\ conn' = conn
        BY <2>1, <3>4
      <4> QED
        BY <3>2, <3>4, <4>1 DEF IsListed
    <3>5. IsListed(o)'
      BY <2>1, <3>3, <3>4 DEF IsListed
    <3> QED
      BY <3>1, <3>5
  <2>3. \A o \in Operation : Undrained(o)' => Undrained(o)
    BY <2>1 DEF Undrained, ProcessAlive, Drained
  <2>4. \A c \in Client, s \in SessionId : Alone(c, s)'
    BY <2>1, <2>3 DEF Jobs, Alone
  <2> QED
    BY <2>2, <2>4 DEF Jobs
<1>7. CASE Stop
  <2>1. /\ \A c \in Client : conn'[c].session = None
        /\ \A o \in Operation : job'[o].stage \in {"unborn", "finished"}
    BY <1>7, StopDoes
  <2> QED
    BY <2>1, NoneAssumption DEF Jobs, HasStarter, IsListed, Alone
<1> QED
  BY <1>1, <1>2, <1>3, <1>4, <1>5, <1>6, <1>7, RequestJobs
     DEF DaemonNext, Shutdown, Restart, Environment, vars, daemon

-----------------------------------------------------------------------------
(***************************************************************************)
(* Turns start in SubmitSpawn, processes in PtySpawn, and jobs enter the   *)
(* map in PtyInsert; nothing else starts anything or takes a cancellation  *)
(* back.                                                                   *)
(***************************************************************************)

NoNewTurn ==
  \A o \in Operation : TurnAlive(o)' =>
    /\ TurnAlive(o) /\ turn'[o].session = turn[o].session
    /\ turn[o].cancelled => turn'[o].cancelled

NoNewProcess ==
  \A o \in Operation : Undrained(o)' => Undrained(o) /\ job'[o].session = job[o].session

NoneListed == \A o \in Operation : job'[o].listed => job[o].listed

\* terminate_session starts no process.
LEMMA TerminateStarts ==
  ASSUME JobType, NEW c \in Client, NEW s, terminate_session(c, s), phase' = phase
  PROVE  NoNewProcess /\ NoneListed
<1>1. ASSUME NEW o \in Operation
      PROVE  /\ job'[o].stage = job[o].stage /\ job'[o].session = job[o].session
             /\ o \in JobsOf(s) => /\ ~job'[o].listed
                                   /\ job'[o].shutdown = (job[o].stage # "finished")
             /\ o \notin JobsOf(s) => job'[o] = job[o]
  BY TerminateFields
<1>2. ASSUME NEW o \in Operation, Undrained(o)' PROVE Undrained(o)
  <2>1. CASE o \in JobsOf(s)
    BY <1>1, <1>2, <2>1 DEF Undrained, ProcessAlive, Drained
  <2>2. CASE o \notin JobsOf(s)
    BY <1>1, <1>2, <2>2 DEF Undrained, ProcessAlive, Drained
  <2> QED
    BY <2>1, <2>2
<1> QED
  BY <1>1, <1>2 DEF NoNewProcess, NoneListed

\* A request starts nothing yet.
LEMMA RequestStarts ==
  ASSUME DaemonInv, NEW c \in Client, Requests(c)
  PROVE  NoNewTurn /\ NoNewProcess /\ NoneListed /\ phase' = phase
<1> USE DEF DaemonInv
<1>0. TypeOK /\ JobType
  BY DEF IInv, DaemonTypes
<1>1. phase' = phase
  BY DEF Requests, CreateRequest, AttachRequest, SwitchRequest, CloseRequest, DetachRequest,
     Disconnect, UpdateRequest, CancelRequest, SubmitSnapshot, PtyStartRequest, PtyCloseRequest,
     daemon
<1>2. NoNewProcess /\ NoneListed
  <2>1. CASE job' = job
    BY <1>1, <2>1 DEF NoNewProcess, NoneListed, Undrained, ProcessAlive, Drained
  <2>2. CASE PtyCloseRequest(c)
    BY <1>0, <1>1, <2>2, TerminateStarts DEF PtyCloseRequest
  <2> QED
    BY <2>1, <2>2 DEF Requests, CreateRequest, AttachRequest, SwitchRequest, CloseRequest,
       DetachRequest, Disconnect, UpdateRequest, CancelRequest, SubmitSnapshot, PtyStartRequest,
       daemon
<1>3. NoNewTurn
  <2>1. CASE turn' = turn
    BY <2>1 DEF NoNewTurn, TurnAlive
  <2>2. CASE CancelRequest(c)
    BY <2>2, CancelRequestDoes DEF NoNewTurn, TurnAlive, TurnsCancelled
  <2>3. ASSUME NEW o \in Operation, SubmitSnapshot(c, o) PROVE NoNewTurn
    <3>1. TurnsStay(o) /\ turn'[o].stage = "submitting"
      BY <1>0, <2>3, SubmitSnapshotDoes
    <3> QED
      BY <3>1 DEF NoNewTurn, TurnAlive, TurnsStay
  <2> QED
    BY <2>1, <2>2, <2>3 DEF Requests, CreateRequest, AttachRequest, SwitchRequest, CloseRequest,
       DetachRequest, Disconnect, UpdateRequest, PtyStartRequest, PtyCloseRequest, daemon
<1> QED
  BY <1>1, <1>2, <1>3

\* Nor does a connection thread, but for the three steps named.
LEMMA HandlerStarts ==
  ASSUME DaemonInv, NEW c \in Client, Handler(c)
  PROVE  /\ phase' = phase
         /\ SubmitSpawn(c) \/ NoNewTurn
         /\ PtySpawn(c) \/ NoNewProcess
         /\ PtyInsert(c) \/ NoneListed
<1> USE DEF DaemonInv
<1>0. JobType /\ TurnType /\ ActiveType
  BY DEF DaemonTypes
<1>1. phase' = phase
  BY DEF Handler, DetachSnapshot, DetachCancel, DetachTerminate, DetachWait, CloseTerminate,
     CloseWait, CloseCancel, SubmitReserve, SubmitSpawn, PtyReap, PtyAdmit, PtySpawn, PtyInsert,
     PtyCloseWait, SubmitAudit, PtyAudit, SubmitBegin, PtyBegin, DetachRegistry,
     SubmitNotSpawned, PtySpawnFails, PtyInsertRefused
<1>2. SubmitSpawn(c) \/ NoNewTurn
  <2>1. CASE turn' = turn
    BY <2>1 DEF NoNewTurn, TurnAlive
  <2>2. ASSUME NEW s \in SessionId, cancel_and_remove(s) PROVE NoNewTurn
    <3>1. \A o \in Operation :
              /\ turn'[o].stage = turn[o].stage /\ turn'[o].session = turn[o].session
              /\ turn'[o].cancelled = (turn[o].cancelled \/ active[s] = o)
      BY <1>0, <2>2, CancelFields DEF ActiveType
    <3> QED
      BY <3>1 DEF NoNewTurn, TurnAlive
  <2>3. ASSUME NEW o \in Operation, TurnsStay(o), turn'[o].stage \in {"unborn", "over"}
        PROVE  NoNewTurn
    BY <2>3 DEF NoNewTurn, TurnAlive, TurnsStay
  <2>4. CASE DetachCancel(c) \/ CloseCancel(c)
    BY <2>2, <2>4, DetachCancelDoes, CloseCancelDoes DEF DetachCancel
  <2>5. CASE \/ SubmitReserve(c) \/ \E recorded \in BOOLEAN : SubmitAudit(c, recorded)
             \/ \E ok \in BOOLEAN : SubmitBegin(c, ok)
             \/ \E ok \in PersistOutcome : SubmitNotSpawned(c, ok)
    <3>1. conn[c].pc \in SubmitPc
      BY <2>5 DEF SubmitReserve, SubmitAudit, SubmitBegin, SubmitNotSpawned, SubmitPc
    <3>i. PICK s \in SessionId, o \in Operation : s = conn[c].session /\ o = conn[c].op
      BY <3>1, ThreadFacts
    <3>2. turn[o].session = s
      BY <3>1, <3>i DEF Threads, Starting
    <3>3. \/ turn' = turn \/ (TurnsStay(o) /\ turn'[o] = NoTurn)
          \/ Unreserve(c) \/ Conclude(o)
      BY <2>5, <3>i, SubmitReserveDoes, SubmitAuditDoes, SubmitBeginDoes, SubmitNotSpawnedDoes
    <3>4. CASE Unreserve(c)
      BY <1>0, <2>3, <3>4, <3>i, UnreserveFields, NoTurnType DEF TurnsStay
    <3>5. CASE Conclude(o)
      BY <1>0, <2>3, <3>2, <3>5, ConcludeFields DEF TurnsStay
    <3>6. CASE TurnsStay(o) /\ turn'[o] = NoTurn
      BY <2>3, <3>6, NoTurnType
    <3> QED
      BY <2>1, <3>3, <3>4, <3>5, <3>6
  <2> QED
    BY <2>1, <2>4, <2>5 DEF Handler, DetachSnapshot, DetachTerminate, DetachWait,
       CloseTerminate, CloseWait, PtyReap, PtyAdmit, PtySpawn, PtyInsert, PtyCloseWait, PtyAudit,
       PtyBegin, DetachRegistry, PtySpawnFails, PtyInsertRefused
<1>3. (PtySpawn(c) \/ NoNewProcess) /\ (PtyInsert(c) \/ NoneListed)
  <2>1. CASE job' = job
    BY <1>1, <2>1 DEF NoNewProcess, NoneListed, Undrained, ProcessAlive, Drained
  <2>2. CASE DetachTerminate(c) \/ CloseTerminate(c)
    BY <1>0, <1>1, <2>2, TerminateStarts DEF DetachTerminate, CloseTerminate
  <2>3. CASE PtyReap(c)
    BY <1>1, <2>3, PtyReapDoes DEF NoNewProcess, NoneListed, Undrained, ProcessAlive, Drained
  <2>4. CASE \/ PtySpawn(c) \/ PtyInsert(c) \/ \E ok \in PersistOutcome : PtyInsertRefused(c, ok)
    <3>1. conn[c].pc \in PtyPc
      BY <2>4 DEF PtySpawn, PtyInsert, PtyInsertRefused, Step, PtyPc
    <3>i. PICK s \in SessionId, o \in Operation : s = conn[c].session /\ o = conn[c].op
      BY <3>1, ThreadFacts
    <3>2. CASE PtySpawn(c)
      BY <3>2, <3>i, PtySpawnDoes DEF NoneListed, JobsStay
    <3>3. CASE PtyInsert(c)
      <4>1. conn[c].pc = "pty_insert" /\ job' = [job EXCEPT ![o].stage = "running", ![o].listed = TRUE]
        BY <3>3, <3>i DEF PtyInsert
      <4>2. job[o].stage = "starting"
        BY <3>i, <4>1 DEF Threads, Starting
      <4>3. /\ JobsStay(o) /\ job'[o].session = job[o].session
            /\ job'[o].shutdown = job[o].shutdown
        BY <1>0, <4>1 DEF JobsStay, JobType, Job
      <4> QED
        BY <1>1, <3>3, <4>2, <4>3 DEF JobsStay, NoNewProcess, Undrained, ProcessAlive, Drained
    <3>4. ASSUME NEW ok \in PersistOutcome, PtyInsertRefused(c, ok) PROVE NoNewProcess /\ NoneListed
      <4>1. job' = [job EXCEPT ![o].stage = "finished"]
        BY <3>4, <3>i DEF PtyInsertRefused
      <4>2. JobsStay(o) /\ job'[o].stage = "finished" /\ job'[o].listed = job[o].listed
        BY <1>0, <4>1 DEF JobsStay, JobType, Job
      <4> QED
        BY <1>1, <4>2 DEF JobsStay, NoNewProcess, NoneListed, Undrained, ProcessAlive, Drained
    <3> QED
      BY <2>4, <3>2, <3>3, <3>4
  <2> QED
    BY <2>1, <2>2, <2>3, <2>4 DEF Handler, DetachSnapshot, DetachCancel, DetachWait, CloseWait,
       CloseCancel, SubmitReserve, SubmitSpawn, SubmitAudit, SubmitBegin, SubmitNotSpawned,
       PtyAdmit, PtyCloseWait, PtyAudit, PtyBegin, DetachRegistry, PtySpawnFails
<1> QED
  BY <1>1, <1>2, <1>3

\* Nor does a worker.
LEMMA WorkerStarts ==
  ASSUME DaemonInv, NEW o \in Operation, TurnWorker(o) \/ JobWorker(o)
  PROVE  NoNewTurn /\ NoNewProcess /\ NoneListed /\ phase' = phase
<1> USE DEF DaemonInv
<1>0. TurnType /\ ActiveType /\ directories \subseteq Directory
  BY DEF DaemonTypes, IInv, TypeOK
<1>1. CASE TurnWorker(o)
  <2>1. /\ job' = job /\ phase' = phase /\ TurnAlive(o) /\ turn[o].session \in SessionId
        /\ Conclude(o) \/ \E stage \in TurnStage : TurnReaches(o, stage)
    BY <1>0, <1>1, TurnWorkerDoes DEF TurnStage
  <2>2. NoNewTurn
    <3>1. CASE Conclude(o)
      <4>1. TurnsStay(o) /\ turn'[o].stage = "over"
        BY <1>0, <2>1, <3>1, ConcludeFields DEF TurnsStay
      <4> QED
        BY <4>1 DEF NoNewTurn, TurnAlive, TurnsStay
    <3>2. CASE \E stage \in TurnStage : TurnReaches(o, stage)
      BY <2>1, <3>2 DEF NoNewTurn, TurnAlive, TurnReaches, TurnsStay
    <3> QED
      BY <2>1, <3>1, <3>2
  <2> QED
    BY <2>1, <2>2 DEF NoNewProcess, NoneListed, Undrained, ProcessAlive, Drained
<1>2. CASE JobWorker(o)
  <2>1. /\ turn' = turn /\ phase' = phase /\ JobsStay(o) /\ job'[o].listed = job[o].listed
        /\ job'[o].stage \in {"exited", "finished"}
    BY <1>2, JobWorkerDoes
  <2> QED
    BY <2>1 DEF NoNewTurn, TurnAlive, NoNewProcess, NoneListed, JobsStay, Undrained, ProcessAlive,
       Drained
<1> QED
  BY <1>1, <1>2

-----------------------------------------------------------------------------
(* One session runs one thing, and a shutdown reaches everything.          *)

OneEach ==
  \A o, q \in Operation : o # q =>
    /\ TurnAlive(o) /\ TurnAlive(q) => turn[o].session # turn[q].session
    /\ Undrained(o) /\ Undrained(q) => job[o].session # job[q].session
    /\ TurnAlive(o) /\ Undrained(q) => turn[o].session # job[q].session

\* After the cancel pass no turn runs uncancelled; after the drain the map is
\* empty.
Reached ==
  /\ phase \notin {"serving", "admission_closed"} =>
       \A o \in Operation : TurnAlive(o) => turn[o].cancelled
  /\ phase = "drained" => \A o \in Operation : ~job[o].listed

ActivityInv == DaemonInv /\ Control /\ Turns /\ Jobs /\ OneEach /\ Reached

\* A turn starts where neither a turn nor a process runs, while the daemon serves.
LEMMA SpawnIsAlone ==
  ASSUME ActivityInv, NEW c \in Client, SubmitSpawn(c), NoNewProcess, NoneListed
  PROVE  OneEach' /\ Reached'
<1> USE DEF ActivityInv, DaemonInv
<1>0. conn[c].pc = "submit_spawn" /\ phase = "serving" /\ phase' = phase
  BY DEF SubmitSpawn, Admission
<1>i. PICK s \in SessionId, o \in Operation : s = conn[c].session /\ o = conn[c].op
  BY <1>0, ThreadFacts DEF SubmitPc
<1>1. TurnReaches(o, "spawned") /\ turn[o].session = s /\ turn[o].stage = "submitting"
  BY <1>0, <1>i, SubmitSpawnDoes DEF Threads, Starting, SubmitPc
<1>2. active[s] = o /\ Live(s) /\ Holds(c, s) /\ ~Leaving(c, s)
  BY <1>0, <1>i DEF Turns, Reserves, ReservedPc, Control, ControlOf, SubmitPc, Holds, ClosePc,
     Leaving
<1>3. ASSUME NEW q \in Operation, q # o, TurnAlive(q) PROVE turn[q].session # s
  BY <1>2, <1>3, NoneRuns
<1>4. ASSUME NEW q \in Operation, Undrained(q) PROVE job[q].session # s
  BY <1>0, <1>4, <1>i DEF Jobs, Alone, SubmitPc
<1>5. \A q \in Operation : TurnAlive(q)' =>
        \/ q = o /\ turn'[q].session = s
        \/ q # o /\ TurnAlive(q) /\ turn'[q] = turn[q]
  BY <1>1 DEF TurnReaches, TurnsStay, TurnAlive
<1>6. \A q \in Operation : Undrained(q)' => Undrained(q) /\ job'[q].session = job[q].session
  BY DEF NoNewProcess
<1>7. ASSUME NEW p \in Operation, NEW q \in Operation, p # q
      PROVE  /\ TurnAlive(p)' /\ TurnAlive(q)' => turn'[p].session # turn'[q].session
             /\ Undrained(p)' /\ Undrained(q)' => job'[p].session # job'[q].session
             /\ TurnAlive(p)' /\ Undrained(q)' => turn'[p].session # job'[q].session
  BY <1>3, <1>4, <1>5, <1>6, <1>7 DEF OneEach
<1> QED
  BY <1>0, <1>7 DEF OneEach, Reached

\* A process starts where neither a turn nor another process runs.
LEMMA StartIsAlone ==
  ASSUME ActivityInv, NEW c \in Client, PtySpawn(c), NoNewTurn, NoneListed
  PROVE  OneEach' /\ Reached'
<1> USE DEF ActivityInv, DaemonInv
<1>0. conn[c].pc = "pty_spawn" /\ phase' = phase
  BY DEF PtySpawn, Step
<1>i. PICK s \in SessionId, o \in Operation : s = conn[c].session /\ o = conn[c].op
  BY <1>0, ThreadFacts DEF PtyPc
<1>1. JobsStay(o) /\ job'[o].session = s
  BY <1>i, PtySpawnDoes
<1>2. ASSUME NEW q \in Operation, TurnAlive(q) PROVE turn[q].session # s
  BY <1>0, <1>2, <1>i DEF Turns, Reserves, PtyPc
<1>3. ASSUME NEW q \in Operation, q # o, Undrained(q) PROVE job[q].session # s
  BY <1>0, <1>3, <1>i DEF Jobs, Alone, AdmittedPc
<1>4. \A q \in Operation : TurnAlive(q)' => TurnAlive(q) /\ turn'[q].session = turn[q].session
  BY DEF NoNewTurn
<1>5. \A q \in Operation : Undrained(q)' =>
        \/ q = o /\ job'[q].session = s
        \/ q # o /\ Undrained(q) /\ job'[q] = job[q]
  BY <1>0, <1>1 DEF JobsStay, Undrained, ProcessAlive, Drained
<1>6. ASSUME NEW p \in Operation, NEW q \in Operation, p # q
      PROVE  /\ TurnAlive(p)' /\ TurnAlive(q)' => turn'[p].session # turn'[q].session
             /\ Undrained(p)' /\ Undrained(q)' => job'[p].session # job'[q].session
             /\ TurnAlive(p)' /\ Undrained(q)' => turn'[p].session # job'[q].session
  BY <1>2, <1>3, <1>4, <1>5, <1>6 DEF OneEach
<1>7. Reached'
  BY <1>0 DEF Reached, NoNewTurn, NoneListed
<1> QED
  BY <1>6, <1>7 DEF OneEach

\* The shutdown's passes reach what they must.
LEMMA ShutdownReaches ==
  ASSUME ActivityInv, Shutdown
  PROVE  OneEach' /\ Reached'
<1> USE DEF ActivityInv, DaemonInv
<1>1. NoNewTurn
  <2>1. CASE CancelActive
    BY <2>1, CancelActiveDoes DEF NoNewTurn, TurnAlive, TurnsCancelled
  <2>2. CASE ~CancelActive
    BY <2>2 DEF Shutdown, StopAdmission, StopPtys, DrainPtys, NoNewTurn, TurnAlive
  <2> QED
    BY <2>1, <2>2
<1>2. NoNewProcess /\ (phase' = "drained" => \A o \in Operation : ~job'[o].listed)
  <2>1. CASE DrainPtys
    BY <2>1, DrainDoes DEF DrainPtys, NoNewProcess, Undrained, ProcessAlive, Drained
  <2>2. CASE ~DrainPtys
    BY <2>2 DEF Shutdown, StopAdmission, CancelActive, StopPtys, NoNewProcess, Undrained,
       ProcessAlive, Drained
  <2> QED
    BY <2>1, <2>2
<1>3. OneEach'
  BY <1>1, <1>2 DEF OneEach, NoNewTurn, NoNewProcess
<1>4. ASSUME phase' \notin {"serving", "admission_closed"}, NEW o \in Operation, TurnAlive(o)'
      PROVE  turn'[o].cancelled
  <2>1. TurnAlive(o) /\ (turn[o].cancelled => turn'[o].cancelled)
    BY <1>1, <1>4 DEF NoNewTurn
  <2>2. CASE CancelActive
    <3>1. turn[o].session \in SessionId
      BY <2>1 DEF TurnAlive, Threads, OneRole, DaemonTypes, TurnType, Turn
    <3>2. active[turn[o].session] = o \/ turn[o].cancelled
      BY <2>1, <3>1 DEF Turns, Known
    <3>3. \A s \in SessionId : active[s] # None => turn'[active[s]].cancelled
      BY <2>2, CancelActiveDoes
    <3> QED
      BY <2>1, <3>1, <3>2, <3>3, NoneAssumption
  <2>3. CASE ~CancelActive
    <3>1. phase \notin {"serving", "admission_closed"}
      BY <1>4, <2>3 DEF Shutdown, StopAdmission, StopPtys, DrainPtys
    <3> QED
      BY <2>1, <3>1 DEF Reached
  <2> QED
    BY <2>2, <2>3
<1> QED
  BY <1>2, <1>3, <1>4 DEF Reached

\* Every step keeps it.
LEMMA ActivityNext == ActivityInv /\ [DaemonNext]_vars => ActivityInv'
<1> SUFFICES ASSUME ActivityInv, [DaemonNext]_vars PROVE ActivityInv'
  OBVIOUS
<1> USE DEF ActivityInv
<1>1. DaemonInv' /\ Control' /\ Turns' /\ Jobs'
  BY DaemonInvNext, TurnsNext, JobsNext
<1>2. ASSUME NoNewTurn, NoNewProcess, NoneListed, phase' = phase PROVE OneEach' /\ Reached'
  <2>1. OneEach'
    BY <1>2 DEF OneEach, NoNewTurn, NoNewProcess
  <2>2. Reached'
    BY <1>2 DEF Reached, NoNewTurn, NoneListed
  <2> QED
    BY <2>1, <2>2
<1>3. ASSUME UNCHANGED <<turn, job, phase>> PROVE OneEach' /\ Reached'
  BY <1>2, <1>3 DEF NoNewTurn, NoNewProcess, NoneListed, TurnAlive, Undrained, ProcessAlive, Drained
<1>4. ASSUME NEW c \in Client, Handler(c) PROVE OneEach' /\ Reached'
  <2>1. /\ phase' = phase
        /\ SubmitSpawn(c) \/ NoNewTurn
        /\ PtySpawn(c) \/ NoNewProcess
        /\ PtyInsert(c) \/ NoneListed
    BY <1>4, HandlerStarts
  <2>2. CASE SubmitSpawn(c)
    <3>1. job' = job
      BY <2>2 DEF SubmitSpawn
    <3>2. NoNewProcess /\ NoneListed
      BY <2>1, <3>1 DEF NoNewProcess, NoneListed, Undrained, ProcessAlive, Drained
    <3> QED
      BY <2>2, <3>2, SpawnIsAlone
  <2>3. CASE PtySpawn(c)
    <3>1. turn' = turn /\ ~PtyInsert(c)
      BY <2>3 DEF PtySpawn, PtyInsert, Step
    <3>2. NoNewTurn
      BY <3>1 DEF NoNewTurn, TurnAlive
    <3> QED
      BY <2>1, <2>3, <3>1, <3>2, StartIsAlone
  <2>4. CASE PtyInsert(c)
    <3>1. phase \in {"serving", "admission_closed", "cancelled"} /\ turn' = turn
      BY <2>4 DEF PtyInsert, Accepting
    <3>2. NoNewTurn /\ NoNewProcess
      BY <2>1, <2>4, <3>1 DEF NoNewTurn, TurnAlive, PtyInsert, PtySpawn, Step
    <3>3. OneEach'
      BY <3>2 DEF OneEach, NoNewTurn, NoNewProcess
    <3>4. Reached'
      BY <2>1, <3>1, <3>2 DEF Reached, NoNewTurn
    <3> QED
      BY <3>3, <3>4
  <2>5. CASE ~SubmitSpawn(c) /\ ~PtySpawn(c) /\ ~PtyInsert(c)
    BY <1>2, <2>1, <2>5
  <2> QED
    BY <2>2, <2>3, <2>4, <2>5
<1>5. ASSUME Stop PROVE OneEach' /\ Reached'
  <2>1. /\ phase' = "serving"
        /\ \A o \in Operation : ~TurnAlive(o)' /\ ~Undrained(o)'
    BY <1>5, StopDoes DEF TurnAlive, Undrained, ProcessAlive, DaemonInv
  <2>2. OneEach'
    BY <2>1 DEF OneEach
  <2>3. Reached'
    BY <2>1 DEF Reached
  <2> QED
    BY <2>2, <2>3
<1>6. OneEach' /\ Reached'
  BY <1>2, <1>3, <1>4, <1>5, RequestStarts, WorkerStarts, ShutdownReaches
     DEF DaemonNext, Restart, Environment, vars, daemon
<1> QED
  BY <1>1, <1>6

\* It holds when the daemon starts.
LEMMA ActivityInit == DaemonInit => ActivityInv
<1> SUFFICES ASSUME DaemonInit PROVE ActivityInv
  OBVIOUS
<1>1. DaemonInv /\ up
  BY DaemonInvInit DEF DaemonInit, Init
<1>2. /\ \A c \in Client : /\ conn[c].attached = None /\ conn[c].session = None
                           /\ conn[c].next = None
      /\ phase = "serving"
  BY DEF DaemonInit, IdleConn
<1>3. \A o \in Operation : turn[o].stage = "unborn" /\ job[o].stage = "unborn"
  BY NoTurnType, NoJobType DEF DaemonInit
<1>4. \A s \in SessionId : s # None
  BY NoneAssumption
<1>5. Control
  BY <1>1, <1>2, <1>4 DEF Control, ControlOf, Holds
<1>6. Turns
  BY <1>2, <1>3, <1>4 DEF Turns, Known, Reserves, TurnAlive
<1>7. Jobs
  BY <1>2, <1>3, <1>4 DEF Jobs, HasStarter, IsListed, Alone
<1>8. OneEach /\ Reached
  BY <1>2, <1>3 DEF OneEach, Reached, TurnAlive, Undrained, ProcessAlive
<1> QED
  BY <1>1, <1>5, <1>6, <1>7, <1>8 DEF ActivityInv

\* The invariant behind both: who controls what, where turns and terminal jobs
\* can be, and that a session runs at most one of them.
THEOREM ActivityInvariance == DaemonSpec => []ActivityInv
BY ActivityInit, ActivityNext, PTL DEF DaemonSpec

\* One session runs one thing: never two turns, two terminal processes or one of
\* each, although submit, PtyStart, PtyClose, detach and close check it under
\* different locks (xshelld.rs, execution.rs, pty.rs).
THEOREM OneActivityAtATime == DaemonSpec => []OneActivity
<1>1. ActivityInv => OneActivity
  BY DEF ActivityInv, OneEach, OneActivity, Undrained
<1> QED
  BY <1>1, ActivityInvariance, PTL

\* The graceful shutdown of main() reaches everything that was admitted: no
\* turn runs uncancelled after the cancel pass, no process runs untold after
\* the drain, however submissions and terminal starts are interleaved with it.
THEOREM ShutdownIsComplete == DaemonSpec => []ShutdownReachesAll
<1>1. ASSUME ActivityInv PROVE ShutdownReachesAll
  BY <1>1 DEF ActivityInv, Reached, Jobs, IsListed, ShutdownReachesAll
<1> QED
  BY <1>1, ActivityInvariance, PTL

-----------------------------------------------------------------------------
(* While the session file can be written.                                  *)

\* Every write of sessions.json succeeds.
WritesSucceed == ~PersistMayFail

\* Then every outcome of persist() is success.
LEMMA OutcomeIsSuccess == ASSUME WritesSucceed PROVE PersistOutcome = {TRUE}
BY DEF WritesSucceed, PersistOutcome

-----------------------------------------------------------------------------
(* Attachments.                                                            *)

\* Whatever x did, it attached nobody but itself.
AddsOnly(x) ==
  \A s \in SessionId : sessions'[s] # None =>
    \/ sessions'[s].attachments \subseteq {x}
    \/ Live(s) /\ sessions'[s].attachments \subseteq sessions[s].attachments \cup {x}

\* A step that touches no controller attaches nobody.
LEMMA SameAdds == ASSUME SameControl, NEW x PROVE AddsOnly(x)
BY DEF SameControl, AddsOnly

\* A client's step attaches nobody else.
LEMMA ClientAdds ==
  ASSUME IInv, NEW c \in Client, NEW ok \in PersistOutcome, ClientStep(c, ok)
  PROVE  AddsOnly(c)
<1>0. TypeOK
  BY DEF IInv
<1>1. ASSUME NEW id \in SessionId, NEW n \in Name, NEW p \in PersistenceMode,
             NEW d \in Directory, NEW h \in ClientHistories, create(c, id, n, p, d, h, ok)
      PROVE  AddsOnly(c)
  <2>1. /\ sessions'[id].attachments = {c}
        /\ \A s \in SessionId \ {id} : sessions'[s] = sessions[s]
    BY <1>0, <1>1, CreateControl
  <2> QED
    BY <2>1 DEF AddsOnly, Live
<1>2. ASSUME NEW s \in SessionId, attach(c, s) PROVE AddsOnly(c)
  <2>1. /\ sessions'[s].attachments = {c}
        /\ \A t \in SessionId \ {s} : sessions'[t] = sessions[t]
    BY <1>0, <1>2, AttachControl
  <2> QED
    BY <2>1 DEF AddsOnly, Live
<1>3. ASSUME NEW s \in SessionId, close(c, s, ok) PROVE AddsOnly(c)
  <2>1. /\ sessions'[s] = None
        /\ \A t \in SessionId \ {s} : sessions'[t] = sessions[t]
    BY <1>0, <1>3, CloseControl
  <2> QED
    BY <2>1 DEF AddsOnly, Live
<1>4. ASSUME NEW s \in SessionId, detach(c, s, ok) PROVE AddsOnly(c)
  <2>1. /\ \A t \in SessionId \ {s} : sessions'[t] = sessions[t]
        /\ ~Live(s) => sessions'[s] = sessions[s]
        /\ Live(s) =>
              \/ sessions'[s] = None
              \/ sessions'[s].attachments = sessions[s].attachments \ {c}
    BY <1>0, <1>4, DetachControl
  <2> QED
    BY <2>1 DEF AddsOnly, Live
<1>5. ASSUME NEW s \in SessionId, NEW d \in Directory, NEW h \in ClientHistories,
             update(c, s, d, h, ok)
      PROVE  AddsOnly(c)
  <2>1. SameControl
    BY <1>0, <1>5, ClientHistoriesType, WithStateControl DEF update
  <2> QED
    BY <2>1, SameAdds
<1> QED
  BY <1>1, <1>2, <1>3, <1>4, <1>5 DEF ClientStep

\* Connection c is closing s, which is already removed.
Closing(c, s) == conn[c].session = s /\ conn[c].pc \in ClosePc

\* A connection holds every session it is attached to, and what it holds is
\* there unless it is closing it; one that ends keeps no session for later.
AgreeOn(c, s) ==
  /\ Live(s) /\ c \in sessions[s].attachments => Holds(c, s)
  /\ Holds(c, s) => Live(s) \/ Closing(c, s)
  /\ conn[c].leaving => conn[c].next # s

Agree == \A c \in Client, s \in SessionId : AgreeOn(c, s)

\* What c does leaves the others' agreement as it was.
LEMMA AgreeStep ==
  ASSUME Control, Agree, NEW c \in Client, OthersStay(c), SparesOthers(c), AddsOnly(c),
         \A s \in SessionId : AgreeOn(c, s)'
  PROVE  Agree'
<1>1. ASSUME NEW d \in Client, d # c, NEW s \in SessionId PROVE AgreeOn(d, s)'
  <2>1. conn'[d] = conn[d] /\ AgreeOn(d, s) /\ ControlOf(d, s)
    BY <1>1 DEF OthersStay, Agree, Control
  <2>2. (Holds(d, s)' <=> Holds(d, s)) /\ (Closing(d, s)' <=> Closing(d, s))
    BY <2>1 DEF Holds, Closing
  <2>3. ASSUME sessions'[s] # None, d \in sessions'[s].attachments
        PROVE  Live(s) /\ d \in sessions[s].attachments
    BY <1>1, <2>3 DEF AddsOnly
  <2>4. ASSUME Holds(d, s), Live(s) PROVE sessions'[s] # None
    BY <1>1, <2>1, <2>4 DEF ControlOf, SparesOthers
  <2> QED
    BY <2>1, <2>2, <2>3, <2>4 DEF AgreeOn, Live
<1> QED
  BY <1>1 DEF Agree

\* A step of c that touches no controller: it lets go of nothing that is there.
LEMMA AgreeQuiet ==
  ASSUME Control, Agree, NEW c \in Client, OthersStay(c), SameControl,
         \A s \in SessionId :
           /\ Holds(c, s) /\ Live(s) => Holds(c, s)'
           /\ Holds(c, s)' => Holds(c, s) /\ (Closing(c, s) => Closing(c, s)')
           /\ conn'[c].leaving => conn'[c].next # s
  PROVE  Agree'
<1>1. ASSUME NEW s \in SessionId PROVE AgreeOn(c, s)'
  <2>1. /\ AgreeOn(c, s) /\ (sessions'[s] # None <=> Live(s))
        /\ Live(s) => sessions'[s].attachments = sessions[s].attachments
    BY DEF Agree, SameControl
  <2> QED
    BY <2>1 DEF AgreeOn, Live
<1>2. SparesOthers(c) /\ AddsOnly(c)
  BY SameSpares, SameAdds
<1> QED
  BY <1>1, <1>2, AgreeStep

\* create, attach and switch: the new session is held, and the previous one
\* until it is detached.
LEMMA AcquireAgrees ==
  ASSUME WritesSucceed, DaemonInv, Control, Agree, NEW c \in Client,
         NEW s \in SessionId, conn[c].pc = "idle",
         NEW ok \in PersistOutcome, ClientStep(c, ok),
         sessions'[s] # None, \A t \in SessionId \ {s} : sessions'[t] = sessions[t],
         \/ conn[c].attached \in {None, s} /\ Attaches(c, s)
         \/ conn[c].attached \notin {None, s} /\ LetsGo(c, s, FALSE)
  PROVE  Agree'
<1> USE DEF DaemonInv
<1>1. OthersStay(c) /\ SparesOthers(c) /\ AddsOnly(c)
  BY ClientSpares, ClientAdds DEF Attaches, LetsGo
<1>2. conn[c].session = None /\ conn[c].next = None /\ ~conn[c].leaving
  BY ThreadFacts
<1>3. ASSUME NEW t \in SessionId PROVE AgreeOn(c, t)'
  <2>1. AgreeOn(c, t) /\ t # None
    BY NoneAssumption DEF Agree
  <2>2. Holds(c, t) <=> conn[c].attached = t
    BY <1>2, <2>1 DEF Holds
  <2>3. Holds(c, t)' <=> t = s \/ conn[c].attached = t
    BY <1>2, <2>1 DEF Holds, Attaches, LetsGo, ClosePc
  <2>4. ~Closing(c, t) /\ ~conn'[c].leaving
    BY <1>2 DEF Closing, ClosePc, Attaches, LetsGo
  <2> QED
    BY <2>1, <2>2, <2>3, <2>4 DEF AgreeOn, Live
<1> QED
  BY <1>1, <1>3, AgreeStep

\* A request keeps the agreement.
LEMMA RequestAgrees ==
  ASSUME WritesSucceed, DaemonInv, Control, Agree, NEW c \in Client, Requests(c)
  PROVE  Agree'
<1> USE DEF DaemonInv
<1>0. /\ TypeOK /\ PersistOutcome = {TRUE} /\ OthersStay(c) /\ SparesOthers(c)
      /\ \A s \in SessionId : s # None
  BY OutcomeIsSuccess, RequestControl, NoneAssumption DEF IInv
<1>1. conn[c].pc = "idle" /\ conn[c].session = None /\ conn[c].next = None /\ ~conn[c].leaving
  <2>1. conn[c].pc = "idle"
    BY DEF Requests, CreateRequest, AttachRequest, SwitchRequest, CloseRequest, DetachRequest,
       Disconnect, UpdateRequest, CancelRequest, SubmitSnapshot, PtyStartRequest, PtyCloseRequest
  <2> QED
    BY <2>1, ThreadFacts
<1>2. ASSUME NEW id \in SessionId, NEW n \in Name, NEW p \in PersistenceMode,
             NEW d \in Directory, NEW h \in ClientHistories, NEW ok \in PersistOutcome,
             CreateRequest(c, id, n, p, d, h, ok)
      PROVE  Agree'
  <2>1. create(c, id, n, p, d, h, ok) /\ ok = TRUE
    BY <1>0, <1>2 DEF CreateRequest
  <2>2. ClientStep(c, ok)
    BY <2>1 DEF ClientStep
  <2>3. sessions'[id] # None /\ \A t \in SessionId \ {id} : sessions'[t] = sessions[t]
    BY <1>0, <2>1, CreateControl
  <2>4. \/ conn[c].attached \in {None, id} /\ Attaches(c, id)
        \/ conn[c].attached \notin {None, id} /\ LetsGo(c, id, FALSE)
    BY <1>2, <2>1, CreateDoes
  <2> QED
    BY <1>1, <2>2, <2>3, <2>4, AcquireAgrees
<1>3. ASSUME NEW selector \in SessionId \cup Name, NEW s \in SessionId,
             AttachRequest(c, selector, s) \/ SwitchRequest(c, selector, s)
      PROVE  Agree'
  <2>1. attach(c, s) /\ Resolves(selector, s)
    BY <1>3 DEF AttachRequest, SwitchRequest
  <2>2. ClientStep(c, TRUE)
    BY <2>1 DEF ClientStep
  <2>3. sessions'[s] # None /\ \A t \in SessionId \ {s} : sessions'[t] = sessions[t]
    BY <1>0, <2>1, AttachControl
  <2>4. \/ conn[c].attached \in {None, s} /\ Attaches(c, s)
        \/ conn[c].attached \notin {None, s} /\ LetsGo(c, s, FALSE)
    BY <1>3, AttachDoes
  <2> QED
    BY <1>0, <1>1, <2>2, <2>3, <2>4, AcquireAgrees
<1>4. ASSUME NEW selector \in SessionId \cup Name, NEW s \in SessionId,
             NEW ok \in PersistOutcome, CloseRequest(c, selector, s, ok)
      PROVE  Agree'
  <2>1. close(c, s, ok) /\ ok = TRUE /\ Resolves(selector, s)
    BY <1>0, <1>4 DEF CloseRequest
  <2>2. ClientStep(c, ok)
    BY <2>1 DEF ClientStep
  <2>3. sessions'[s] = None /\ \A t \in SessionId \ {s} : sessions'[t] = sessions[t]
    BY <1>0, <2>1, CloseControl
  <2>4. /\ conn'[c].attached = conn[c].attached /\ conn'[c].next = conn[c].next
        /\ conn'[c].leaving = conn[c].leaving
        /\ conn'[c].pc = "close_terminate" /\ conn'[c].session = s
    BY <1>4, <2>1, CloseDoes
  <2>5. AddsOnly(c)
    BY <2>2, ClientAdds
  <2>6. ASSUME NEW t \in SessionId PROVE AgreeOn(c, t)'
    <3>1. AgreeOn(c, t) /\ ~Closing(c, t)
      BY <1>1 DEF Agree, Closing, ClosePc
    <3>2. (Holds(c, t) <=> conn[c].attached = t) /\ (Holds(c, t)' <=> conn[c].attached = t)
      BY <1>0, <1>1, <2>4 DEF Holds, ClosePc
    <3>3. Closing(c, s)'
      BY <2>4 DEF Closing, ClosePc
    <3> QED
      BY <1>1, <2>3, <2>4, <3>1, <3>2, <3>3 DEF AgreeOn, Live
  <2> QED
    BY <1>0, <2>5, <2>6, AgreeStep
<1>5. ASSUME SameControl, conn'[c].pc \notin ClosePc, ~conn'[c].leaving \/ conn'[c].next = None,
             \/ conn'[c].attached = conn[c].attached
             \/ conn'[c].attached = None /\ conn'[c].session = conn[c].attached,
             conn'[c].session \in {None, conn[c].attached}, conn'[c].next = None
      PROVE  Agree'
  <2>1. ASSUME NEW s \in SessionId
        PROVE  /\ Holds(c, s) => Holds(c, s)'
               /\ Holds(c, s)' => Holds(c, s) /\ ~Closing(c, s)
               /\ conn'[c].leaving => conn'[c].next # s
    BY <1>0, <1>1, <1>5 DEF Holds, Closing, ClosePc
  <2> QED
    BY <1>0, <1>5, <2>1, AgreeQuiet
<1>6. CASE DetachRequest(c) \/ Disconnect(c)
  <2>1. SameControl
    BY <1>6, UnchangedControl DEF DetachRequest, Disconnect
  <2>2. \/ conn[c].attached = None /\ Left(c)
        \/ \E leaving \in BOOLEAN : LetsGo(c, None, leaving)
    BY <1>6, LeaveDoes
  <2> QED
    BY <1>5, <2>1, <2>2 DEF Left, LetsGo, ClosePc
<1>7. ASSUME NEW d \in Directory, NEW h \in ClientHistories, NEW ok \in PersistOutcome,
             UpdateRequest(c, d, h, ok)
      PROVE  Agree'
  <2>1. /\ conn[c].attached \in SessionId /\ conn' = conn
        /\ update(c, conn[c].attached, d, h, ok)
    BY <1>7, ThreadFacts DEF UpdateRequest, daemon
  <2>2. SameControl
    BY <1>0, <2>1, ClientHistoriesType, WithStateControl DEF update
  <2> QED
    BY <1>1, <1>5, <2>1, <2>2 DEF ClosePc
<1>8. CASE CancelRequest(c) \/ PtyCloseRequest(c)
  <2>1. SameControl /\ (conn' = conn \/ PtyCloseRequest(c))
    BY <1>8, UnchangedControl DEF CancelRequest, PtyCloseRequest
  <2> QED
    BY <1>1, <1>5, <2>1, PtyCloseDoes DEF ClosePc
<1>9. ASSUME NEW o \in Operation, SubmitSnapshot(c, o) \/ PtyStartRequest(c, o) PROVE Agree'
  <2>1. SameControl
    BY <1>9, UnchangedControl DEF SubmitSnapshot, PtyStartRequest
  <2>2. Begins(c, o, "submit_reserve") \/ Begins(c, o, "pty_reap")
    BY <1>0, <1>9, SubmitSnapshotDoes, PtyStartDoes
  <2> QED
    BY <1>1, <1>5, <2>1, <2>2 DEF Begins, ClosePc
<1> QED
  BY <1>2, <1>3, <1>4, <1>6, <1>7, <1>8, <1>9 DEF Requests

\* What a connection thread does for a submit, a terminal start or the wait of
\* a terminal close.
Starts(c) ==
  \/ SubmitReserve(c) \/ SubmitSpawn(c)
  \/ \E recorded \in BOOLEAN : SubmitAudit(c, recorded)
  \/ \E ok \in BOOLEAN : SubmitBegin(c, ok)
  \/ \E ok \in PersistOutcome : SubmitNotSpawned(c, ok)
  \/ PtyReap(c) \/ PtyAdmit(c) \/ PtySpawn(c) \/ PtyInsert(c)
  \/ \E recorded \in BOOLEAN : PtyAudit(c, recorded)
  \/ \E ok \in BOOLEAN : PtyBegin(c, ok)
  \/ \E ok \in PersistOutcome : PtySpawnFails(c, ok) \/ PtyInsertRefused(c, ok)
  \/ PtyCloseWait(c)

\* It touches no controller and stays within its request.
LEMMA StartsDo ==
  ASSUME DaemonInv, NEW c \in Client, Starts(c), PersistOutcome = {TRUE}
  PROVE  /\ conn[c].pc \in SubmitPc \cup PtyPc \cup {"ptyclose_wait"} /\ SameControl
         /\ \/ Returned(c, conn[c].session)
            \/ \E to \in SubmitPc \cup PtyPc : Moved(c, to)
<1> USE DEF DaemonInv, Starts
<1>0. TypeOK
  BY DEF IInv
<1>1. conn[c].pc \in SubmitPc \cup PtyPc \cup {"ptyclose_wait"}
  BY DEF SubmitReserve, SubmitSpawn, SubmitAudit, SubmitBegin, SubmitNotSpawned, PtyReap,
     PtyAdmit, PtySpawn, PtyInsert, PtyAudit, PtyBegin, PtySpawnFails, PtyInsertRefused,
     PtyCloseWait, Step, SubmitPc, PtyPc
<1>2. /\ conn[c].session = conn[c].attached /\ conn[c].session \in SessionId
      /\ conn[c].pc \in SubmitPc \cup PtyPc => conn[c].op \in Operation
      /\ conn[c].pc \notin ClosePc /\ conn[c].next = None /\ ~conn[c].leaving
  BY <1>1, ThreadFacts DEF SubmitPc, PtyPc, ClosePc, DetachPc
<1>3. SameControl
  <2>1. CASE UNCHANGED regvars
    BY <2>1, UnchangedControl
  <2>2. CASE ~UNCHANGED regvars
    <3>1. /\ conn[c].pc # "ptyclose_wait"
          /\ \E ok \in BOOLEAN : \/ begin_execution(conn[c].session, conn[c].op, ok)
                                 \/ finish_execution(conn[c].session, conn[c].op, ok)
      BY <1>0, <2>2 DEF SubmitReserve, SubmitSpawn, SubmitAudit, SubmitBegin,
         SubmitNotSpawned, PtyReap, PtyAdmit, PtySpawn, PtyInsert, PtyAudit, PtyBegin,
         PtySpawnFails, PtyInsertRefused, PtyCloseWait
    <3> QED
      BY <1>0, <1>1, <1>2, <3>1, OperationControl
  <2> QED
    BY <2>1, <2>2
<1>4. \/ Returned(c, conn[c].session)
      \/ \E to \in SubmitPc \cup PtyPc : Moved(c, to)
  <2>1. CASE \/ SubmitReserve(c) \/ SubmitSpawn(c)
             \/ \E recorded \in BOOLEAN : SubmitAudit(c, recorded)
             \/ \E ok \in BOOLEAN : SubmitBegin(c, ok)
             \/ \E ok \in PersistOutcome : SubmitNotSpawned(c, ok)
    BY <2>1, SubmitReserveDoes, SubmitSpawnDoes, SubmitAuditDoes, SubmitBeginDoes,
       SubmitNotSpawnedDoes DEF SubmitPc
  <2>2. CASE \/ PtyReap(c) \/ PtyAdmit(c) \/ PtySpawn(c) \/ PtyInsert(c)
             \/ \E recorded \in BOOLEAN : PtyAudit(c, recorded)
             \/ \E ok \in BOOLEAN : PtyBegin(c, ok)
             \/ \E ok \in PersistOutcome : PtySpawnFails(c, ok) \/ PtyInsertRefused(c, ok)
             \/ PtyCloseWait(c)
    <3>1. CASE PtyReap(c) \/ PtyAdmit(c) \/ PtySpawn(c) \/ PtyInsert(c)
      BY <3>1, PtyReapDoes, PtyWaitsDo, PtySpawnDoes, PtyInsertDoes DEF PtyPc
    <3>2. CASE \/ \E recorded \in BOOLEAN : PtyAudit(c, recorded)
               \/ \E ok \in BOOLEAN : PtyBegin(c, ok)
               \/ PtyCloseWait(c)
      BY <3>2, PtyWaitsDo, PtyBeginDoes, PtyCloseWaitDoes DEF PtyPc
    <3>3. CASE \E ok \in PersistOutcome : PtySpawnFails(c, ok) \/ PtyInsertRefused(c, ok)
      BY <3>3, PtySpawnFailsDoes, PtyInsertRefusedDoes DEF PtyPc
    <3> QED
      BY <2>2, <3>1, <3>2, <3>3
  <2> QED
    BY <2>1, <2>2
<1> QED
  BY <1>1, <1>3, <1>4

\* So does what a connection thread goes on to do.
LEMMA HandlerAgrees ==
  ASSUME WritesSucceed, DaemonInv, Control, Agree, NEW c \in Client, Handler(c)
  PROVE  Agree'
<1> USE DEF DaemonInv
<1>0. /\ TypeOK /\ PersistOutcome = {TRUE} /\ OthersStay(c) /\ SparesOthers(c)
      /\ \A s \in SessionId : s # None /\ AgreeOn(c, s) /\ ControlOf(c, s)
  BY OutcomeIsSuccess, HandlerControl, NoneAssumption DEF IInv, Agree, Control
<1>1. ASSUME SameControl, conn[c].attached = conn[c].session, conn[c].pc \notin ClosePc,
             conn[c].next = None, ~conn[c].leaving,
             \/ Returned(c, conn[c].session)
             \/ \E to \in ConnPc \ ClosePc : Moved(c, to)
      PROVE  Agree'
  <2>1. ASSUME NEW s \in SessionId
        PROVE  /\ Holds(c, s) => Holds(c, s)'
               /\ Holds(c, s)' => Holds(c, s) /\ ~Closing(c, s)
               /\ ~conn'[c].leaving
    BY <1>0, <1>1 DEF Holds, Closing, Returned, Moved
  <2> QED
    BY <1>0, <1>1, <2>1, AgreeQuiet
<1>2. CASE Starts(c)
  <2>1. /\ conn[c].pc \in SubmitPc \cup PtyPc \cup {"ptyclose_wait"} /\ SameControl
        /\ \/ Returned(c, conn[c].session)
           \/ \E to \in SubmitPc \cup PtyPc : Moved(c, to)
    BY <1>0, <1>2, StartsDo
  <2>2. /\ conn[c].session = conn[c].attached /\ conn[c].session \in SessionId
        /\ conn[c].pc \notin ClosePc /\ conn[c].next = None /\ ~conn[c].leaving
    BY <2>1, ThreadFacts DEF SubmitPc, PtyPc, ClosePc, DetachPc
  <2>3. SubmitPc \cup PtyPc \subseteq ConnPc \ ClosePc
    BY DEF SubmitPc, PtyPc, ConnPc, ClosePc
  <2> QED
    BY <1>1, <2>1, <2>2, <2>3
<1>3. ASSUME SameControl, NEW to \in ConnPc, Moved(c, to), to \in ClosePc <=> conn[c].pc \in ClosePc
      PROVE  Agree'
  <2>1. ASSUME NEW s \in SessionId
        PROVE  /\ Holds(c, s)' <=> Holds(c, s)
               /\ Closing(c, s) => Closing(c, s)'
               /\ conn'[c].leaving => conn'[c].next # s
    BY <1>0, <1>3 DEF Holds, Closing, Moved, AgreeOn
  <2> QED
    BY <1>0, <1>3, <2>1, AgreeQuiet
<1>4. CASE DetachSnapshot(c)
  <2>0. conn[c].pc = "detach_snapshot" /\ SameControl
    BY <1>4, UnchangedControl DEF DetachSnapshot
  <2>i. PICK s \in SessionId : s = conn[c].session
    BY <2>0, ThreadFacts
  <2>1. Live(s)
    BY <1>0, <2>0, <2>i DEF AgreeOn, Holds, Closing, ClosePc
  <2>2. Moved(c, "detach_cancel") \/ Moved(c, "detach_registry")
    BY <1>4, <2>1, <2>i, DetachSnapshotDoes
  <2> QED
    BY <1>3, <2>0, <2>2 DEF ClosePc, ConnPc
<1>5. CASE DetachCancel(c) \/ DetachTerminate(c) \/ DetachWait(c) \/ CloseTerminate(c) \/ CloseWait(c)
  <2>1. SameControl
    BY <1>5, UnchangedControl DEF DetachCancel, DetachTerminate, DetachWait, CloseTerminate, CloseWait
  <2>2. \/ conn[c].pc \in DetachPc /\ \E to \in DetachPc : Moved(c, to)
        \/ conn[c].pc \in ClosePc /\ \E to \in ClosePc : Moved(c, to)
    BY <1>5, DetachCancelDoes, TerminateDoes, WaitDoes DEF DetachPc, ClosePc
  <2> QED
    BY <1>3, <2>1, <2>2 DEF DetachPc, ClosePc, ConnPc
<1>6. CASE CloseCancel(c)
  <2>0. conn[c].pc = "close_cancel" /\ SameControl
    BY <1>6, UnchangedControl DEF CloseCancel
  <2>i. PICK s \in SessionId : s = conn[c].session
    BY <2>0, ThreadFacts
  <2>1. ~Live(s) /\ conn[c].next = None
    BY <1>0, <2>0, <2>i, ThreadFacts DEF ControlOf, ClosePc, DetachPc
  <2>2. \/ conn[c].attached = s /\ Returned(c, None)
        \/ conn[c].attached # s /\ Returned(c, conn[c].attached)
    BY <1>6, <2>i, CloseCancelDoes
  <2>3. ASSUME NEW t \in SessionId
        PROVE  /\ Holds(c, t) /\ Live(t) => Holds(c, t)'
               /\ Holds(c, t)' => Holds(c, t) /\ ~Closing(c, t)
               /\ ~conn'[c].leaving
    BY <1>0, <2>0, <2>1, <2>2, <2>i DEF Holds, Closing, Returned, ClosePc
  <2> QED
    BY <1>0, <2>0, <2>3, AgreeQuiet
<1>7. ASSUME NEW ok \in PersistOutcome, DetachRegistry(c, ok) PROVE Agree'
  <2>0. conn[c].pc = "detach_registry" /\ detach(c, conn[c].session, ok) /\ ok = TRUE
    BY <1>0, <1>7 DEF DetachRegistry
  <2>i. PICK s \in SessionId : s = conn[c].session
    BY <2>0, ThreadFacts
  <2>1. ClientStep(c, ok)
    BY <2>0, <2>i DEF ClientStep
  <2>2. /\ \A t \in SessionId \ {s} : sessions'[t] = sessions[t]
        /\ ~Live(s) => sessions'[s] = None
        /\ Live(s) => \/ sessions'[s] = None
                      \/ sessions'[s].attachments = sessions[s].attachments \ {c}
    BY <1>0, <2>0, <2>i, DetachControl DEF Live
  <2>3. \/ conn[c].leaving /\ Left(c)
        \/ ~conn[c].leaving /\ Returned(c, conn[c].next)
    BY <1>7, <2>0, DetachRegistryDoes
  <2>4. conn[c].attached = None
    BY <2>0 DEF Threads, Shape, DetachPc
  <2>5. ASSUME NEW t \in SessionId PROVE AgreeOn(c, t)'
    <3>1. (Holds(c, t)' <=> conn[c].next = t) /\ ~conn'[c].leaving
      BY <1>0, <2>3 DEF Left, Returned, Holds, AgreeOn
    <3>2. Holds(c, t) <=> (t = s \/ conn[c].next = t)
      BY <1>0, <2>0, <2>4, <2>i DEF Holds, ClosePc
    <3>3. ~Closing(c, t) /\ (conn[c].next = t => t # s)
      BY <1>0, <2>0, <2>i DEF Closing, ClosePc, ControlOf
    <3>4. CASE t = s
      BY <2>2, <3>1, <3>3, <3>4 DEF AgreeOn, Live
    <3>5. CASE t # s
      BY <1>0, <2>2, <3>1, <3>2, <3>3, <3>5 DEF AgreeOn, Live
    <3> QED
      BY <3>4, <3>5
  <2> QED
    BY <1>0, <2>1, <2>5, ClientAdds, AgreeStep
<1> QED
  BY <1>2, <1>4, <1>5, <1>6, <1>7 DEF Handler, Starts

\* Every step of the daemon keeps the agreement.
LEMMA AgreeNext ==
  ASSUME WritesSucceed, DaemonInv, Control, Agree, [DaemonNext]_vars, Control'
  PROVE  Agree'
<1> USE DEF DaemonInv
<1>1. ASSUME SameControl, conn' = conn PROVE Agree'
  <2>1. ASSUME NEW c \in Client, NEW s \in SessionId PROVE AgreeOn(c, s)'
    <3>1. /\ AgreeOn(c, s) /\ (sessions'[s] # None <=> Live(s))
          /\ Live(s) => sessions'[s].attachments = sessions[s].attachments
      BY <1>1 DEF Agree, SameControl
    <3> QED
      BY <1>1, <3>1 DEF AgreeOn, Holds, Closing, Live
  <2> QED
    BY <2>1 DEF Agree
<1>2. ASSUME UNCHANGED <<sessions, issued, conn>> PROVE Agree'
  BY <1>1, <1>2 DEF SameControl, Live
<1>3. CASE Stop
  <2>1. /\ \A s \in SessionId : sessions'[s] = None /\ s # None
        /\ \A c \in Client : /\ conn'[c].attached = None /\ conn'[c].session = None
                             /\ conn'[c].next = None
    BY <1>3, StopDoes, NoneAssumption DEF Stop, Crash, NoSessions
  <2> QED
    BY <2>1 DEF Agree, AgreeOn, Holds, Live
<1>4. CASE Restart
  <2>1. ~up /\ conn' = conn /\ \A s \in SessionId : sessions'[s] = Restored(s)
    BY <1>4 DEF Restart, load, daemon
  <2>2. \A s \in SessionId : sessions'[s] = None \/ sessions'[s].attachments = {}
    <3>1. ASSUME NEW s \in SessionId PROVE Restored(s) = None \/ Restored(s).attachments = {}
      BY Zenon DEF Restored
    <3> QED
      BY <2>1, <3>1
  <2>3. \A c \in Client, s \in SessionId : ~Holds(c, s) /\ conn[c].next # s
    BY <2>1 DEF Control, Holds
  <2> QED
    BY <2>1, <2>2, <2>3 DEF Agree, AgreeOn, Holds, Live
<1>5. CASE Shutdown \/ Environment \/ UNCHANGED vars
  BY <1>2, <1>5 DEF Shutdown, StopAdmission, CancelActive, StopPtys, DrainPtys, Environment,
     RemoveDirectory, MakeDirectory, daemon, ghosts, regvars, vars
<1> QED
  BY <1>1, <1>3, <1>4, <1>5, RequestAgrees, HandlerAgrees, WorkerControl DEF DaemonNext

-----------------------------------------------------------------------------
(***************************************************************************)
(* Removal.  A session disappears in a close, whose thread then terminates *)
(* its jobs and cancels its turn, or in the detach of its last controller, *)
(* which has done both before.  So what still belongs to a removed session *)
(* has a thread that is closing it, or has been told to go.                *)
(***************************************************************************)

RunsOn(o, s) == job[o].stage = "running" /\ job[o].listed /\ job[o].session = s

Terminating(c, s) == conn[c].session = s /\ conn[c].pc = "close_terminate"

\* A detach that has terminated the jobs of its ephemeral session.
Cleared(c, s) ==
  /\ conn[c].session = s
  /\ \/ conn[c].pc = "detach_wait"
     \/ conn[c].pc = "detach_registry" /\ Ephemeral(s)
  => \A o \in Operation : ~RunsOn(o, s)

Removed(s) == up /\ s \in issued /\ ~Live(s)

IsClosed(s) ==
  Removed(s) =>
    /\ active[s] # None => \E c \in Client : Closing(c, s)
    /\ \A o \in Operation : RunsOn(o, s) => \E c \in Client : Terminating(c, s)

Removal ==
  /\ \A c \in Client, s \in SessionId : Cleared(c, s)
  /\ \A s \in SessionId : IsClosed(s)
  /\ ~up => \A o \in Operation, s \in SessionId : ~RunsOn(o, s)

\* What no step but PtyInsert does: list a running job.
NoNewRun == \A o \in Operation, s \in SessionId : RunsOn(o, s)' => RunsOn(o, s)

\* Processes that are in the map are not drained.
LEMMA NoNewRunStep ==
  ASSUME Jobs, Reached', NoNewProcess, NoneListed
  PROVE  NoNewRun
<1> SUFFICES ASSUME NEW o \in Operation, NEW s \in SessionId, RunsOn(o, s)' PROVE RunsOn(o, s)
  BY DEF NoNewRun
<1>1. Undrained(o)'
  BY DEF RunsOn, Reached, Undrained, ProcessAlive, Drained
<1>2. Undrained(o) /\ job'[o].session = job[o].session /\ job[o].listed
  BY <1>1 DEF NoNewProcess, NoneListed, RunsOn
<1> QED
  BY <1>2 DEF RunsOn, Undrained, ProcessAlive, Jobs, HasStarter

\* A step that moves no connection and touches no controller.
LEMMA RemovalSame ==
  ASSUME Removal, SameControl, conn' = conn, up' <=> up, NoNewRun,
         \A s \in SessionId : active'[s] \in {None, active[s]}
  PROVE  Removal'
<1>1. ASSUME NEW s \in SessionId
      PROVE  /\ Live(s)' <=> Live(s)
             /\ issued' = issued
             /\ Ephemeral(s)' <=> Ephemeral(s)
  BY DEF SameControl, Live, Ephemeral
<1>2. \A o \in Operation, s \in SessionId : RunsOn(o, s)' => RunsOn(o, s)
  BY DEF NoNewRun
<1>3. ASSUME NEW c \in Client, NEW s \in SessionId PROVE Cleared(c, s)'
  <2>1. Cleared(c, s) /\ (Ephemeral(s)' <=> Ephemeral(s))
    BY <1>1 DEF Removal
  <2> QED
    BY <1>2, <2>1 DEF Cleared
<1>4. ASSUME NEW s \in SessionId PROVE IsClosed(s)'
  <2>1. IsClosed(s) /\ (Removed(s)' <=> Removed(s))
    BY <1>1 DEF Removal, Removed
  <2>2. \A c \in Client : (Closing(c, s)' <=> Closing(c, s)) /\ (Terminating(c, s)' <=> Terminating(c, s))
    BY DEF Closing, Terminating
  <2> QED
    BY <1>2, <2>1, <2>2 DEF IsClosed
<1> QED
  BY <1>2, <1>3, <1>4 DEF Removal

\* A step of connection c.
LEMMA RemovalStep ==
  ASSUME ActivityInv, Removal, NEW c \in Client, OthersStay(c), SparesOthers(c), up, up',
         \A o \in Operation, s \in SessionId : RunsOn(o, s)' =>
           RunsOn(o, s) \/ (conn[c].session = s /\ conn[c].pc = "pty_insert"),
         \A s \in SessionId :
           /\ active'[s] \in {None, active[s]} \/ (conn[c].session = s /\ conn[c].pc = "submit_reserve")
           /\ Cleared(c, s)'
           /\ Closing(c, s) => Closing(c, s)' \/ active'[s] = None
           /\ Terminating(c, s) => \A o \in Operation : ~RunsOn(o, s)'
           /\ Live(s) /\ ~Live(s)' =>
                \/ Terminating(c, s)'
                \/ active'[s] = None /\ \A o \in Operation : ~RunsOn(o, s)'
           /\ s \in issued' /\ ~Live(s)' => s \in issued
  PROVE  Removal'
<1> USE DEF ActivityInv, DaemonInv
<1>0. \A d \in Client : d # c => conn'[d] = conn[d]
  BY DEF OthersStay
<1>1. ASSUME NEW s \in SessionId, conn[c].session = s, conn[c].pc \in {"pty_insert", "submit_reserve"}
      PROVE  Live(s) /\ Holds(c, s)
  BY <1>1 DEF Control, ControlOf, Holds, PtyPc, SubmitPc, ClosePc
<1>2. ASSUME NEW s \in SessionId PROVE IsClosed(s)'
  <2> SUFFICES ASSUME Removed(s)'
               PROVE  /\ active'[s] # None => \E d \in Client : Closing(d, s)'
                      /\ \A o \in Operation : RunsOn(o, s)' => \E d \in Client : Terminating(d, s)'
    BY DEF IsClosed
  <2>1. s \in issued /\ ~Live(s)'
    BY DEF Removed
  <2>2. CASE Live(s)
    <3>1. Terminating(c, s)' => Closing(c, s)'
      BY DEF Terminating, Closing, ClosePc
    <3> QED
      BY <2>1, <2>2, <3>1
  <2>3. CASE ~Live(s)
    <3>1. /\ active[s] # None => \E d \in Client : Closing(d, s)
          /\ \A o \in Operation : RunsOn(o, s) => \E d \in Client : Terminating(d, s)
      BY <2>1, <2>3 DEF Removal, IsClosed, Removed
    <3>2. \A d \in Client : d # c => /\ Closing(d, s)' <=> Closing(d, s)
                                     /\ Terminating(d, s)' <=> Terminating(d, s)
      BY <1>0 DEF Closing, Terminating
    <3>3. active'[s] \in {None, active[s]} /\ \A o \in Operation : RunsOn(o, s)' => RunsOn(o, s)
      BY <1>1, <2>3
    <3> QED
      BY <3>1, <3>2, <3>3
  <2> QED
    BY <2>2, <2>3
<1>3. ASSUME NEW d \in Client, d # c, NEW s \in SessionId PROVE Cleared(d, s)'
  <2> SUFFICES ASSUME conn[d].session = s,
                      \/ conn[d].pc = "detach_wait"
                      \/ conn[d].pc = "detach_registry" /\ Ephemeral(s)',
                      NEW o \in Operation, RunsOn(o, s)'
               PROVE  FALSE
    BY <1>0, <1>3 DEF Cleared
  <2>1. Holds(d, s) /\ ControlOf(d, s) /\ Cleared(d, s)
    BY DEF Holds, Control, Removal, ClosePc
  <2>2. Ephemeral(s)' => Ephemeral(s)
    BY <2>1 DEF ControlOf, SparesOthers, Ephemeral, Live
  <2>3. Live(s)
    BY <2>1, <2>2 DEF ControlOf, EphemeralPc, Ephemeral
  <2>4. ~RunsOn(o, s)
    BY <2>1, <2>2 DEF Cleared
  <2>5. conn[c].session = s /\ conn[c].pc = "pty_insert"
    BY <2>4
  <2> QED
    BY <1>1, <1>3, <2>1, <2>3, <2>5, Exclusive
<1> QED
  BY <1>2, <1>3 DEF Removal

\* A request: only a close removes a session, and it goes on to end its work.
LEMMA RequestRemoval ==
  ASSUME WritesSucceed, ActivityInv, Removal, NEW c \in Client, Requests(c), Reached'
  PROVE  Removal'
<1> USE DEF ActivityInv, DaemonInv
<1>0. /\ TypeOK /\ PersistOutcome = {TRUE} /\ OthersStay(c) /\ SparesOthers(c)
  BY OutcomeIsSuccess, RequestControl DEF IInv
<1>1. conn[c].pc = "idle" /\ up /\ up' /\ active' = active
  <2>1. up /\ up' = up
    BY DEF Requests, CreateRequest, AttachRequest, SwitchRequest, CloseRequest, DetachRequest,
       Disconnect, UpdateRequest, CancelRequest, SubmitSnapshot, PtyStartRequest,
       PtyCloseRequest, create, attach, close, update, regvars
  <2>2. conn[c].pc = "idle" /\ active' = active
    BY DEF Requests, CreateRequest, AttachRequest, SwitchRequest, CloseRequest, DetachRequest,
       Disconnect, UpdateRequest, CancelRequest, SubmitSnapshot, PtyStartRequest,
       PtyCloseRequest, daemon
  <2> QED
    BY <2>1, <2>2
<1>2. NoNewRun
  BY RequestStarts, NoNewRunStep
<1>3. ASSUME conn'[c].pc \notin {"detach_wait", "detach_registry"},
             \A s \in SessionId : Live(s) /\ ~Live(s)' => Terminating(c, s)',
             \A s \in SessionId : s \in issued' /\ ~Live(s)' => s \in issued
      PROVE  Removal'
  <2>1. \A s \in SessionId : Cleared(c, s)' /\ ~Closing(c, s) /\ ~Terminating(c, s)
    BY <1>1, <1>3 DEF Cleared, Closing, Terminating, ClosePc
  <2> QED
    BY <1>0, <1>1, <1>2, <1>3, <2>1, RemovalStep DEF NoNewRun
<1>4. ASSUME SameControl PROVE \A s \in SessionId : /\ Live(s)' <=> Live(s)
                                                    /\ issued' = issued
  BY <1>4 DEF SameControl, Live
<1>5. ASSUME NEW id \in SessionId, NEW n \in Name, NEW p \in PersistenceMode,
             NEW d \in Directory, NEW h \in ClientHistories, NEW ok \in PersistOutcome,
             CreateRequest(c, id, n, p, d, h, ok)
      PROVE  Removal'
  <2>1. create(c, id, n, p, d, h, ok)
    BY <1>5 DEF CreateRequest
  <2>2. /\ sessions'[id] # None /\ issued' = issued \cup {id}
        /\ \A s \in SessionId \ {id} : sessions'[s] = sessions[s]
    BY <1>0, <2>1, CreateControl
  <2>3. conn'[c].pc \in {"idle", "detach_snapshot"}
    BY <1>1, <1>5, CreateDoes DEF Attaches, LetsGo
  <2> QED
    BY <1>3, <2>2, <2>3 DEF Live
<1>6. ASSUME NEW selector \in SessionId \cup Name, NEW s \in SessionId,
             AttachRequest(c, selector, s) \/ SwitchRequest(c, selector, s)
      PROVE  Removal'
  <2>1. attach(c, s)
    BY <1>6 DEF AttachRequest, SwitchRequest
  <2>2. /\ sessions'[s] # None /\ issued' = issued
        /\ \A t \in SessionId \ {s} : sessions'[t] = sessions[t]
    BY <1>0, <2>1, AttachControl
  <2>3. conn'[c].pc \in {"idle", "detach_snapshot"}
    BY <1>1, <1>6, AttachDoes DEF Attaches, LetsGo
  <2> QED
    BY <1>3, <2>2, <2>3 DEF Live
<1>7. ASSUME NEW selector \in SessionId \cup Name, NEW s \in SessionId,
             NEW ok \in PersistOutcome, CloseRequest(c, selector, s, ok)
      PROVE  Removal'
  <2>1. close(c, s, ok) /\ ok = TRUE
    BY <1>0, <1>7 DEF CloseRequest
  <2>2. issued' = issued /\ \A t \in SessionId \ {s} : sessions'[t] = sessions[t]
    BY <1>0, <2>1, CloseControl
  <2>3. conn'[c].pc = "close_terminate" /\ conn'[c].session = s
    BY <1>7, <2>1, CloseDoes
  <2>4. Terminating(c, s)'
    BY <2>3 DEF Terminating
  <2> QED
    BY <1>3, <2>2, <2>3, <2>4 DEF Live
<1>8. CASE DetachRequest(c) \/ Disconnect(c)
  <2>1. SameControl
    BY <1>8, UnchangedControl DEF DetachRequest, Disconnect
  <2>2. conn'[c].pc \in {"gone", "detach_snapshot"}
    BY <1>8, LeaveDoes DEF Left, LetsGo
  <2> QED
    BY <1>3, <1>4, <2>1, <2>2
<1>9. ASSUME NEW d \in Directory, NEW h \in ClientHistories, NEW ok \in PersistOutcome,
             UpdateRequest(c, d, h, ok)
      PROVE  Removal'
  <2>1. /\ conn[c].attached \in SessionId /\ conn' = conn
        /\ update(c, conn[c].attached, d, h, ok)
    BY <1>9, ThreadFacts DEF UpdateRequest, daemon
  <2>2. SameControl
    BY <1>0, <2>1, ClientHistoriesType, WithStateControl DEF update
  <2> QED
    BY <1>1, <1>3, <1>4, <2>1, <2>2
<1>10. CASE CancelRequest(c) \/ PtyCloseRequest(c)
  <2>1. SameControl /\ (conn' = conn \/ PtyCloseRequest(c))
    BY <1>10, UnchangedControl DEF CancelRequest, PtyCloseRequest
  <2>2. conn'[c].pc \in {"idle", "ptyclose_wait"}
    BY <1>1, <2>1, PtyCloseDoes
  <2> QED
    BY <1>3, <1>4, <2>1, <2>2
<1>11. ASSUME NEW o \in Operation, SubmitSnapshot(c, o) \/ PtyStartRequest(c, o) PROVE Removal'
  <2>1. SameControl
    BY <1>11, UnchangedControl DEF SubmitSnapshot, PtyStartRequest
  <2>2. conn'[c].pc \in {"submit_reserve", "pty_reap"}
    BY <1>0, <1>11, SubmitSnapshotDoes, PtyStartDoes DEF Begins
  <2> QED
    BY <1>3, <1>4, <2>1, <2>2
<1> QED
  BY <1>5, <1>6, <1>7, <1>8, <1>9, <1>10, <1>11 DEF Requests

\* A connection thread lists no running job but the one it has started.
LEMMA HandlerRuns ==
  ASSUME ActivityInv, NEW c \in Client, Handler(c), Reached'
  PROVE  \A o \in Operation, s \in SessionId : RunsOn(o, s)' =>
           RunsOn(o, s) \/ (conn[c].session = s /\ conn[c].pc = "pty_insert")
<1> USE DEF ActivityInv, DaemonInv
<1>1. (PtySpawn(c) \/ NoNewProcess) /\ (PtyInsert(c) \/ NoneListed)
  BY HandlerStarts
<1>2. CASE PtySpawn(c) \/ PtyInsert(c)
  <2>1. conn[c].pc \in PtyPc
    BY <1>2 DEF PtySpawn, PtyInsert, Step, PtyPc
  <2>i. PICK s \in SessionId, q \in Operation : s = conn[c].session /\ q = conn[c].op
    BY <2>1, ThreadFacts
  <2>2. CASE PtySpawn(c)
    <3>1. JobsStay(q) /\ job'[q].stage = "starting"
      BY <2>2, <2>i, PtySpawnDoes
    <3> QED
      BY <3>1 DEF JobsStay, RunsOn
  <2>3. CASE PtyInsert(c)
    <3>1. JobsStay(q) /\ job'[q].session = job[q].session /\ conn[c].pc = "pty_insert"
      BY <2>3, <2>i, PtyInsertDoes DEF PtyInsert
    <3>2. job[q].session = s
      BY <2>i, <3>1 DEF Threads, Starting
    <3> QED
      BY <2>i, <3>1, <3>2 DEF JobsStay, RunsOn
  <2> QED
    BY <1>2, <2>2, <2>3
<1>3. CASE ~PtySpawn(c) /\ ~PtyInsert(c)
  <2>1. NoNewRun
    BY <1>1, <1>3, NoNewRunStep
  <2> QED
    BY <2>1 DEF NoNewRun
<1> QED
  BY <1>2, <1>3

\* It reserves a turn in one place and otherwise only releases.
LEMMA HandlerReserves ==
  ASSUME DaemonInv, NEW c \in Client, Handler(c)
  PROVE  \A s \in SessionId :
           active'[s] \in {None, active[s]} \/ (conn[c].session = s /\ conn[c].pc = "submit_reserve")
<1> USE DEF DaemonInv
<1>0. TurnType /\ ActiveType
  BY DEF DaemonTypes
<1>1. CASE active' = active
  BY <1>1
<1>2. CASE DetachCancel(c) \/ CloseCancel(c)
  <2>1. PICK s \in SessionId : cancel_and_remove(s)
    BY <1>2, DetachCancelDoes, CloseCancelDoes DEF DetachCancel
  <2>2. active'[s] = None /\ \A t \in SessionId \ {s} : active'[t] = active[t]
    BY <1>0, <2>1, CancelFields DEF ActiveType
  <2> QED
    BY <2>2
<1>3. CASE \/ SubmitReserve(c) \/ \E recorded \in BOOLEAN : SubmitAudit(c, recorded)
           \/ \E ok \in BOOLEAN : SubmitBegin(c, ok)
           \/ \E ok \in PersistOutcome : SubmitNotSpawned(c, ok)
  <2>1. conn[c].pc \in SubmitPc
    BY <1>3 DEF SubmitReserve, SubmitAudit, SubmitBegin, SubmitNotSpawned, SubmitPc
  <2>i. PICK s \in SessionId, o \in Operation : s = conn[c].session /\ o = conn[c].op
    BY <2>1, ThreadFacts
  <2>2. turn[o].session = s
    BY <2>1, <2>i DEF Threads, Starting
  <2>3. \/ active' = active \/ Unreserve(c) \/ Conclude(o)
        \/ conn[c].pc = "submit_reserve" /\ active' = [active EXCEPT ![s] = o]
    <3>1. CASE SubmitReserve(c)
      <4>1. conn[c].pc = "submit_reserve"
        BY <3>1 DEF SubmitReserve
      <4>2. active' = active \/ active' = [active EXCEPT ![s] = o]
        BY <2>i, <3>1, SubmitReserveDoes
      <4> QED
        BY <4>1, <4>2
    <3> QED
      BY <1>3, <2>i, <3>1, SubmitAuditDoes, SubmitBeginDoes, SubmitNotSpawnedDoes
  <2>4. CASE Unreserve(c)
    <3>1. /\ \A t \in SessionId \ {s} : active'[t] = active[t]
          /\ active'[s] = IF active[s] = o THEN None ELSE active[s]
      BY <1>0, <2>4, <2>i, UnreserveFields
    <3> QED
      BY <3>1
  <2>5. CASE Conclude(o)
    <3>1. /\ \A t \in SessionId \ {s} : active'[t] = active[t]
          /\ active'[s] = IF active[s] = o THEN None ELSE active[s]
      BY <1>0, <2>2, <2>5, ConcludeFields
    <3> QED
      BY <3>1
  <2>6. CASE conn[c].pc = "submit_reserve" /\ active' = [active EXCEPT ![s] = o]
    BY <1>0, <2>6, <2>i DEF ActiveType
  <2> QED
    BY <1>1, <2>3, <2>4, <2>5, <2>6
<1> QED
  BY <1>1, <1>2, <1>3 DEF Handler, DetachSnapshot, DetachTerminate, DetachWait, CloseTerminate,
     CloseWait, SubmitSpawn, PtyReap, PtyAdmit, PtySpawn, PtyInsert, PtyCloseWait, PtyAudit,
     PtyBegin, DetachRegistry, PtySpawnFails, PtyInsertRefused

\* What a connection thread does for a request leaves a session that is gone
\* without work, or still has it to stop.
LEMMA HandlerRemoval ==
  ASSUME WritesSucceed, ActivityInv, Agree, Removal, NEW c \in Client, Handler(c), Reached'
  PROVE  Removal'
<1> USE DEF ActivityInv, DaemonInv
<1>0. /\ TypeOK /\ JobType /\ TurnType /\ ActiveType /\ PersistOutcome = {TRUE}
      /\ OthersStay(c) /\ SparesOthers(c)
      /\ \A s \in SessionId : s # None /\ ControlOf(c, s) /\ Cleared(c, s) /\ Reserves(c, s)
  BY OutcomeIsSuccess, HandlerControl, NoneAssumption DEF IInv, DaemonTypes, Control, Removal, Turns
<1>1. up /\ up'
  <2>1. up /\ up' = up
    BY DEF Handler, DetachSnapshot, DetachCancel, DetachTerminate, DetachWait, CloseTerminate,
       CloseWait, CloseCancel, SubmitReserve, SubmitSpawn, PtyReap, PtyAdmit, PtySpawn, PtyInsert,
       PtyCloseWait, SubmitAudit, PtyAudit, SubmitBegin, PtyBegin, DetachRegistry,
       SubmitNotSpawned, PtySpawnFails, PtyInsertRefused, Step, begin_execution,
       finish_execution, detach, regvars
  <2> QED
    BY <2>1
<1>2. /\ \A o \in Operation, s \in SessionId : RunsOn(o, s)' =>
           RunsOn(o, s) \/ (conn[c].session = s /\ conn[c].pc = "pty_insert")
      /\ \A s \in SessionId :
           active'[s] \in {None, active[s]} \/ (conn[c].session = s /\ conn[c].pc = "submit_reserve")
  BY HandlerRuns, HandlerReserves
<1>3. ASSUME SameControl,
             \A s \in SessionId :
               /\ Cleared(c, s)'
               /\ Closing(c, s) => Closing(c, s)' \/ active'[s] = None
               /\ Terminating(c, s) => \A o \in Operation : ~RunsOn(o, s)'
      PROVE  Removal'
  <2>1. \A s \in SessionId : (Live(s)' <=> Live(s)) /\ issued' = issued
    BY <1>3 DEF SameControl, Live
  <2> QED
    BY <1>0, <1>1, <1>2, <1>3, <2>1, RemovalStep
<1>4. ASSUME SameControl, conn[c].pc \notin ClosePc,
             conn'[c].pc \notin {"detach_wait", "detach_registry"}
      PROVE  Removal'
  <2>1. \A s \in SessionId : Cleared(c, s)' /\ ~Closing(c, s) /\ ~Terminating(c, s)
    BY <1>4 DEF Cleared, Closing, Terminating, ClosePc
  <2> QED
    BY <1>3, <1>4, <2>1
<1>5. CASE Starts(c)
  <2>1. /\ conn[c].pc \in SubmitPc \cup PtyPc \cup {"ptyclose_wait"} /\ SameControl
        /\ \/ Returned(c, conn[c].session)
           \/ \E to \in SubmitPc \cup PtyPc : Moved(c, to)
    BY <1>0, <1>5, StartsDo
  <2> QED
    BY <1>4, <2>1 DEF Returned, Moved, SubmitPc, PtyPc, ClosePc
<1>6. CASE DetachSnapshot(c)
  <2>0. conn[c].pc = "detach_snapshot" /\ SameControl
    BY <1>6, UnchangedControl DEF DetachSnapshot
  <2>i. PICK s \in SessionId : s = conn[c].session
    BY <2>0, ThreadFacts
  <2>1. \/ conn'[c].pc \in {"gone", "idle", "detach_cancel"}
        \/ ~Ephemeral(s) /\ Moved(c, "detach_registry")
    BY <1>6, <2>i, DetachSnapshotDoes DEF Left, Returned, Moved, Ephemeral
  <2>2. CASE ~Ephemeral(s) /\ Moved(c, "detach_registry")
    <3>1. ~Ephemeral(s)' /\ conn'[c].session = s /\ conn'[c].pc = "detach_registry"
      BY <2>0, <2>2, <2>i DEF SameControl, Ephemeral, Live, Moved
    <3>2. \A t \in SessionId : Cleared(c, t)' /\ ~Closing(c, t) /\ ~Terminating(c, t)
      BY <2>0, <3>1 DEF Cleared, Closing, Terminating, ClosePc
    <3> QED
      BY <1>3, <2>0, <3>2
  <2> QED
    BY <1>4, <2>0, <2>1, <2>2 DEF ClosePc
<1>7. CASE DetachCancel(c)
  <2>1. SameControl /\ Moved(c, "detach_terminate") /\ conn[c].pc = "detach_cancel"
    BY <1>7, DetachCancelDoes, UnchangedControl
  <2> QED
    BY <1>4, <2>1 DEF Moved, ClosePc
<1>8. CASE DetachTerminate(c) \/ CloseTerminate(c)
  <2>1. /\ SameControl /\ terminate_session(c, conn[c].session)
        /\ \/ conn[c].pc = "detach_terminate" /\ Moved(c, "detach_wait")
           \/ conn[c].pc = "close_terminate" /\ Moved(c, "close_wait")
    BY <1>8, TerminateDoes, UnchangedControl
  <2>i. PICK s \in SessionId : s = conn[c].session
    BY <2>1, ThreadFacts
  <2>2. \A o \in Operation : ~RunsOn(o, s)'
    <3>1. \A o \in Operation : /\ job'[o].session = job[o].session
                               /\ o \in JobsOf(s) => ~job'[o].listed
                               /\ o \notin JobsOf(s) => job'[o] = job[o]
      BY <1>0, <2>1, <2>i, TerminateFields
    <3> QED
      BY <3>1 DEF RunsOn, JobsOf
  <2>3. ASSUME NEW t \in SessionId
        PROVE  /\ Cleared(c, t)'
               /\ Closing(c, t) => Closing(c, t)'
               /\ Terminating(c, t) => t = s
    BY <2>1, <2>2, <2>i DEF Cleared, Closing, Terminating, Moved, ClosePc
  <2> QED
    BY <1>3, <2>1, <2>2, <2>3
<1>9. CASE DetachWait(c) \/ CloseWait(c)
  <2>1. /\ SameControl /\ job' = job
        /\ \/ conn[c].pc = "detach_wait" /\ Moved(c, "detach_registry")
           \/ conn[c].pc = "close_wait" /\ Moved(c, "close_cancel")
    BY <1>9, WaitDoes, UnchangedControl
  <2>2. ASSUME NEW t \in SessionId
        PROVE  /\ Cleared(c, t)'
               /\ Closing(c, t) => Closing(c, t)'
               /\ ~Terminating(c, t)
    <3>1. Cleared(c, t) /\ \A o \in Operation : RunsOn(o, t)' <=> RunsOn(o, t)
      BY <1>0, <2>1 DEF RunsOn
    <3> QED
      BY <2>1, <3>1 DEF Cleared, Closing, Terminating, Moved, ClosePc
  <2> QED
    BY <1>3, <2>1, <2>2
<1>10. CASE CloseCancel(c)
  <2>0. /\ conn[c].pc = "close_cancel" /\ SameControl /\ cancel_and_remove(conn[c].session)
        /\ conn'[c].pc = "idle"
    BY <1>10, CloseCancelDoes, UnchangedControl DEF Returned
  <2>i. PICK s \in SessionId : s = conn[c].session
    BY <2>0, ThreadFacts
  <2>1. active'[s] = None
    BY <1>0, <2>0, <2>i, CancelFields DEF ActiveType
  <2>2. \A t \in SessionId : Cleared(c, t)' /\ ~Terminating(c, t) /\ (Closing(c, t) => t = s)
    BY <2>0, <2>i DEF Cleared, Terminating, Closing
  <2> QED
    BY <1>3, <2>0, <2>1, <2>2
<1>11. ASSUME NEW ok \in PersistOutcome, DetachRegistry(c, ok) PROVE Removal'
  <2>0. /\ conn[c].pc = "detach_registry" /\ detach(c, conn[c].session, ok)
        /\ active' = active /\ job' = job
    BY <1>11 DEF DetachRegistry
  <2>i. PICK s \in SessionId : s = conn[c].session
    BY <2>0, ThreadFacts
  <2>1. /\ issued' = issued
        /\ \A t \in SessionId \ {s} : sessions'[t] = sessions[t]
        /\ Live(s) => \/ sessions[s].snapshot.persistence = "Ephemeral"
                      \/ sessions'[s] # None
        /\ ~Live(s) => sessions'[s] = sessions[s]
    BY <1>0, <2>0, <2>i, DetachControl
  <2>2. ASSUME Live(s), ~Live(s)'
        PROVE  active'[s] = None /\ \A o \in Operation : ~RunsOn(o, s)'
    <3>1. Leaving(c, s) /\ Ephemeral(s)
      BY <2>0, <2>1, <2>2, <2>i DEF Leaving, Ephemeral, Live
    <3>2. active[s] = None /\ \A o \in Operation : ~RunsOn(o, s)
      BY <1>0, <2>0, <2>i, <3>1 DEF Reserves, Cleared
    <3> QED
      BY <2>0, <3>2 DEF RunsOn
  <2>3. conn'[c].pc \in {"idle", "gone"}
    BY <1>0, <1>11, DetachRegistryDoes DEF Returned, Left
  <2>4. \A t \in SessionId : Cleared(c, t)' /\ ~Terminating(c, t) /\ ~Closing(c, t)
    BY <2>0, <2>3 DEF Cleared, Terminating, Closing, ClosePc
  <2>5. \A t \in SessionId :
          /\ Live(t) /\ ~Live(t)' => active'[t] = None /\ \A o \in Operation : ~RunsOn(o, t)'
          /\ t \in issued' /\ ~Live(t)' => t \in issued
    BY <2>1, <2>2 DEF Live
  <2> QED
    BY <1>0, <1>1, <1>2, <2>4, <2>5, RemovalStep
<1> QED
  BY <1>5, <1>6, <1>7, <1>8, <1>9, <1>10, <1>11 DEF Handler, Starts

RemovalInv == ActivityInv /\ Agree /\ Removal

\* Every step of the daemon keeps it.
LEMMA RemovalNext ==
  ASSUME WritesSucceed
  PROVE  RemovalInv /\ [DaemonNext]_vars => RemovalInv'
<1> SUFFICES ASSUME RemovalInv, [DaemonNext]_vars PROVE RemovalInv'
  OBVIOUS
<1> USE DEF RemovalInv
<1>1. ActivityInv'
  BY ActivityNext
<1>2. Agree'
  BY <1>1, AgreeNext DEF ActivityInv
<1>3. Reached'
  BY <1>1 DEF ActivityInv
<1>4. ASSUME UNCHANGED <<sessions, issued, up, conn, active, job>> PROVE Removal'
  <2>1. SameControl /\ NoNewRun
    BY <1>4 DEF SameControl, Live, NoNewRun, RunsOn
  <2> QED
    BY <1>4, <2>1, RemovalSame
<1>5. ASSUME NEW o \in Operation, TurnWorker(o) \/ JobWorker(o) PROVE Removal'
  <2>1. SameControl /\ conn' = conn /\ up /\ up'
    BY <1>5, WorkerControl DEF ActivityInv
  <2>2. NoNewRun
    BY <1>3, <1>5, WorkerStarts, NoNewRunStep DEF ActivityInv
  <2>3. \A s \in SessionId : active'[s] \in {None, active[s]}
    <3>1. CASE JobWorker(o)
      BY <3>1, JobWorkerDoes DEF ActivityInv, DaemonInv
    <3>2. CASE TurnWorker(o)
      <4>0. TurnType /\ ActiveType /\ directories \subseteq Directory
        BY DEF ActivityInv, DaemonInv, DaemonTypes, IInv, TypeOK
      <4>1. turn[o].session \in SessionId /\ (Conclude(o) \/ active' = active)
        BY <3>2, <4>0, TurnWorkerDoes DEF ActivityInv, DaemonInv
      <4>2. CASE Conclude(o)
        <5>i. PICK t \in SessionId : t = turn[o].session
          BY <4>1
        <5>1. /\ \A s \in SessionId \ {t} : active'[s] = active[s]
              /\ active'[t] = IF active[t] = o THEN None ELSE active[t]
          BY <4>0, <4>2, <5>i, ConcludeFields
        <5> QED
          BY <5>1
      <4> QED
        BY <4>1, <4>2
    <3> QED
      BY <1>5, <3>1, <3>2
  <2> QED
    BY <2>1, <2>2, <2>3, RemovalSame
<1>6. ASSUME Stop PROVE Removal'
  <2>1. /\ \A c \in Client : conn'[c].pc = "idle"
        /\ \A o \in Operation : job'[o].stage # "running"
    BY <1>6, StopDoes DEF ActivityInv, DaemonInv
  <2>2. ~up'
    BY <1>6 DEF Stop, Crash
  <2>3. \A o \in Operation, s \in SessionId : ~RunsOn(o, s)'
    BY <2>1 DEF RunsOn
  <2>4. \A c \in Client, s \in SessionId : Cleared(c, s)'
    BY <2>3 DEF Cleared
  <2>5. \A s \in SessionId : IsClosed(s)'
    BY <2>2 DEF IsClosed, Removed
  <2> QED
    BY <2>3, <2>4, <2>5 DEF Removal
<1>7. ASSUME Restart PROVE Removal'
  <2>1. ~up /\ UNCHANGED <<conn, active, turn, job>>
    BY <1>7 DEF Restart, load, daemon
  <2>2. /\ \A c \in Client : conn[c].pc = "idle"
        /\ \A o \in Operation : turn[o].stage \in {"unborn", "over"}
    BY <2>1 DEF ActivityInv, DaemonInv, Calls, DownIsIdle
  <2>3. \A s \in SessionId : active[s] = None
    <3>1. ASSUME NEW s \in SessionId, active[s] # None PROVE FALSE
      <4>1. active[s] \in Operation /\ ActiveIsTurn(s)
        BY <3>1 DEF ActivityInv, DaemonInv, DaemonTypes, ActiveType, Threads
      <4> QED
        BY <2>2, <3>1, <4>1 DEF ActiveIsTurn
    <3> QED
      BY <3>1
  <2>4. \A o \in Operation, s \in SessionId : ~RunsOn(o, s)'
    BY <2>1 DEF Removal, RunsOn
  <2>5. \A c \in Client, s \in SessionId : Cleared(c, s)'
    BY <2>4 DEF Cleared
  <2>6. \A s \in SessionId : IsClosed(s)'
    BY <2>1, <2>3, <2>4 DEF IsClosed
  <2> QED
    BY <2>4, <2>5, <2>6 DEF Removal
<1>8. ASSUME Shutdown PROVE Removal'
  <2>1. CASE DrainPtys
    <3>1. UNCHANGED regvars /\ conn' = conn /\ active' = active /\ NoNewRun
      <4>1. UNCHANGED <<regvars, conn, active>> /\ \A o \in Operation : ~job'[o].listed
        BY <2>1, DrainDoes DEF ActivityInv, DaemonInv
      <4> QED
        BY <4>1 DEF NoNewRun, RunsOn
    <3>2. SameControl /\ (up' <=> up)
      BY <3>1, UnchangedControl DEF regvars
    <3> QED
      BY <3>1, <3>2, RemovalSame
  <2>2. CASE StopAdmission \/ CancelActive \/ StopPtys
    <3>1. UNCHANGED <<sessions, issued, up, conn, active, job>>
      BY <2>2 DEF StopAdmission, CancelActive, StopPtys, regvars, ghosts
    <3> QED
      BY <1>4, <3>1
  <2> QED
    BY <1>8, <2>1, <2>2 DEF Shutdown
<1>9. ASSUME Environment \/ UNCHANGED vars PROVE Removal'
  <2>1. UNCHANGED <<sessions, issued, up, conn, active, job>>
    BY <1>9 DEF Environment, RemoveDirectory, MakeDirectory, daemon, ghosts, regvars, vars
  <2> QED
    BY <1>4, <2>1
<1>10. Removal'
  BY <1>3, <1>5, <1>6, <1>7, <1>8, <1>9, RequestRemoval, HandlerRemoval DEF DaemonNext
<1> QED
  BY <1>1, <1>2, <1>10

\* It holds when the daemon starts.
LEMMA RemovalInit == DaemonInit => RemovalInv
<1> SUFFICES ASSUME DaemonInit PROVE RemovalInv
  OBVIOUS
<1>1. ActivityInv
  BY ActivityInit
<1>2. /\ \A c \in Client : /\ conn[c].attached = None /\ conn[c].session = None
                           /\ conn[c].next = None /\ conn[c].pc = "idle"
      /\ \A s \in SessionId : sessions[s] = None /\ active[s] = None /\ s # None
      /\ \A o \in Operation : job[o].stage = "unborn"
  BY NoneAssumption, NoJobType DEF DaemonInit, IdleConn, Init, NoSessions
<1>3. Agree
  BY <1>2 DEF Agree, AgreeOn, Holds, Live
<1>4. Removal
  BY <1>2 DEF Removal, Cleared, IsClosed, RunsOn
<1> QED
  BY <1>1, <1>3, <1>4 DEF RemovalInv

\* While sessions.json can be written, the invariant above holds in every
\* state that the daemon reaches.
THEOREM RemovalInvariance ==
  ASSUME WritesSucceed PROVE DaemonSpec => []RemovalInv
<1>1. DaemonInit => RemovalInv
  BY RemovalInit
<1>2. RemovalInv /\ [DaemonNext]_vars => RemovalInv'
  BY RemovalNext
<1> QED
  BY <1>1, <1>2, PTL DEF DaemonSpec

-----------------------------------------------------------------------------

\* Between requests a connection is attached to exactly the session that
\* handle_client takes for its current one.
LEMMA AgreeIsExact == RemovalInv => AttachmentsAgree
<1> SUFFICES ASSUME RemovalInv, NEW c \in Client, up, conn[c].pc \in {"idle", "gone"}
             PROVE  {s \in SessionId : Live(s) /\ c \in sessions[s].attachments} =
                      IF conn[c].attached = None THEN {} ELSE {conn[c].attached}
  BY DEF AttachmentsAgree
<1> USE DEF RemovalInv, ActivityInv, DaemonInv
<1>1. /\ conn[c].session = None /\ conn[c].next = None
      /\ conn[c].attached \in SessionId \cup {None}
  BY ThreadFacts
<1>2. ASSUME NEW s \in SessionId
      PROVE  Live(s) /\ c \in sessions[s].attachments <=> conn[c].attached = s
  <2>1. AgreeOn(c, s) /\ ControlOf(c, s) /\ s # None
    BY NoneAssumption DEF Agree, Control
  <2>2. (Holds(c, s) <=> conn[c].attached = s) /\ ~Closing(c, s)
    BY <1>1, <2>1 DEF Holds, Closing
  <2> QED
    BY <2>1, <2>2 DEF AgreeOn, ControlOf
<1>3. None \notin SessionId
  BY NoneAssumption
<1> QED
  BY <1>1, <1>2, <1>3

\* Once nobody works on a removed session, its turn has been cancelled and
\* its terminal process told to go.
LEMMA RemovedIsStopped == RemovalInv => RemovedWorkIsStopped
<1> SUFFICES ASSUME RemovalInv, NEW s \in SessionId, up, s \in issued, ~Live(s), Quiet(s),
                    NEW o \in Operation
             PROVE  /\ TurnAlive(o) /\ turn[o].session = s => turn[o].cancelled
                    /\ ProcessAlive(o) /\ job[o].session = s => Drained(o)
  BY DEF RemovedWorkIsStopped
<1> USE DEF RemovalInv, ActivityInv, DaemonInv
<1>1. IsClosed(s) /\ Removed(s) /\ (\A c \in Client : conn[c].session # s)
  BY DEF Removal, Removed, Quiet
<1>2. active[s] = None /\ ~RunsOn(o, s)
  BY <1>1 DEF IsClosed, Closing, Terminating
<1>3. ASSUME TurnAlive(o), turn[o].session = s PROVE turn[o].cancelled
  <2>1. Known(o, s) /\ o # None
    BY NoneAssumption DEF Turns
  <2> QED
    BY <1>2, <1>3, <2>1 DEF Known
<1>4. ASSUME ProcessAlive(o), job[o].session = s PROVE Drained(o)
  <2>1. HasStarter(o) /\ IsListed(o)
    BY DEF Jobs
  <2>2. CASE job[o].stage = "starting"
    <3>1. PICK c \in Client : conn[c].pc = "pty_insert" /\ conn[c].op = o
      BY <2>1, <2>2 DEF HasStarter
    <3>2. job[o].session = conn[c].session
      BY <3>1 DEF Threads, Starting
    <3> QED
      BY <1>1, <1>4, <3>2
  <2>3. CASE job[o].stage = "running"
    <3>1. ~job[o].listed
      BY <1>2, <1>4, <2>3 DEF RunsOn
    <3> QED
      BY <1>1, <1>4, <2>1, <2>3, <3>1 DEF IsListed, Drained
  <2> QED
    BY <1>4, <2>2, <2>3 DEF ProcessAlive
<1> QED
  BY <1>3, <1>4

\* While sessions.json can be written, a connection between requests is
\* attached in the registry to the session that it believes in and to no
\* other, whatever create, switch, detach, close and end of connection have
\* done before, and however they interleaved with those of others.
THEOREM ConnectionsAndRegistryAgree ==
  ASSUME WritesSucceed PROVE DaemonSpec => []AttachmentsAgree
<1>1. DaemonSpec => []RemovalInv
  BY RemovalInvariance
<1>2. RemovalInv => AttachmentsAgree
  BY AgreeIsExact
<1> QED
  BY <1>1, <1>2, PTL

\* While sessions.json can be written, the close or detach that removes a
\* session has stopped its work before it returns: no uncancelled turn and no
\* terminal process outlives it, although both were started by other requests
\* and run on threads of their own.
THEOREM RemovalStopsWork ==
  ASSUME WritesSucceed PROVE DaemonSpec => []RemovedWorkIsStopped
<1>1. DaemonSpec => []RemovalInv
  BY RemovalInvariance
<1>2. RemovalInv => RemovedWorkIsStopped
  BY RemovedIsStopped
<1> QED
  BY <1>1, <1>2, PTL

=============================================================================

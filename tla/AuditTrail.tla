----------------------------- MODULE AuditTrail -----------------------------
(***************************************************************************)
(* The audit trail of one session: the connection that the daemon keeps    *)
(* for it (SessionAudit in session/audit.rs) or a client without a daemon  *)
(* keeps for itself (AuditRuntime in cli/audit.rs), the exchanges with     *)
(* deadlines of AuditClient, the handlers of xshell-auditd and their logs, *)
(* a thread that records what it is about to do and then does it, and the  *)
(* end of the session.                                                     *)
(*                                                                         *)
(* Every connection has a log of its own.  A handler whose client has gone *)
(* still serves the requests it has been sent.  The service may die, lines *)
(* may be written in part, and any answer may come after its deadline.     *)
(***************************************************************************)
EXTENDS Naturals, Sequences, FiniteSets

CONSTANTS
  MaxActions,          \* bound: actions of the audited thread
  MaxLogs,             \* bound: connections made in a behaviour
  MaxFaults,           \* bound: failed writes and deaths of the service
  CheckpointInterval,  \* checkpoint_interval
  None

Attached == 0
Ended    == MaxActions + 1
Event    == 0..Ended
Conn     == 1..MaxLogs

INSTANCE AuditLog

ASSUME TrailAssumption ==
  /\ MaxActions \in Nat /\ MaxLogs \in Nat /\ MaxFaults \in Nat
  /\ CheckpointInterval \in Nat \ {0}
  /\ None \notin Conn
  /\ None \notin {"opened", "ack", "closed", "error"}
  /\ None \notin {"actor", "closer"}
  /\ None \notin {"connect", "opening", "attaching", "recording", "ending", "closing"}

VARIABLES
  required,   \* AuditConfig::required
  daemon,     \* whether the daemon records, or a client on its own
  state,      \* Connection: unopened, open, failed, closed
  link,       \* the connection of state open, or the one being opened
  op,         \* the call that holds the entry's lock, or NoOp
  server,     \* the handlers of xshell-auditd
  log,        \* the logs on disk
  service,    \* whether xshell-auditd runs
  faults,     \* failed writes and deaths so far
  actor,      \* the thread that is audited
  cancelled,  \* its CancellationFlag
  acted,      \* history: the actions it has performed, a client's start included
  acked       \* history: the events whose record was acknowledged

trail == <<required, daemon>>
client == <<state, link, op>>
auditd == <<server, log, service, faults>>
thread == <<actor, cancelled, acted>>
vars == <<trail, client, auditd, thread, acked>>

Request  == [kind: {"open", "close"}] \cup [kind: {"append"}, event: Event]
Response == {"opened", "ack", "closed", "error"}

\* open: the client's end.  answer: what is to be sent, after the log was written.
Handler == [pc: {"none", "serve", "reply", "gone"}, open: BOOLEAN, up: Seq(Request),
            answer: Response \cup {None}, down: Seq(Response), writer: Writer]

NoHandler == [pc |-> "none", open |-> FALSE, up |-> <<>>, answer |-> None, down |-> <<>>,
              writer |-> NoWriter]

\* by: who called.  stage: the exchange under way.  event: what is to be recorded.
NoOp == [by |-> None, stage |-> None, event |-> 0]
Op == [by: {"actor", "closer", None}, stage: {None, "connect", "opening", "attaching", "recording", "ending", "closing"},
       event: Event]

-----------------------------------------------------------------------------
(* xshell-auditd.                                                          *)

\* What a write may leave behind: the whole line, a part of it, or nothing.
Written(l, entry) == {Append(log[l], entry), Append(log[l], Torn), log[l]}

Reply(l, answer, w) == [server[l] EXCEPT !.pc = "reply", !.up = Tail(@), !.answer = answer, !.writer = w]

HasRequest(l, kind) ==
  /\ server[l].pc = "serve"
  /\ server[l].up # <<>>
  /\ Head(server[l].up).kind = kind

\* AuditLogWriter::create
ServeOpen(l) ==
  /\ HasRequest(l, "open")
  /\ server' = [server EXCEPT ![l] = Reply(l, "opened", NoWriter)]
  /\ UNCHANGED <<trail, client, log, service, faults, thread, acked>>

\* append: the record, then the checkpoint if one is due.
ServeAppend(l) ==
  LET event == Head(server[l].up).event
      w     == Chained(server[l].writer, event)
      line  == Append(log[l], RecordOf(server[l].writer, event))
  IN
  /\ HasRequest(l, "append")
  /\ log' = [log EXCEPT ![l] = IF CheckpointDue(w) THEN Append(line, CheckpointOf(w, FALSE)) ELSE line]
  /\ server' = [server EXCEPT ![l] = Reply(l, "ack", IF CheckpointDue(w) THEN Checkpointed(w) ELSE w)]
  /\ UNCHANGED <<trail, client, service, faults, thread, acked>>

\* append fails at the record or, the record being written, at the checkpoint;
\* the handler reports it and ends.
AppendFails(l) ==
  LET event == Head(server[l].up).event
      w     == Chained(server[l].writer, event)
      line  == Append(log[l], RecordOf(server[l].writer, event))
  IN
  /\ HasRequest(l, "append")
  /\ faults < MaxFaults
  /\ faults' = faults + 1
  /\ \/ \E s \in Written(l, RecordOf(server[l].writer, event)) : log' = [log EXCEPT ![l] = s]
     \/ CheckpointDue(w) /\ log' = [log EXCEPT ![l] = Append(line, Torn)]
  /\ server' = [server EXCEPT ![l] = Reply(l, "error", Counted(@.writer))]
  /\ UNCHANGED <<trail, client, service, thread, acked>>

\* Close writes the final checkpoint.
ServeClose(l) ==
  /\ HasRequest(l, "close")
  /\ log' = [log EXCEPT ![l] = Append(@, CheckpointOf(server[l].writer, TRUE))]
  /\ server' = [server EXCEPT ![l] = Reply(l, "closed", Checkpointed(@.writer))]
  /\ UNCHANGED <<trail, client, service, faults, thread, acked>>

CloseFails(l) ==
  /\ HasRequest(l, "close")
  /\ faults < MaxFaults
  /\ faults' = faults + 1
  /\ \E s \in Written(l, CheckpointOf(server[l].writer, TRUE)) : log' = [log EXCEPT ![l] = s]
  /\ server' = [server EXCEPT ![l].pc = "gone", ![l].up = <<>>]
  /\ UNCHANGED <<trail, client, service, thread, acked>>

\* The answer is sent once the log is synced; an error or the close is the last.
ServeReply(l) ==
  /\ server[l].pc = "reply"
  /\ server' = [server EXCEPT ![l] = [server[l] EXCEPT
                  !.pc = IF server[l].answer \in {"error", "closed"} \/ ~server[l].open THEN "gone" ELSE "serve",
                  !.up = IF server[l].answer \in {"error", "closed"} \/ ~server[l].open THEN <<>> ELSE server[l].up,
                  !.down = IF server[l].open THEN Append(server[l].down, server[l].answer) ELSE <<>>,
                  !.answer = None]]
  /\ UNCHANGED <<trail, client, log, service, faults, thread, acked>>

\* End of file after the last request.
ServeEof(l) ==
  /\ server[l].pc = "serve"
  /\ server[l].up = <<>>
  /\ ~server[l].open
  /\ server' = [server EXCEPT ![l].pc = "gone"]
  /\ UNCHANGED <<trail, client, log, service, faults, thread, acked>>

\* The service dies between any two steps, a line half written or not; the next
\* one finds its logs and never touches them again.
ServiceDies ==
  /\ service
  /\ faults < MaxFaults
  /\ faults' = faults + 1
  /\ service' = FALSE
  /\ server' = [l \in Conn |-> IF server[l].pc \in {"serve", "reply"}
                                 THEN [server[l] EXCEPT !.pc = "gone", !.up = <<>>, !.answer = None]
                                 ELSE server[l]]
  /\ \E l \in Conn : log' \in {log, [log EXCEPT ![l] = IF HasRequest(l, "append") THEN Append(@, Torn) ELSE @]}
  /\ UNCHANGED <<trail, client, thread, acked>>

ServiceStarts ==
  /\ ~service
  /\ service' = TRUE
  /\ UNCHANGED <<trail, client, server, log, faults, thread, acked>>

ServerStep(l) ==
  \/ ServeOpen(l) \/ ServeAppend(l) \/ AppendFails(l) \/ ServeClose(l) \/ CloseFails(l)
  \/ ServeReply(l) \/ ServeEof(l)

-----------------------------------------------------------------------------
(* The entry of the session and its client.                                *)

Unlinked == {l \in Conn : server[l] = NoHandler}

Sent(l, request) == [server EXCEPT ![l].up = IF server[l].pc = "gone" THEN <<>> ELSE Append(@, request)]

AppendRequest(event) == [kind |-> "append", event |-> event]

\* A record that fails cancels the turn (LocalObserver::record, and
\* DaemonObserver::audit), and keeps a client from starting.
CancelledBy(ok) == cancelled \/ ~ok

\* The thread returns from append() with the given verdict.
Returns(ok) ==
  /\ op' = NoOp
  /\ IF op.by = "actor"
       THEN /\ actor' = [actor EXCEPT !.pc = "check"]
            /\ cancelled' = CancelledBy(ok)
       ELSE UNCHANGED <<actor, cancelled>>
  /\ UNCHANGED acted

\* connect_with_timeout: only a service that runs accepts a connection.
Connect ==
  /\ op.stage = "connect"
  /\ service
  /\ Unlinked # {}
  /\ LET l == CHOOSE m \in Unlinked : \A n \in Unlinked : m <= n
     IN /\ server' = [server EXCEPT ![l] = [NoHandler EXCEPT !.pc = "serve", !.open = TRUE,
                                                             !.up = <<[kind |-> "open"]>>]]
        /\ link' = l
  /\ op' = [op EXCEPT !.stage = "opening"]
  /\ UNCHANGED <<trail, state, log, service, faults, thread, acked>>

\* The connection is given up: its end is closed, and nothing is recorded until
\* a later call connects again.  With required auditing the call fails.
GiveUp ==
  /\ server' = IF link = None THEN server
               ELSE [server EXCEPT ![link].open = FALSE, ![link].down = <<>>]
  /\ link' = None
  /\ IF op.by = "closer"
       THEN state' = "closed" /\ Returns(TRUE)
       ELSE state' = "failed" /\ Returns(~required)
  /\ UNCHANGED <<trail, log, service, faults, acked>>

CannotConnect ==
  /\ op.stage = "connect"
  /\ ~service \/ Unlinked = {}
  /\ GiveUp

InExchange == op.stage \in {"opening", "attaching", "recording", "ending", "closing"}

\* Mutant: the wait for an answer has no end.
WaitsForEver == FALSE /\ UNCHANGED vars

\* The deadline passes, an error is answered or the connection is closed.
ExchangeFails ==
  /\ InExchange
  /\ GiveUp

\* Mutant: a record counts as acknowledged once it is sent.
ExpectsNothing(answer) == InExchange /\ link # None

Answered(answer) ==
  /\ InExchange
  /\ server[link].down # <<>>
  /\ Head(server[link].down) = answer

Taken(l) == [server EXCEPT ![l].down = <<>>]

\* The handshake is followed by the record of the attachment.
Opened ==
  /\ op.stage = "opening"
  /\ Answered("opened")
  /\ server' = [Taken(link) EXCEPT ![link].up = IF server[link].pc = "gone" THEN <<>> ELSE Append(@, AppendRequest(Attached))]
  /\ op' = [op EXCEPT !.stage = "attaching"]
  /\ UNCHANGED <<trail, state, link, log, service, faults, thread, acked>>

\* The connection is open.  The daemon goes on with the record it has been
\* opened for; a client has started.
AttachmentRecorded ==
  /\ op.stage = "attaching"
  /\ Answered("ack")
  /\ state' = "open"
  /\ IF op.event = Attached
       THEN /\ server' = Taken(link)
            /\ Returns(TRUE)
       ELSE /\ server' = [Taken(link) EXCEPT ![link].up = IF server[link].pc = "gone" THEN <<>> ELSE Append(@, AppendRequest(op.event))]
            /\ op' = [op EXCEPT !.stage = "recording"]
            /\ UNCHANGED thread
  /\ acked' = acked \cup {Attached}
  /\ UNCHANGED <<trail, link, log, service, faults>>

RecordAcknowledged ==
  /\ op.stage = "recording"
  /\ Answered("ack")
  /\ server' = Taken(link)
  /\ acked' = acked \cup {op.event}
  /\ Returns(TRUE)
  /\ UNCHANGED <<trail, state, link, log, service, faults>>

\* close: SessionEnded, and then the final checkpoint.
EndAcknowledged ==
  /\ op.stage = "ending"
  /\ Answered("ack")
  /\ server' = [Taken(link) EXCEPT ![link].up = IF server[link].pc = "gone" THEN <<>> ELSE Append(@, [kind |-> "close"])]
  /\ acked' = acked \cup {Ended}
  /\ op' = [op EXCEPT !.stage = "closing"]
  /\ UNCHANGED <<trail, state, link, log, service, faults, thread>>

CloseAcknowledged ==
  /\ op.stage = "closing"
  /\ Answered("closed")
  /\ server' = [Taken(link) EXCEPT ![link].open = FALSE]
  /\ link' = None
  /\ state' = "closed"
  /\ Returns(TRUE)
  /\ UNCHANGED <<trail, log, service, faults, acked>>

ClientStep ==
  \/ Connect \/ CannotConnect \/ ExchangeFails \/ Opened \/ AttachmentRecorded
  \/ RecordAcknowledged \/ EndAcknowledged \/ CloseAcknowledged

-----------------------------------------------------------------------------
(* The audited thread, and the end of the session.                         *)

\* The thread stops at a cancellation; otherwise it calls append(), which waits
\* for the lock.
ActorRecords ==
  /\ actor.pc = "idle"
  /\ actor' = IF cancelled \/ actor.next = MaxActions + 1 THEN [actor EXCEPT !.pc = "done"]
                                                          ELSE [actor EXCEPT !.pc = "append"]
  /\ UNCHANGED <<trail, client, auditd, cancelled, acted, acked>>

\* Whether append() connects again: the daemon, when ack_timeout_ms have passed.
MayRetry == IF daemon THEN BOOLEAN ELSE {FALSE}

AppendStarts ==
  /\ actor.pc = "append"
  /\ op = NoOp
  /\ \E retry \in MayRetry :
       CASE state = "open" ->
              /\ op' = [by |-> "actor", stage |-> "recording", event |-> actor.next]
              /\ server' = Sent(link, AppendRequest(actor.next))
              /\ actor' = [actor EXCEPT !.pc = "wait"]
              /\ UNCHANGED cancelled
         [] state = "unopened" \/ (state = "failed" /\ retry) ->
              /\ op' = [by |-> "actor", stage |-> "connect", event |-> actor.next]
              /\ actor' = [actor EXCEPT !.pc = "wait"]
              /\ UNCHANGED <<server, cancelled>>
         [] OTHER ->
              /\ actor' = [actor EXCEPT !.pc = "check"]
              /\ cancelled' = CancelledBy(~(state = "failed" /\ required))
              /\ UNCHANGED <<op, server>>
  /\ UNCHANGED <<trail, state, link, log, service, faults, acted, acked>>

\* The cancellation is looked at once more, and then the action performed.
ActorChecks ==
  /\ actor.pc = "check"
  /\ actor' = [actor EXCEPT !.pc = IF cancelled THEN "done" ELSE "act"]
  /\ UNCHANGED <<trail, client, auditd, cancelled, acted, acked>>

ActorActs ==
  /\ actor.pc = "act"
  /\ acted' = acted \cup {actor.next}
  /\ actor' = [pc |-> "idle", next |-> actor.next + 1]
  /\ UNCHANGED <<trail, client, auditd, cancelled, acked>>

\* close of a session, and the daemon's shutdown: the turn is cancelled first.
CancelFirst ==
  /\ ~cancelled
  /\ cancelled' = TRUE
  /\ UNCHANGED <<trail, client, auditd, actor, acted, acked>>

\* Mutant: the audit trail is closed before the turn is cancelled.
CloseAtOnce == op = NoOp /\ state # "closed"

MayClose == op = NoOp /\ state # "closed" /\ cancelled

\* close_session and close_all
CloseStarts ==
  /\ MayClose
  /\ IF state = "open"
       THEN /\ op' = [by |-> "closer", stage |-> "ending", event |-> Ended]
            /\ server' = Sent(link, AppendRequest(Ended))
            /\ UNCHANGED state
       ELSE /\ state' = "closed"
            /\ UNCHANGED <<op, server>>
  /\ UNCHANGED <<trail, link, log, service, faults, thread, acked>>

ActorStep == ActorRecords \/ AppendStarts \/ ActorChecks \/ ActorActs

-----------------------------------------------------------------------------

\* A client connects as it starts (AuditRuntime::start), the daemon when it has
\* something to record.
First == IF daemon THEN 1 ELSE Attached

TrailInit ==
  /\ required \in BOOLEAN
  /\ daemon \in BOOLEAN
  /\ state = "unopened"
  /\ link = None
  /\ op = NoOp
  /\ server = [l \in Conn |-> NoHandler]
  /\ log = [l \in Conn |-> <<>>]
  /\ service \in BOOLEAN
  /\ faults = 0
  /\ actor = [pc |-> "idle", next |-> First]
  /\ cancelled = FALSE
  /\ acted = {}
  /\ acked = {}

TrailNext ==
  \/ \E l \in Conn : ServerStep(l)
  \/ ServiceDies \/ ServiceStarts
  \/ ClientStep
  \/ ActorStep
  \/ CancelFirst \/ CloseStarts

TrailSpec == TrailInit /\ [][TrailNext]_vars

\* Threads run, and deadlines pass.  The service may stall or stay away.
FairTrailSpec ==
  /\ TrailSpec
  /\ WF_vars(ClientStep)
  /\ WF_vars(ActorStep)

TrailTypeOK ==
  /\ required \in BOOLEAN /\ daemon \in BOOLEAN /\ service \in BOOLEAN
  /\ state \in {"unopened", "open", "failed", "closed"}
  /\ link \in Conn \cup {None}
  /\ state = "open" => link # None
  /\ op \in Op
  /\ server \in [Conn -> Handler]
  /\ faults \in 0..MaxFaults
  /\ actor \in [pc: {"idle", "append", "wait", "check", "act", "done"}, next: Event]
  /\ cancelled \in BOOLEAN
  /\ acted \subseteq Event \ {Ended} /\ acked \subseteq Event

\* Whatever fails and whenever the service dies, the verifier accepts every log,
\* except for a last line that is torn; and a final checkpoint is the last line.
LogsVerify ==
  \A l \in Conn :
    LET s == log[l]
        whole == IF s # <<>> /\ s[Len(s)] = Torn THEN SubSeq(s, 1, Len(s) - 1) ELSE s
    IN /\ verify_log(whole).ok
       /\ \A k \in DOMAIN s : s[k].kind = "checkpoint" /\ s[k].final => k = Len(s)

\* A record that was acknowledged is in a log.
AcknowledgedIsDurable == acked \subseteq UNION {EventsOf(log[l]) : l \in Conn}

\* With required auditing nothing is done that is not on record: not when the
\* service fails, not when the deadline passes, and not by a turn that is still
\* running when the session's audit trail is closed.
ActedIsRecorded == required => acted \subseteq UNION {EventsOf(log[l]) : l \in Conn}

\* A call to append() or close() returns, even if the service never answers.
AppendReturns == (op # NoOp) ~> (op = NoOp)

=============================================================================

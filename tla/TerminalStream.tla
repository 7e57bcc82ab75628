--------------------------- MODULE TerminalStream ---------------------------
(***************************************************************************)
(* Clients at the terminal jobs of one session: the stream connections     *)
(* (serve_claimed_pty in xshelld.rs, pty_stream.rs), the relay between the *)
(* stream and the user's terminal (relay_duplex in xshell-pty), and the    *)
(* focus loop and cursors of the client (pty_ui.rs, session.rs).           *)
(*                                                                         *)
(* A stream connection is a pair of queues; the control connection's       *)
(* requests are single steps.  Either side may vanish at any time, and the *)
(* other learns of it when it has read what is in the queue.               *)
(***************************************************************************)
EXTENDS TerminalJob

CONSTANT MaxInFlight   \* bound: frames from the daemon before it blocks

VARIABLES
  owner,      \* the client attached to the session, or None
  stream,     \* the stream connections
  client,     \* the clients
  typed,      \* history: how many bytes were sent to jobs
  expected    \* history: the next byte of its job that a client has not been shown

vars == <<jobVars, owner, stream, client, typed, expected>>

UpFrame   == [kind: {"input"}, bytes: Seq(Token)] \cup [kind: {"close"}]
DownFrame == [kind: {"claimed", "refused", "exit", "error", "detached"}]
             \cup [kind: {"output"}, offset: 0..MaxOutput, len: 1..MaxRead]

\* user: whether the client's end is open.  server: the handler's position.
Conn == [user: BOOLEAN, server: {"none", "claim", "poll", "read", "release", "gone"},
         job: JobId \cup {None}, cursor: 0..MaxOutput,
         up: Seq(UpFrame), down: Seq(DownFrame)]

NoConn == [user |-> FALSE, server |-> "none", job |-> None, cursor |-> 0, up |-> <<>>, down |-> <<>>]

\* after: what follows the acknowledged close.  saved: the entry of pty_cursors.
\* cursor: PtyStreamClient::cursor.  fresh: the stream of pty_start_stream.
\* seen: history, the job that saved and expected belong to.
ClientState ==
  [pc: {"away", "prompt", "open", "relay", "detach"}, conn: Stream \cup {None},
   fresh: BOOLEAN, cursor: 0..MaxOutput, saved: 0..MaxOutput \cup {None},
   seen: JobId \cup {None}, pending: BOOLEAN,
   after: {None, "prompt", "terminate", "away"}]

NoClient == [pc |-> "away", conn |-> None, fresh |-> FALSE, cursor |-> 0, saved |-> None,
             seen |-> None, pending |-> FALSE, after |-> None]

\* A connection that both ends have closed leaves nothing behind.
Settled(k) == IF ~k.user /\ k.server \in {"none", "gone"} THEN NoConn ELSE k

\* Ticket numbers nobody knows.
Unused == {n \in Stream : stream[n] = NoConn /\ \A j \in JobId : n \notin {job[j].ticket, job[j].claimed}}

NewStream == CHOOSE n \in Unused : \A m \in Unused : n <= m

-----------------------------------------------------------------------------
(* The daemon's end of a stream.                                           *)

\* handle_client: PtyClaim.  Without the ticket the connection only carries an
\* error; the client closes it.
ServeClaim(n) ==
  /\ stream[n].server = "claim"
  /\ IF Claimable(n)
       THEN /\ claim(n)
            /\ stream' = [stream EXCEPT ![n].server = IF stream[n].user THEN "poll" ELSE "release",
                                        ![n].job = listed, ![n].cursor = job[listed].from,
                                        ![n].down = <<[kind |-> "claimed"]>>]
       ELSE /\ stream' = [stream EXCEPT ![n] = Settled([@ EXCEPT !.server = "gone",
                                                          !.down = <<[kind |-> "refused"]>>])]
            /\ UNCHANGED jobVars
  /\ UNCHANGED <<owner, client, expected>>

\* One frame from the client; a refused write ends the stream without a word.
ServeInput(n) ==
  LET frame == Head(stream[n].up) IN
  /\ stream[n].server = "poll"
  /\ stream[n].up # <<>>
  /\ frame.kind = "input"
  /\ IF MayWrite(n, stream[n].job, frame.bytes)
       THEN /\ write_claimed(n, stream[n].job, frame.bytes)
            /\ stream' = [stream EXCEPT ![n].server = "read", ![n].up = Tail(@)]
       ELSE /\ stream' = [stream EXCEPT ![n].server = "release", ![n].up = Tail(@)]
            /\ UNCHANGED jobVars
  /\ UNCHANGED <<owner, client, expected>>

\* Mutant: the acknowledgement is sent before the claim is released.
AcknowledgeClose(n) ==
  /\ stream[n].server = "poll"
  /\ stream[n].up # <<>>
  /\ Head(stream[n].up).kind = "close"
  /\ stream' = [stream EXCEPT ![n] = [@ EXCEPT !.server = "release", !.up = <<>>,
                                               !.down = Append(@, [kind |-> "detached"])]]
  /\ UNCHANGED <<jobVars, owner, client, expected>>

\* Close: the claim is released, and then the close acknowledged.
ServeClose(n) ==
  /\ stream[n].server = "poll"
  /\ stream[n].up # <<>>
  /\ Head(stream[n].up).kind = "close"
  /\ job' = Released(n, stream[n].job)
  /\ stream' = [stream EXCEPT ![n] = Settled([@ EXCEPT !.server = "gone", !.up = <<>>,
                                                !.down = Append(stream[n].down, [kind |-> "detached"])])]
  /\ UNCHANGED <<listed, accepted, written, trail, owner, client, expected>>

\* read_claimed and the frames that follow from it.  A claim on a job that has
\* left the map is answered with an error.
ServeRead(n) ==
  LET j      == stream[n].job
      r      == read_claimed(j, stream[n].cursor)
      output == IF r.len = 0 THEN <<>> ELSE <<[kind |-> "output", offset |-> r.offset, len |-> r.len]>>
      exit   == IF r.status = None THEN <<>> ELSE <<[kind |-> "exit"]>>
      frames == IF Claims(n, j) THEN output \o exit ELSE <<[kind |-> "error"]>>
      over   == ~Claims(n, j) \/ exit # <<>> \/ (frames # <<>> /\ ~stream[n].user)
  IN
  /\ stream[n].server = "read" \/ (stream[n].server = "poll" /\ stream[n].up = <<>>)
  /\ stream[n].server = "read" \/ frames # <<>>
  /\ Len(stream[n].down) < MaxInFlight
  /\ stream' = [stream EXCEPT ![n] = [@ EXCEPT !.server = IF over THEN "release" ELSE "poll",
                                               !.cursor = r.offset + r.len,
                                               !.down = stream[n].down \o frames]]
  /\ UNCHANGED <<jobVars, owner, client, expected>>

\* The client's end is closed and its frames are read.
ServeHangup(n) ==
  /\ stream[n].server = "poll"
  /\ stream[n].up = <<>>
  /\ ~stream[n].user
  /\ stream' = [stream EXCEPT ![n].server = "release"]
  /\ UNCHANGED <<jobVars, owner, client, expected>>

\* handle_client releases the claim when serve_claimed_pty has returned.
ServeRelease(n) ==
  /\ stream[n].server = "release"
  /\ job' = Released(n, stream[n].job)
  /\ stream' = [stream EXCEPT ![n] = Settled([@ EXCEPT !.server = "gone"])]
  /\ UNCHANGED <<listed, accepted, written, trail, owner, client, expected>>

ServerStep(n) ==
  /\ UNCHANGED typed
  /\ \/ ServeClaim(n) \/ ServeInput(n) \/ ServeClose(n) \/ ServeRead(n)
     \/ ServeHangup(n) \/ ServeRelease(n)

-----------------------------------------------------------------------------
(* The client.                                                             *)

Connect(n) == stream' = [stream EXCEPT ![n] = [NoConn EXCEPT !.user = TRUE, !.server = "claim"]]

Down(c) == stream[client[c].conn].down

\* The client closes its end; dropping a PtyStreamClient sends Close first.
Dropped(n) ==
  LET up == IF stream[n].server = "gone" THEN <<>> ELSE Append(stream[n].up, [kind |-> "close"])
  IN [stream EXCEPT ![n] = Settled([@ EXCEPT !.user = FALSE, !.up = up, !.down = <<>>])]

AttachSession(c) ==
  /\ client[c].pc = "away"
  /\ owner = None
  /\ owner' = c
  /\ client' = [client EXCEPT ![c].pc = "prompt"]
  /\ UNCHANGED <<jobVars, stream, expected>>

\* pty_start_stream
PtyStart(c) ==
  /\ client[c].pc = "prompt"
  /\ Unused # {}
  /\ start(NewStream)
  /\ Connect(NewStream)
  /\ client' = [client EXCEPT ![c] = [@ EXCEPT !.pc = "open", !.conn = NewStream, !.fresh = TRUE,
                                               !.cursor = 0, !.seen = listed']]
  /\ expected' = [expected EXCEPT ![c] = 0]
  /\ UNCHANGED owner

\* pty_attach_stream.  A cursor of an earlier job is used like any other.
PtyAttach(c) ==
  /\ client[c].pc = "prompt"
  /\ Unused # {}
  /\ attach(NewStream, client[c].saved)
  /\ Connect(NewStream)
  /\ client' = [client EXCEPT ![c] = [@ EXCEPT !.pc = "open", !.conn = NewStream, !.fresh = FALSE,
                                               !.cursor = job'[listed].from, !.seen = listed]]
  /\ expected' = [expected EXCEPT ![c] = IF client[c].saved = None THEN 0
                                         ELSE IF client[c].seen = listed THEN @ ELSE job'[listed].from]
  /\ UNCHANGED owner

\* The answer to the claim.  pty_start_stream closes a job it cannot reach.
ClaimGranted(c) ==
  /\ client[c].pc = "open"
  /\ Down(c) # <<>> /\ Head(Down(c)).kind = "claimed"
  /\ stream' = [stream EXCEPT ![client[c].conn].down = Tail(@)]
  /\ client' = [client EXCEPT ![c].pc = "relay", ![c].pending = FALSE]
  /\ UNCHANGED <<jobVars, owner, expected>>

ClaimFailed(c) ==
  /\ client[c].pc = "open"
  /\ Down(c) # <<>> /\ Head(Down(c)).kind = "refused"
  /\ stream' = Dropped(client[c].conn)
  /\ client' = [client EXCEPT ![c] = [@ EXCEPT !.pc = "prompt", !.conn = None, !.fresh = FALSE]]
  /\ IF client[c].fresh /\ listed # None THEN terminate ELSE UNCHANGED jobVars
  /\ UNCHANGED <<owner, expected>>

\* relay: an Output frame moves the cursor and is shown.
RelayOutput(c) ==
  LET frame == Head(Down(c)) IN
  /\ client[c].pc = "relay"
  /\ Down(c) # <<>> /\ frame.kind = "output"
  /\ stream' = [stream EXCEPT ![client[c].conn].down = Tail(@)]
  /\ client' = [client EXCEPT ![c].cursor = frame.offset + frame.len]
  /\ expected' = [expected EXCEPT ![c] = frame.offset + frame.len]
  /\ UNCHANGED <<jobVars, owner>>

\* remember_pty_cursor, and back at the prompt without a stream.
Parted(c) == [client[c] EXCEPT !.pc = "prompt", !.saved = client[c].cursor,
                               !.conn = None, !.fresh = FALSE, !.pending = FALSE]

\* Exit, Error, or the end of the transport before either.
RelayEnds(c) ==
  /\ client[c].pc = "relay"
  /\ \/ Down(c) # <<>> /\ Head(Down(c)).kind \in {"exit", "error"}
     \/ Down(c) = <<>> /\ stream[client[c].conn].server = "gone"
  /\ stream' = Dropped(client[c].conn)
  /\ client' = [client EXCEPT ![c] = Parted(c)]
  /\ UNCHANGED <<jobVars, owner, expected>>

\* route_escape_input: how many bytes go to the process for a key, given
\* whether the prefix came before it.
Forwarded(key, pending) ==
  CASE key = "prefix" -> IF pending THEN 1 ELSE 0
    [] key = "plain"  -> IF pending THEN 2 ELSE 1
    [] key = "help"   -> IF pending THEN 0 ELSE 1

Tokens(n) == [k \in 1..n |-> typed + k]

\* A key that stays in the relay.  What cannot be sent to a closed transport
\* is dropped.
RelayKey(c, key) ==
  LET n == Forwarded(key, client[c].pending) IN
  /\ client[c].pc = "relay"
  /\ typed + n <= MaxKeys
  /\ client' = [client EXCEPT ![c].pending = (key = "prefix" /\ ~@)]
  /\ typed' = typed + n
  /\ stream' = IF n = 0 \/ stream[client[c].conn].server = "gone" THEN stream
               ELSE [stream EXCEPT ![client[c].conn].up = Append(@, [kind |-> "input", bytes |-> Tokens(n)])]
  /\ UNCHANGED <<jobVars, owner, expected>>

\* d, q, or a switch: the cursor is remembered and Close is sent.  A transport
\* that is closed already needs no acknowledgement.
RelayAction(c, after) ==
  /\ client[c].pc = "relay"
  /\ client[c].pending
  /\ client' = [client EXCEPT ![c] = [@ EXCEPT !.pc = "detach", !.after = after,
                                               !.saved = client[c].cursor, !.pending = FALSE]]
  /\ stream' = IF stream[client[c].conn].server = "gone" THEN stream
               ELSE [stream EXCEPT ![client[c].conn].up = Append(@, [kind |-> "close"])]
  /\ UNCHANGED <<jobVars, owner, expected>>

\* detach: output in flight is neither shown nor counted.
DetachSkips(c) ==
  /\ client[c].pc = "detach"
  /\ Down(c) # <<>> /\ Head(Down(c)).kind = "output"
  /\ stream' = [stream EXCEPT ![client[c].conn].down = Tail(@)]
  /\ UNCHANGED <<jobVars, owner, client, expected>>

Closed(c) == [client[c] EXCEPT !.pc = IF client[c].after = "away" THEN "away" ELSE "prompt",
                               !.conn = None, !.fresh = FALSE, !.after = None]

\* Detached, Exit or a closed transport end the detachment; the action that
\* asked for it follows.
DetachEnds(c) ==
  /\ client[c].pc = "detach"
  /\ \/ Down(c) # <<>> /\ Head(Down(c)).kind \in {"detached", "exit"}
     \/ Down(c) = <<>> /\ stream[client[c].conn].server = "gone"
  /\ stream' = Dropped(client[c].conn)
  /\ IF client[c].after = "terminate" /\ listed # None
       THEN terminate /\ client' = [client EXCEPT ![c] = [Closed(c) EXCEPT !.saved = None]]
       ELSE UNCHANGED jobVars /\ client' = [client EXCEPT ![c] = Closed(c)]
  /\ owner' = IF client[c].after = "away" THEN None ELSE owner
  /\ UNCHANGED expected

DetachFails(c) ==
  /\ client[c].pc = "detach"
  /\ Down(c) # <<>> /\ Head(Down(c)).kind = "error"
  /\ stream' = Dropped(client[c].conn)
  /\ client' = [client EXCEPT ![c] = [Closed(c) EXCEPT !.pc = "prompt"]]
  /\ UNCHANGED <<jobVars, owner, expected>>

\* //stop, or the session's removal by its controller.
StopCommand(c) ==
  /\ client[c].pc = "prompt"
  /\ terminate
  /\ client' = [client EXCEPT ![c].saved = None]
  /\ UNCHANGED <<owner, stream, expected>>

\* //switch or //detach at the prompt; the cursor stays.
LeaveSession(c) ==
  /\ client[c].pc = "prompt"
  /\ owner' = None
  /\ client' = [client EXCEPT ![c].pc = "away"]
  /\ UNCHANGED <<jobVars, stream, expected>>

\* The process dies: its control connection detaches, its stream is closed
\* without a Close.
ClientDies(c) ==
  /\ client[c].pc # "away"
  /\ owner' = None
  /\ client' = [client EXCEPT ![c] = NoClient]
  /\ expected' = [expected EXCEPT ![c] = 0]
  /\ stream' = IF client[c].conn = None THEN stream
               ELSE [stream EXCEPT ![client[c].conn] = Settled([@ EXCEPT !.user = FALSE, !.down = <<>>])]
  /\ UNCHANGED jobVars

ClientStep(c) ==
  \/ \E key \in {"plain", "prefix", "help"} : RelayKey(c, key)
  \/ /\ UNCHANGED typed
     /\ \/ AttachSession(c) \/ PtyStart(c) \/ PtyAttach(c) \/ ClaimGranted(c) \/ ClaimFailed(c)
        \/ RelayOutput(c) \/ RelayEnds(c)
        \/ \E after \in {"prompt", "terminate", "away"} : RelayAction(c, after)
        \/ DetachSkips(c) \/ DetachEnds(c) \/ DetachFails(c)
        \/ StopCommand(c) \/ LeaveSession(c) \/ ClientDies(c)

-----------------------------------------------------------------------------

StreamInit ==
  /\ JobInit
  /\ owner = None
  /\ stream = [n \in Stream |-> NoConn]
  /\ client = [c \in Client |-> NoClient]
  /\ expected = [c \in Client |-> 0]
  /\ typed = 0

JobStep(j) == WorkerStep(j) /\ UNCHANGED <<owner, stream, client, typed, expected>>

StreamNext ==
  \/ \E j \in JobId : JobStep(j)
  \/ \E n \in Stream : ServerStep(n)
  \/ \E c \in Client : ClientStep(c)

StreamSpec == StreamInit /\ [][StreamNext]_vars

StreamTypeOK ==
  /\ JobTypeOK
  /\ owner \in Client \cup {None}
  /\ stream \in [Stream -> Conn]
  /\ client \in [Client -> ClientState]
  /\ expected \in [Client -> 0..MaxOutput]
  /\ typed \in 0..MaxKeys

\* A client that was told it is detached can attach again at once: by then the
\* stream's claim is gone.
DetachIsAcknowledged ==
  \A n \in Stream :
    (\E k \in DOMAIN stream[n].down : stream[n].down[k].kind = "detached")
      => \A j \in JobId : job[j].claimed # n

\* However often a client leaves a job and returns to it, with frames in flight
\* and the ring turning over, it is shown the job's output in order, no byte
\* twice, and none left out that the ring still held; and it learns of the exit
\* only when it has been shown everything.
OutputIsContiguous ==
  [][\A c \in Client :
       client[c].pc = "relay" /\ client'[c].pc \in {"relay", "prompt"} /\ Down(c) # <<>>
         /\ stream'[client[c].conn].down # Down(c) =>
       LET frame == Head(Down(c)) IN
       /\ frame.kind = "output" =>
            /\ frame.offset >= expected[c]
            /\ \A k \in expected[c]..(frame.offset - 1) : k < job[client[c].seen].replay_start
       /\ frame.kind = "exit" => client[c].cursor = job[client[c].seen].replay_end]_vars

=============================================================================

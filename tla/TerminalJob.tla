---------------------------- MODULE TerminalJob ----------------------------
(***************************************************************************)
(* The terminal jobs of one session as the daemon keeps them (ManagedPty   *)
(* in pty.rs): who may use the job's stream, the input queue, the replay   *)
(* ring, the worker thread that exchanges bytes with the process           *)
(* (RemotePtyProcess in xshell-pty) and the audit records of the stream.   *)
(*                                                                         *)
(* Output bytes are told apart by their offset, input bytes by when        *)
(* they were typed.  A stream connection is known by the number of its     *)
(* ticket.  Window sizes and the redraw signal change nothing but what the *)
(* process may print, which is arbitrary here.  Start and termination      *)
(* among the other activities of a session are in module SessionDaemon.    *)
(***************************************************************************)
EXTENDS Naturals, Sequences, FiniteSets

CONSTANTS
  Client,          \* interactive xshell processes
  MaxJobs,         \* bound: jobs started in a behaviour
  MaxStreams,      \* bound: stream connections that exist at a time
  MaxKeys,         \* bound: bytes typed in a behaviour
  MaxOutput,       \* bound: bytes printed by one job
  MaxInputBytes,   \* MAX_INPUT_BYTES
  MaxRead,         \* MAX_STREAM_OUTPUT_BYTES
  ReplayBytes,     \* REPLAY_BYTES
  Budget,          \* TerminalStreamPolicy::max_bytes
  None

ASSUME TerminalAssumption ==
  /\ MaxJobs \in Nat /\ MaxStreams \in Nat /\ MaxKeys \in Nat /\ MaxOutput \in Nat
  /\ MaxInputBytes \in Nat /\ MaxRead \in Nat \ {0} /\ ReplayBytes \in Nat \ {0} /\ Budget \in Nat
  /\ None \notin Client \cup Nat
  /\ None \notin {"exited", "error", "terminated", "prompt", "terminate", "away"}

VARIABLES
  job,        \* the jobs started so far and those to come
  listed,     \* the job that PtyCoordinator::inner holds, or None
  accepted,   \* history: the input each process has taken
  written,    \* history: how many input bytes were queued for each job
  trail       \* history: what the audit log holds of each job's stream

jobVars == <<job, listed, accepted, written, trail>>

JobId  == 1..MaxJobs
Stream == 1..MaxStreams
Token  == 1..MaxKeys

Capture == [recorded: Nat, dropped: Nat, input: Nat, output: Nat, failed: BOOLEAN]

Job == [ticket: Stream \cup {None}, from: 0..MaxOutput, claimed: Stream \cup {None},
        input: Seq(Token), replay_start: 0..MaxOutput, replay_end: 0..MaxOutput,
        exit_status: {None, "exited", "error", "terminated"}, shutdown: BOOLEAN,
        worker: {"none", "copy", "exchange", "finish", "finished"},
        copied: Nat, capture: Capture]

Trail == [input: Nat, output: Nat, torn: BOOLEAN, summary: Nat, finished: BOOLEAN]

NoCapture == [recorded |-> 0, dropped |-> 0, input |-> 0, output |-> 0, failed |-> FALSE]

NoJob == [ticket |-> None, from |-> 0, claimed |-> None, input |-> <<>>,
          replay_start |-> 0, replay_end |-> 0, exit_status |-> None, shutdown |-> FALSE,
          worker |-> "none", copied |-> 0, capture |-> NoCapture]

NoTrail == [input |-> 0, output |-> 0, torn |-> FALSE, summary |-> 0, finished |-> FALSE]

Least(a, b)    == IF a < b THEN a ELSE b
Greatest(a, b) == IF a > b THEN a ELSE b
Clamp(k, lo, hi) == Least(Greatest(k, lo), hi)

-----------------------------------------------------------------------------
(* Requests on a job.                                                      *)

\* start_inner: an exited job of the session is removed, once it has finished.
MayStart == listed # None => job[listed].worker = "finished"

NewJob == CHOOSE j \in JobId : job[j] = NoJob /\ \A i \in 1..(j - 1) : job[i] # NoJob

start(n) ==
  /\ MayStart
  /\ \E j \in JobId : job[j] = NoJob
  /\ job' = [job EXCEPT ![NewJob].ticket = n, ![NewJob].worker = "copy"]
  /\ listed' = NewJob
  /\ UNCHANGED <<accepted, written, trail>>

ReplayFrom(j, after_offset) ==
  LET k == IF after_offset = None THEN job[j].replay_start ELSE after_offset
  IN Clamp(k, job[j].replay_start, job[j].replay_end)

\* attach: the new ticket replaces whatever ticket is outstanding.
attach(n, after_offset) ==
  /\ listed # None
  /\ job[listed].claimed = None
  /\ job' = [job EXCEPT ![listed].ticket = n, ![listed].from = ReplayFrom(listed, after_offset)]
  /\ UNCHANGED <<listed, accepted, written, trail>>

Claimable(n) == listed # None /\ job[listed].ticket = n /\ job[listed].claimed = None

claim(n) ==
  /\ Claimable(n)
  /\ job' = [job EXCEPT ![listed].ticket = None, ![listed].claimed = n]
  /\ UNCHANGED <<listed, accepted, written, trail>>

\* get_claimed
Claims(n, j) == listed = j /\ job[j].claimed = n

Released(n, j) == IF Claims(n, j) THEN [job EXCEPT ![j].claimed = None] ELSE job

MayWrite(n, j, bytes) ==
  /\ Claims(n, j)
  /\ ~job[j].shutdown /\ job[j].exit_status = None
  /\ Len(job[j].input) + Len(bytes) <= MaxInputBytes

write_claimed(n, j, bytes) ==
  /\ MayWrite(n, j, bytes)
  /\ job' = [job EXCEPT ![j].input = @ \o bytes]
  /\ written' = [written EXCEPT ![j] = @ + Len(bytes)]
  /\ UNCHANGED <<listed, accepted, trail>>

\* Mutant: the status does not wait for the output.
read_status_early(j, cursor) ==
  LET from == Clamp(cursor, job[j].replay_start, job[j].replay_end)
      n    == Least(MaxRead, job[j].replay_end - from)
  IN [offset |-> from, len |-> n, status |-> job[j].exit_status]

\* read_claimed: the status comes with the last retained byte.
read_claimed(j, cursor) ==
  LET from == Clamp(cursor, job[j].replay_start, job[j].replay_end)
      n    == Least(MaxRead, job[j].replay_end - from)
  IN [offset |-> from, len |-> n,
      status |-> IF from + n >= job[j].replay_end THEN job[j].exit_status ELSE None]

\* terminate: the job leaves the map and is told to shut down; the request
\* returns when the worker has finished.
terminate ==
  /\ listed # None
  /\ job' = [job EXCEPT ![listed].shutdown = @ \/ job[listed].worker # "finished"]
  /\ listed' = None
  /\ UNCHANGED <<accepted, written, trail>>

-----------------------------------------------------------------------------
(* The worker.                                                             *)

\* The lock: what to write, and whether to stop.
WorkerCopies(j) ==
  /\ job[j].worker = "copy"
  /\ job' = IF job[j].shutdown
              THEN [job EXCEPT ![j].worker = "finish", ![j].exit_status = "terminated"]
              ELSE [job EXCEPT ![j].worker = "exchange", ![j].copied = Len(job[j].input)]
  /\ UNCHANGED <<listed, accepted, written, trail>>

\* StreamCapture::take: the budget is shared by both directions.
Allowed(capture, n) == Least(n, IF Budget > capture.recorded THEN Budget - capture.recorded ELSE 0)

Taken(capture, direction, n) ==
  [capture EXCEPT ![direction] = @ + n,
                  !.recorded = @ + Allowed(capture, n),
                  !.dropped = @ + (n - Allowed(capture, n))]

\* record_stream: nothing for no bytes or after a failure.  recorded: whether
\* the audit service takes the record.
Recorded(capture, direction, n, recorded) ==
  IF n = 0 \/ capture.failed THEN capture
  ELSE [Taken(capture, direction, n) EXCEPT !.failed = ~recorded /\ Allowed(capture, n) > 0]

\* What the log then holds.  torn: a record does not continue the ones before.
Trailed(t, before, after, direction, n) ==
  LET new == IF n = 0 \/ before.failed \/ after.failed THEN 0 ELSE Allowed(before, n)
  IN [t EXCEPT ![direction] = @ + new,
               !.torn = @ \/ t.finished \/ (new > 0 /\ before[direction] # t[direction])]

\* Mutant: all that was copied is taken off the queue, accepted or not.
PoppedAll(j, taken) == SubSeq(job[j].input, job[j].copied + 1, Len(job[j].input))

Popped(j, taken) == SubSeq(job[j].input, taken + 1, Len(job[j].input))

\* write_available: as much of what was copied as the terminal takes.
write_available(j) == 0..job[j].copied

\* read_available and try_wait: what was printed, or the status, once the
\* process has closed the terminal, nothing is left to read, and it is reaped.
read_available == {[printed |-> n, status |-> None] : n \in 0..1} \cup {[printed |-> 0, status |-> "exited"]}

\* RemotePtyProcess::exchange, both record_stream calls and append_output.
WorkerExchanges(j, taken, printed, status, recorded) ==
  LET end     == job[j].replay_end + printed
      input   == Recorded(job[j].capture, "input", taken, recorded)
      output  == Recorded(input, "output", printed, recorded)
      logged  == Trailed(trail[j], job[j].capture, input, "input", taken)
  IN
  /\ job[j].worker = "exchange"
  /\ end <= MaxOutput
  /\ job' = [job EXCEPT ![j].input = Popped(j, taken),
                        ![j].copied = 0,
                        ![j].replay_end = end,
                        ![j].replay_start = Greatest(@, IF end > ReplayBytes THEN end - ReplayBytes ELSE 0),
                        ![j].exit_status = status,
                        ![j].worker = IF status = None THEN "copy" ELSE "finish",
                        ![j].capture = output]
  /\ accepted' = [accepted EXCEPT ![j] = @ \o SubSeq(job[j].input, 1, taken)]
  /\ trail' = [trail EXCEPT ![j] = Trailed(logged, input, output, "output", printed)]
  /\ UNCHANGED <<listed, written>>

\* exchange fails: whatever it read is lost.
WorkerFails(j) ==
  /\ job[j].worker = "exchange"
  /\ job' = [job EXCEPT ![j].worker = "finish", ![j].copied = 0, ![j].exit_status = "error"]
  /\ UNCHANGED <<listed, accepted, written, trail>>

\* Mutant: the summary is left out once a record could not be written in full.
NoSummary(capture) == 0

\* record_stream_summary
Summary(capture) == IF capture.failed THEN 0 ELSE capture.dropped

\* finish, after the status is set: summary, ShellFinished, finish_execution.
WorkerFinishes(j) ==
  /\ job[j].worker = "finish"
  /\ job' = [job EXCEPT ![j].worker = "finished"]
  /\ trail' = [trail EXCEPT ![j].summary = Summary(job[j].capture), ![j].finished = TRUE]
  /\ UNCHANGED <<listed, accepted, written>>

WorkerStep(j) ==
  \/ WorkerCopies(j) \/ WorkerFails(j) \/ WorkerFinishes(j)
  \/ \E taken \in write_available(j), chunk \in read_available, recorded \in BOOLEAN :
       WorkerExchanges(j, taken, chunk.printed, chunk.status, recorded)

-----------------------------------------------------------------------------

JobInit ==
  /\ job = [j \in JobId |-> NoJob]
  /\ listed = None
  /\ accepted = [j \in JobId |-> <<>>]
  /\ written = [j \in JobId |-> 0]
  /\ trail = [j \in JobId |-> NoTrail]

JobTypeOK ==
  /\ job \in [JobId -> Job]
  /\ listed \in JobId \cup {None}
  /\ accepted \in [JobId -> Seq(Token)]
  /\ written \in [JobId -> Nat]
  /\ trail \in [JobId -> Trail]
  /\ \A j \in JobId : /\ Len(job[j].input) <= MaxInputBytes
                      /\ job[j].replay_end - job[j].replay_start <= ReplayBytes

\* The process reads what was queued for it, each byte once and in the order in
\* which it was typed, while clients add to the queue the worker has copied.
InputArrivesOnce ==
  \A j \in JobId :
    LET s == accepted[j] \o job[j].input IN
    /\ Len(s) = written[j]
    /\ \A a, b \in DOMAIN s : a < b => s[a] < s[b]

\* The audit log holds of each direction a prefix of the bytes that really went
\* through, nothing after the job's end, and, unless recording failed, the end
\* states exactly how many bytes it lacks.
TrailIsExact ==
  \A j \in JobId :
    /\ ~trail[j].torn
    /\ trail[j].finished /\ ~job[j].capture.failed =>
         Len(accepted[j]) + job[j].replay_end = trail[j].input + trail[j].output + trail[j].summary

=============================================================================

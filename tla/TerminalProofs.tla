--------------------------- MODULE TerminalProofs ---------------------------
(***************************************************************************)
(* Proofs about the terminal jobs of a session and the clients that come   *)
(* and go at them, for any number of clients, jobs, streams and bytes, any *)
(* sizes of the input queue and the replay ring, and any audit budget.     *)
(*                                                                         *)
(* First the job alone: its types, what its audit records say (Trails),    *)
(* and what its ring and its queue hold.  Then who is at the terminal      *)
(* (Visits): a session has one owner, so one client end is open, and while *)
(* it is nobody else can take the job away.  On this rest the order of the *)
(* input (Feeds) and of the output (Shows).                                *)
(***************************************************************************)
EXTENDS TerminalStream, SequenceTheorems, NaturalsInduction, WellFoundedInduction, TLAPS

-----------------------------------------------------------------------------
(* Small facts.                                                            *)

\* Clamp stays within its bounds.
LEMMA ClampFacts ==
  ASSUME NEW k \in Nat, NEW lo \in Nat, NEW hi \in Nat, lo <= hi
  PROVE  /\ Clamp(k, lo, hi) \in Nat /\ lo <= Clamp(k, lo, hi) /\ Clamp(k, lo, hi) <= hi
         /\ k <= hi => k <= Clamp(k, lo, hi) /\ (k = Clamp(k, lo, hi) \/ Clamp(k, lo, hi) = lo)
BY DEF Clamp, Least, Greatest

\* The constants are as the assumption says.
LEMMA JobSets ==
  /\ MaxOutput \in Nat /\ MaxKeys \in Nat /\ MaxInputBytes \in Nat /\ MaxRead \in Nat \ {0}
  /\ ReplayBytes \in Nat \ {0} /\ Budget \in Nat
  /\ JobId \subseteq Nat /\ Stream \subseteq Nat /\ Token \subseteq Nat \ {0}
  /\ None \notin Nat /\ None \notin JobId /\ None \notin Stream /\ None \notin Client
BY TerminalAssumption DEF JobId, Stream, Token

\* What a job's own state says of itself: the ring, the queue and the exit.
Sound(j) ==
  /\ job[j].replay_start <= job[j].replay_end
  /\ job[j].replay_end <= job[j].replay_start + ReplayBytes
  /\ job[j].replay_start < job[j].replay_end \/ job[j].replay_end = 0
  /\ job[j].from <= job[j].replay_end
  /\ job[j].copied <= Len(job[j].input)
  /\ Len(job[j].input) <= MaxInputBytes
  /\ job[j].exit_status # None => job[j].worker \in {"finish", "finished"}

\* What the audit log and the worker's counters say of the job.
Traced(j) ==
  /\ job[j].capture.recorded + job[j].capture.dropped = job[j].capture.input + job[j].capture.output
  /\ ~job[j].capture.failed =>
       /\ job[j].capture.input = Len(accepted[j]) /\ job[j].capture.output = job[j].replay_end
       /\ job[j].capture.recorded = trail[j].input + trail[j].output
       /\ job[j].capture.recorded < Budget =>
            trail[j].input = job[j].capture.input /\ trail[j].output = job[j].capture.output
       /\ trail[j].finished => trail[j].summary = job[j].capture.dropped
  /\ trail[j].finished <=> job[j].worker = "finished"
  /\ ~trail[j].torn

JobTypes ==
  /\ job \in [JobId -> Job]
  /\ listed \in JobId \cup {None}
  /\ accepted \in [JobId -> Seq(Token)]
  /\ written \in [JobId -> Nat]
  /\ trail \in [JobId -> Trail]

Jobs == JobTypes /\ \A j \in JobId : Sound(j) /\ Traced(j)

\* The types of a job's fields.
LEMMA JobFields ==
  ASSUME JobTypes, NEW j \in JobId
  PROVE  /\ job[j] \in Job
         /\ job[j].ticket \in Stream \cup {None} /\ job[j].claimed \in Stream \cup {None}
         /\ job[j].from \in Nat /\ job[j].replay_start \in Nat /\ job[j].replay_end \in Nat
         /\ job[j].from <= MaxOutput /\ job[j].replay_start <= MaxOutput /\ job[j].replay_end <= MaxOutput
         /\ job[j].input \in Seq(Token) /\ Len(job[j].input) \in Nat /\ job[j].copied \in Nat
         /\ job[j].shutdown \in BOOLEAN /\ job[j].capture \in Capture
         /\ job[j].exit_status \in {None, "exited", "error", "terminated"}
         /\ job[j].worker \in {"none", "copy", "exchange", "finish", "finished"}
         /\ accepted[j] \in Seq(Token) /\ Len(accepted[j]) \in Nat /\ written[j] \in Nat
         /\ trail[j] \in Trail
<1>1. /\ job[j] \in Job /\ accepted[j] \in Seq(Token) /\ written[j] \in Nat /\ trail[j] \in Trail
  BY DEF JobTypes
<1>2. Len(accepted[j]) \in Nat
  BY <1>1
<1>3. job[j].input \in Seq(Token)
  BY <1>1 DEF Job
<1>4. Len(job[j].input) \in Nat
  BY <1>3
<1> HIDE DEF Capture
<1>5. QED
  BY <1>1, <1>2, <1>3, <1>4, JobSets DEF Job

-----------------------------------------------------------------------------
(* The job alone.                                                          *)

\* The job's ring, queue, counters, worker and log are as they were.
Kept(j) ==
  /\ job'[j].input = job[j].input /\ job'[j].copied = job[j].copied
  /\ job'[j].replay_start = job[j].replay_start /\ job'[j].replay_end = job[j].replay_end
  /\ job'[j].exit_status = job[j].exit_status /\ job'[j].capture = job[j].capture
  /\ accepted'[j] = accepted[j] /\ written'[j] = written[j] /\ trail'[j] = trail[j]

\* A step that keeps all of this keeps the invariant of the jobs.
LEMMA KeptIsSound ==
  ASSUME Jobs, JobTypes', NEW j \in JobId, Kept(j), job'[j].from <= job'[j].replay_end,
         job'[j].worker = job[j].worker \/ (job[j].worker = "none" /\ job'[j].worker = "copy")
  PROVE  Sound(j)' /\ Traced(j)'
<1>1. Sound(j) /\ Traced(j)
  BY DEF Jobs
<1>2. Sound(j)'
  BY <1>1 DEF Sound, Kept
<1>3. Traced(j)'
  BY <1>1 DEF Traced, Kept
<1> QED
  BY <1>2, <1>3

\* A non-empty set of naturals has a least element.
LEMMA LeastExists ==
  ASSUME NEW S \in SUBSET Nat, S # {}
  PROVE  \E x \in S : \A y \in S : x <= y
<1> DEFINE R == {ss \in Nat \X Nat : ss[1] < ss[2]}
<1>0. IsWellFoundedOn(R, Nat)
  BY NatLessThanWellFounded DEF OpToRel
<1>1. \E x \in S : \A y \in S : ~ (<<y, x>> \in R)
  <2> HIDE DEF R
  <2> QED
    BY <1>0, WFMin, Zenon
<1>2. \A x, y \in Nat : ~(<<y, x>> \in R) => x <= y
  OBVIOUS
<1> HIDE DEF R
<1> QED
  BY <1>1, <1>2

\* The job a start takes is one that was never used.
LEMMA NewJobIsNew ==
  ASSUME \E j \in JobId : job[j] = NoJob
  PROVE  NewJob \in JobId /\ job[NewJob] = NoJob
<1> DEFINE S == {j \in JobId : job[j] = NoJob}
<1>1. PICK i \in S : \A j \in S : i <= j
  BY JobSets, LeastExists
<1>2. ASSUME NEW k \in 1..(i - 1) PROVE job[k] # NoJob
  BY <1>1, <1>2, JobSets, TerminalAssumption DEF JobId
<1> QED
  BY <1>1, <1>2 DEF NewJob

\* A job that is not started.
LEMMA NoJobFields ==
  /\ NoJob \in Job /\ NoJob.ticket = None /\ NoJob.from = 0 /\ NoJob.claimed = None /\ NoJob.input = <<>>
  /\ NoJob.replay_start = 0 /\ NoJob.replay_end = 0 /\ NoJob.exit_status = None /\ NoJob.shutdown = FALSE
  /\ NoJob.worker = "none" /\ NoJob.copied = 0 /\ NoJob.capture = NoCapture
<1>1. <<>> \in Seq(Token) /\ NoCapture \in Capture /\ 0 \in 0..MaxOutput
  BY JobSets DEF NoCapture, Capture
<1> QED
  BY <1>1 DEF NoJob, Job

\* A start takes an unused job and leaves the others alone.
LEMMA StartKeeps ==
  ASSUME Jobs, NEW n \in Stream, start(n)
  PROVE  /\ Jobs' /\ listed' \in JobId /\ job[listed'] = NoJob
         /\ job'[listed'].ticket = n /\ job'[listed'].claimed = None /\ job'[listed'].from = 0
         /\ job'[listed'].worker = "copy"
         /\ \A j \in JobId : Kept(j) /\ (j # listed' => job'[j] = job[j])
<1>1. NewJob \in JobId /\ job[NewJob] = NoJob /\ listed' = NewJob
  BY NewJobIsNew DEF start
<1>2. /\ JobTypes'
      /\ job'[NewJob] = [NoJob EXCEPT !.ticket = n, !.worker = "copy"]
      /\ \A j \in JobId : j # NewJob => job'[j] = job[j]
      /\ accepted' = accepted /\ written' = written /\ trail' = trail
  <2> HIDE DEF Capture, NewJob
  <2> QED
    BY <1>1, NoJobFields DEF start, Jobs, JobTypes, Job
<1>3. ASSUME NEW j \in JobId PROVE Kept(j)
  <2>1. CASE j = NewJob
    BY <1>1, <1>2, <2>1, NoJobFields DEF Kept, Job
  <2>2. CASE j # NewJob
    BY <1>1, <1>2, <2>2 DEF Kept
  <2> QED
    BY <2>1, <2>2
<1>4. ASSUME NEW j \in JobId
      PROVE  /\ job'[j].from <= job'[j].replay_end
             /\ job'[j].worker = job[j].worker \/ (job[j].worker = "none" /\ job'[j].worker = "copy")
  <2>1. CASE j = NewJob
    <3>1. /\ job'[j].from = 0 /\ job'[j].replay_end = 0 /\ job'[j].worker = "copy" /\ job[j].worker = "none"
      BY <1>1, <1>2, <2>1, NoJobFields DEF Job
    <3> QED
      BY <3>1
  <2>2. CASE j # NewJob
    <3>1. job'[j] = job[j]
      BY <1>2, <2>2
    <3>2. Sound(j)
      BY DEF Jobs
    <3>3. job[j].from <= job[j].replay_end
      BY <3>2 DEF Sound
    <3> QED
      BY <3>1, <3>3
  <2> QED
    BY <2>1, <2>2
<1>5. Jobs'
  BY <1>2, <1>3, <1>4, KeptIsSound DEF Jobs
<1> QED
  BY <1>1, <1>2, <1>3, <1>5, NoJobFields DEF Job

\* Where an attached stream starts.
LEMMA ReplayFromFacts ==
  ASSUME Jobs, NEW j \in JobId, NEW a \in 0..MaxOutput \cup {None}
  PROVE  /\ ReplayFrom(j, a) \in 0..MaxOutput
         /\ job[j].replay_start <= ReplayFrom(j, a) /\ ReplayFrom(j, a) <= job[j].replay_end
         /\ a = None => ReplayFrom(j, a) = job[j].replay_start
         /\ a # None /\ a <= job[j].replay_end =>
              a <= ReplayFrom(j, a) /\ (a = ReplayFrom(j, a) \/ ReplayFrom(j, a) = job[j].replay_start)
<1>1. /\ job[j].replay_start \in Nat /\ job[j].replay_end \in Nat /\ job[j].replay_end <= MaxOutput
      /\ job[j].replay_start <= job[j].replay_end
  BY JobFields DEF Jobs, Sound
<1> DEFINE k == IF a = None THEN job[j].replay_start ELSE a
<1>2. k \in Nat
  BY <1>1, JobSets
<1>3. ReplayFrom(j, a) = Clamp(k, job[j].replay_start, job[j].replay_end)
  BY DEF ReplayFrom
<1>4. a = None => k = job[j].replay_start
  OBVIOUS
<1>5. a # None => k = a
  OBVIOUS
<1>6. PICK lo \in Nat, hi \in Nat : lo = job[j].replay_start /\ hi = job[j].replay_end
  BY <1>1
<1> HIDE DEF k
<1>7. /\ Clamp(k, lo, hi) \in Nat /\ lo <= Clamp(k, lo, hi) /\ Clamp(k, lo, hi) <= hi
      /\ k <= hi => k <= Clamp(k, lo, hi) /\ (k = Clamp(k, lo, hi) \/ Clamp(k, lo, hi) = lo)
  BY <1>1, <1>2, <1>6, ClampFacts
<1>8. PICK r \in Nat : r = Clamp(k, lo, hi)
  BY <1>7
<1>9. r = ReplayFrom(j, a)
  BY <1>3, <1>6, <1>8
<1>10. /\ r \in 0..MaxOutput /\ lo <= r /\ r <= hi
       /\ k <= hi => k <= r /\ (k = r \/ r = lo)
  BY <1>1, <1>6, <1>7, <1>8, JobSets
<1>11. a = None => r = lo
  BY <1>4, <1>6, <1>10
<1> QED
  BY <1>5, <1>6, <1>9, <1>10, <1>11

\* An attachment only replaces the ticket.
LEMMA AttachKeeps ==
  ASSUME Jobs, NEW n \in Stream, NEW a \in 0..MaxOutput \cup {None}, attach(n, a)
  PROVE  /\ Jobs' /\ listed \in JobId /\ listed' = listed
         /\ job[listed].claimed = None /\ job'[listed].claimed = None
         /\ job'[listed].ticket = n /\ job'[listed].from = ReplayFrom(listed, a)
         /\ job'[listed].worker = job[listed].worker
         /\ \A j \in JobId : Kept(j) /\ (j # listed => job'[j] = job[j])
<1>0. listed \in JobId /\ listed' = listed /\ job[listed].claimed = None
  BY DEF attach, Jobs, JobTypes
<1> DEFINE f == ReplayFrom(listed, a)
<1>1. f \in 0..MaxOutput /\ f <= job[listed].replay_end
  BY <1>0, ReplayFromFacts
<1>2. job' = [job EXCEPT ![listed].ticket = n, ![listed].from = f] /\ UNCHANGED <<accepted, written, trail>>
  BY DEF attach
<1> HIDE DEF f
<1>3. /\ JobTypes'
      /\ job'[listed] = [job[listed] EXCEPT !.ticket = n, !.from = f]
      /\ \A j \in JobId : j # listed => job'[j] = job[j]
  <2>1. job \in [JobId -> Job]
    BY DEF Jobs, JobTypes
  <2>2. job[listed] \in Job
    BY <1>0, <2>1
  <2>3. [job[listed] EXCEPT !.ticket = n, !.from = f] \in Job
    BY <1>1, <2>2 DEF Job
  <2>4. job' = [job EXCEPT ![listed] = [job[listed] EXCEPT !.ticket = n, !.from = f]]
    BY <1>0, <1>2, <2>1
  <2> QED
    BY <1>0, <1>2, <2>1, <2>3, <2>4 DEF Jobs, JobTypes
<1>4. job[listed] \in Job
  BY <1>0 DEF Jobs, JobTypes
<1>5. /\ job'[listed].ticket = n /\ job'[listed].from = f /\ job'[listed].claimed = None
      /\ job'[listed].worker = job[listed].worker /\ Kept(listed)
  <2>1. accepted' = accepted /\ written' = written /\ trail' = trail
    BY <1>2
  <2> QED
    BY <1>0, <1>3, <1>4, <2>1 DEF Job, Kept
<1>6. ASSUME NEW j \in JobId
      PROVE  /\ Kept(j) /\ job'[j].from <= job'[j].replay_end /\ job'[j].worker = job[j].worker
  BY <1>1, <1>2, <1>3, <1>5 DEF Kept, Jobs, Sound
<1>7. Jobs'
  BY <1>3, <1>6, KeptIsSound DEF Jobs
<1> QED
  BY <1>0, <1>3, <1>5, <1>6, <1>7 DEF f

\* A step that keeps every job's state but its ticket, claim and shutdown flag.
LEMMA AllKept ==
  ASSUME Jobs, JobTypes',
         \A j \in JobId : Kept(j) /\ job'[j].from = job[j].from /\ job'[j].worker = job[j].worker
  PROVE  Jobs'
<1>1. ASSUME NEW j \in JobId PROVE job'[j].from <= job'[j].replay_end
  <2>1. Sound(j)
    BY DEF Jobs
  <2>2. job[j].from <= job[j].replay_end /\ job'[j].replay_end = job[j].replay_end
    BY <2>1 DEF Kept, Sound
  <2> QED
    BY <2>2
<1> QED
  BY <1>1, KeptIsSound DEF Jobs

\* One job is replaced by a job that differs in its ticket, claim and shutdown
\* flag at most.
LEMMA TouchedKeeps ==
  ASSUME Jobs, NEW i \in JobId, NEW k \in Job, job' = [job EXCEPT ![i] = k],
         k.from = job[i].from, k.worker = job[i].worker, k.input = job[i].input,
         k.copied = job[i].copied, k.replay_start = job[i].replay_start,
         k.replay_end = job[i].replay_end, k.exit_status = job[i].exit_status,
         k.capture = job[i].capture,
         listed' \in JobId \cup {None}, UNCHANGED <<accepted, written, trail>>
  PROVE  /\ Jobs' /\ job'[i] = k
         /\ \A j \in JobId : /\ Kept(j) /\ (j # i => job'[j] = job[j])
                             /\ job'[j].from = job[j].from /\ job'[j].worker = job[j].worker
<1>1. job \in [JobId -> Job]
  BY DEF Jobs, JobTypes
<1>2. job' \in [JobId -> Job] /\ job'[i] = k /\ \A j \in JobId : j # i => job'[j] = job[j]
  BY <1>1
<1>3. accepted' = accepted /\ written' = written /\ trail' = trail
  OBVIOUS
<1>4. ASSUME NEW j \in JobId
      PROVE  Kept(j) /\ job'[j].from = job[j].from /\ job'[j].worker = job[j].worker
  <2>1. CASE j = i
    BY <1>2, <1>3, <2>1 DEF Kept
  <2>2. CASE j # i
    <3>1. job'[j] = job[j]
      BY <1>2, <2>2
    <3> QED
      BY <1>3, <3>1 DEF Kept
  <2> QED
    BY <2>1, <2>2
<1>5. JobTypes'
  BY <1>2, <1>3 DEF JobTypes, Jobs
<1> QED
  BY <1>2, <1>4, <1>5, AllKept

\* A claim trades the ticket for the stream.
LEMMA ClaimKeeps ==
  ASSUME Jobs, NEW n \in Stream, claim(n)
  PROVE  /\ Jobs' /\ listed \in JobId /\ listed' = listed /\ job[listed].ticket = n
         /\ job[listed].claimed = None /\ job'[listed].claimed = n /\ job'[listed].ticket = None
         /\ job'[listed].from = job[listed].from /\ job'[listed].worker = job[listed].worker
         /\ \A j \in JobId : Kept(j) /\ (j # listed => job'[j] = job[j])
<1>1. /\ listed \in JobId /\ listed' = listed /\ job[listed].ticket = n /\ job[listed].claimed = None
      /\ job' = [job EXCEPT ![listed].ticket = None, ![listed].claimed = n]
      /\ UNCHANGED <<accepted, written, trail>>
  BY DEF claim, Claimable, Jobs, JobTypes
<1>2. job \in [JobId -> Job] /\ job[listed] \in Job
  BY <1>1 DEF Jobs, JobTypes
<1>3. PICK k \in Job : k = [job[listed] EXCEPT !.ticket = None, !.claimed = n]
  BY <1>2 DEF Job
<1>4. job' = [job EXCEPT ![listed] = k]
  BY <1>1, <1>2, <1>3
<1>5. /\ k.ticket = None /\ k.claimed = n
      /\ k.from = job[listed].from /\ k.worker = job[listed].worker /\ k.input = job[listed].input
      /\ k.copied = job[listed].copied /\ k.replay_start = job[listed].replay_start
      /\ k.replay_end = job[listed].replay_end /\ k.exit_status = job[listed].exit_status
      /\ k.capture = job[listed].capture
  BY <1>2, <1>3 DEF Job
<1>6. listed' \in JobId \cup {None}
  BY <1>1
<1>7. /\ Jobs' /\ job'[listed] = k
      /\ \A j \in JobId : Kept(j) /\ (j # listed => job'[j] = job[j])
  BY <1>1, <1>4, <1>5, <1>6, TouchedKeeps
<1> QED
  BY <1>1, <1>5, <1>7

\* A release takes the claim of the stream off the listed job, if it is its own.
LEMMA ReleaseKeeps ==
  ASSUME Jobs, NEW n \in Stream, NEW i \in JobId, job' = Released(n, i),
         UNCHANGED <<listed, accepted, written, trail>>
  PROVE  /\ Jobs'
         /\ Claims(n, i) => job'[i].claimed = None
         /\ ~Claims(n, i) => job'[i] = job[i]
         /\ job'[i].ticket = job[i].ticket
         /\ \A j \in JobId : /\ Kept(j) /\ (j # i => job'[j] = job[j])
                             /\ job'[j].from = job[j].from /\ job'[j].worker = job[j].worker
<1>0. job \in [JobId -> Job] /\ job[i] \in Job /\ listed' \in JobId \cup {None}
  BY DEF Jobs, JobTypes
<1>1. CASE Claims(n, i)
  <2>1. PICK k \in Job : k = [job[i] EXCEPT !.claimed = None]
    BY <1>0 DEF Job
  <2>2. job' = [job EXCEPT ![i] = k]
    BY <1>0, <1>1, <2>1 DEF Released
  <2>3. /\ k.ticket = job[i].ticket /\ k.claimed = None
        /\ k.from = job[i].from /\ k.worker = job[i].worker /\ k.input = job[i].input
        /\ k.copied = job[i].copied /\ k.replay_start = job[i].replay_start
        /\ k.replay_end = job[i].replay_end /\ k.exit_status = job[i].exit_status
        /\ k.capture = job[i].capture
    BY <1>0, <2>1 DEF Job
  <2>4. /\ Jobs' /\ job'[i] = k
        /\ \A j \in JobId : /\ Kept(j) /\ (j # i => job'[j] = job[j])
                            /\ job'[j].from = job[j].from /\ job'[j].worker = job[j].worker
    BY <1>0, <2>2, <2>3, TouchedKeeps
  <2> QED
    BY <1>1, <2>3, <2>4
<1>2. CASE ~Claims(n, i)
  <2>1. job' = job /\ accepted' = accepted /\ written' = written /\ trail' = trail /\ listed' = listed
    BY <1>2 DEF Released
  <2>2. \A j \in JobId : /\ Kept(j) /\ job'[j] = job[j]
                         /\ job'[j].from = job[j].from /\ job'[j].worker = job[j].worker
    BY <2>1 DEF Kept
  <2>3. JobTypes'
    BY <2>1 DEF Jobs, JobTypes
  <2>4. Jobs'
    BY <2>2, <2>3, AllKept
  <2> QED
    BY <1>2, <2>2, <2>4
<1> QED
  BY <1>1, <1>2

\* Termination tells a job that runs to stop; the job is no longer listed.
LEMMA TerminateKeeps ==
  ASSUME Jobs, terminate
  PROVE  /\ Jobs' /\ listed \in JobId /\ listed' = None
         /\ \A j \in JobId : /\ Kept(j) /\ job'[j].claimed = job[j].claimed /\ job'[j].ticket = job[j].ticket
                             /\ job'[j].from = job[j].from /\ job'[j].worker = job[j].worker
<1>1. /\ listed \in JobId /\ listed' = None
      /\ job' = [job EXCEPT ![listed].shutdown = @ \/ job[listed].worker # "finished"]
      /\ UNCHANGED <<accepted, written, trail>>
  BY DEF terminate, Jobs, JobTypes
<1>2. job \in [JobId -> Job] /\ job[listed] \in Job
  BY <1>1 DEF Jobs, JobTypes
<1>3. PICK b \in BOOLEAN : b = (job[listed].shutdown \/ job[listed].worker # "finished")
  OBVIOUS
<1>4. PICK k \in Job : k = [job[listed] EXCEPT !.shutdown = b]
  BY <1>2 DEF Job
<1>5. job' = [job EXCEPT ![listed] = k]
  BY <1>1, <1>2, <1>3, <1>4
<1>6. /\ k.ticket = job[listed].ticket /\ k.claimed = job[listed].claimed
      /\ k.from = job[listed].from /\ k.worker = job[listed].worker /\ k.input = job[listed].input
      /\ k.copied = job[listed].copied /\ k.replay_start = job[listed].replay_start
      /\ k.replay_end = job[listed].replay_end /\ k.exit_status = job[listed].exit_status
      /\ k.capture = job[listed].capture
  BY <1>2, <1>4 DEF Job
<1>7. listed' \in JobId \cup {None}
  BY <1>1
<1>8. /\ Jobs' /\ job'[listed] = k
      /\ \A j \in JobId : /\ Kept(j) /\ (j # listed => job'[j] = job[j])
                          /\ job'[j].from = job[j].from /\ job'[j].worker = job[j].worker
  BY <1>1, <1>5, <1>6, <1>7, TouchedKeeps
<1> QED
  BY <1>1, <1>6, <1>8

\* A write adds to the queue of the claimed job, within its limit.
LEMMA WriteKeeps ==
  ASSUME Jobs, NEW n \in Stream, NEW i \in JobId, NEW bytes \in Seq(Token), write_claimed(n, i, bytes)
  PROVE  /\ Jobs' /\ Claims(n, i) /\ listed' = listed
         /\ job'[i].input = job[i].input \o bytes /\ written'[i] = written[i] + Len(bytes)
         /\ accepted' = accepted
         /\ \A j \in JobId : /\ j # i => job'[j] = job[j] /\ written'[j] = written[j]
                             /\ job'[j].from = job[j].from /\ job'[j].worker = job[j].worker
                             /\ job'[j].claimed = job[j].claimed /\ job'[j].ticket = job[j].ticket
                             /\ job'[j].replay_start = job[j].replay_start
                             /\ job'[j].replay_end = job[j].replay_end
                             /\ job'[j].exit_status = job[j].exit_status
<1>1. /\ Claims(n, i) /\ Len(job[i].input) + Len(bytes) <= MaxInputBytes
      /\ job' = [job EXCEPT ![i].input = job[i].input \o bytes]
      /\ written' = [written EXCEPT ![i] = written[i] + Len(bytes)]
      /\ listed' = listed /\ accepted' = accepted /\ trail' = trail
  BY DEF write_claimed, MayWrite, Jobs, JobTypes
<1>2. /\ job \in [JobId -> Job] /\ job[i] \in Job /\ written \in [JobId -> Nat] /\ written[i] \in Nat
      /\ job[i].input \in Seq(Token) /\ Len(job[i].input) \in Nat /\ Len(bytes) \in Nat
  BY JobFields DEF Jobs, JobTypes
<1>3. PICK q \in Seq(Token) : q = job[i].input \o bytes /\ Len(q) = Len(job[i].input) + Len(bytes)
  <2>1. PICK p \in Seq(Token) : p = job[i].input
    BY <1>2
  <2>2. p \o bytes \in Seq(Token) /\ Len(p \o bytes) = Len(p) + Len(bytes)
    OBVIOUS
  <2> QED
    BY <2>1, <2>2
<1>4. PICK k \in Job : k = [job[i] EXCEPT !.input = q]
  BY <1>2 DEF Job
<1>5. job' = [job EXCEPT ![i] = k]
  BY <1>1, <1>2, <1>3, <1>4
<1>6. /\ k.ticket = job[i].ticket /\ k.claimed = job[i].claimed /\ k.input = q
      /\ k.from = job[i].from /\ k.worker = job[i].worker
      /\ k.copied = job[i].copied /\ k.replay_start = job[i].replay_start
      /\ k.replay_end = job[i].replay_end /\ k.exit_status = job[i].exit_status
      /\ k.capture = job[i].capture
  BY <1>2, <1>4 DEF Job
<1>7. job' \in [JobId -> Job] /\ job'[i] = k /\ \A j \in JobId : j # i => job'[j] = job[j]
  BY <1>2, <1>5
<1>8. /\ written' \in [JobId -> Nat] /\ written'[i] = written[i] + Len(bytes)
      /\ \A j \in JobId : j # i => written'[j] = written[j]
  BY <1>1, <1>2
<1>9. JobTypes'
  BY <1>1, <1>7, <1>8 DEF Jobs, JobTypes
<1>10. ASSUME NEW j \in JobId PROVE Sound(j)' /\ Traced(j)'
  <2>0. Sound(j) /\ Traced(j)
    BY DEF Jobs
  <2>1. CASE j = i
    <3>1. Traced(j)'
      BY <1>1, <1>6, <1>7, <2>0, <2>1 DEF Traced
    <3>2. job[i].copied \in Nat /\ Len(q) \in Nat /\ MaxInputBytes \in Nat
      BY <1>3, JobFields, JobSets DEF Jobs
    <3>3. Sound(j)'
      BY <1>1, <1>2, <1>3, <1>6, <1>7, <2>0, <2>1, <3>2 DEF Sound
    <3> QED
      BY <3>1, <3>3
  <2>2. CASE j # i
    <3>1. job'[j] = job[j]
      BY <1>7, <2>2
    <3> QED
      BY <1>1, <2>0, <3>1 DEF Sound, Traced
  <2> QED
    BY <2>1, <2>2
<1>11. Jobs'
  BY <1>9, <1>10 DEF Jobs
<1> QED
  BY <1>1, <1>3, <1>6, <1>7, <1>8, <1>11

-----------------------------------------------------------------------------
(* The audit records of a stream.                                          *)

\* What the budget still allows.
LEMMA AllowedFacts ==
  ASSUME NEW k \in Capture, NEW n \in Nat
  PROVE  /\ Allowed(k, n) \in Nat /\ Allowed(k, n) <= n
         /\ Allowed(k, n) > 0 => k.recorded < Budget
         /\ k.recorded + Allowed(k, n) < Budget => Allowed(k, n) = n
<1>1. k.recorded \in Nat /\ Budget \in Nat
  BY JobSets DEF Capture
<1> QED
  BY <1>1 DEF Allowed, Least

\* The log says what the counters say, as far as the budget goes.
Agrees(k, t) ==
  ~k.failed => /\ k.recorded = t.input + t.output
               /\ k.recorded < Budget => t.input = k.input /\ t.output = k.output

\* The counters after a record of n bytes.
LEMMA RecordedFacts ==
  ASSUME NEW k \in Capture, NEW n \in Nat, NEW ok \in BOOLEAN, NEW d \in {"input", "output"},
         NEW r, r = Recorded(k, d, n, ok)
  PROVE  /\ r \in Capture
         /\ k.recorded + k.dropped = k.input + k.output => r.recorded + r.dropped = r.input + r.output
         /\ k.failed => r.failed
         /\ ~r.failed => r.recorded = k.recorded + Allowed(k, n)
         /\ ~r.failed /\ d = "input" => r.input = k.input + n /\ r.output = k.output
         /\ ~r.failed /\ d = "output" => r.input = k.input /\ r.output = k.output + n
<1>1. PICK a \in Nat : a = Allowed(k, n) /\ a <= n /\ (n = 0 => a = 0)
  BY AllowedFacts
<1>2. /\ k.recorded \in Nat /\ k.dropped \in Nat /\ k.input \in Nat /\ k.output \in Nat /\ k.failed \in BOOLEAN
  BY DEF Capture
<1>3. CASE n = 0 \/ k.failed
  <2>1. r = k
    BY <1>3 DEF Recorded
  <2>2. ~r.failed => n = 0 /\ a = 0
    BY <1>1, <1>3, <2>1
  <2>3. k["input"] = k.input /\ k["output"] = k.output
    OBVIOUS
  <2>4. k[d] \in Nat
    BY <1>2, <2>3
  <2> QED
    BY <1>1, <1>2, <2>1, <2>2, <2>4
<1>4. CASE ~(n = 0 \/ k.failed)
  <2>1. PICK f \in BOOLEAN : f = (~ok /\ Allowed(k, n) > 0)
    OBVIOUS
  <2>2. CASE d = "input"
    <3>0. PICK x \in Nat, y \in Nat, z \in Nat : x = k.input + n /\ y = k.recorded + a /\ z = k.dropped + (n - a)
      BY <1>1, <1>2
    <3>1. r = [k EXCEPT !.input = x, !.recorded = y, !.dropped = z, !.failed = f]
      BY <1>1, <1>4, <2>1, <2>2, <3>0 DEF Recorded, Taken, Capture
    <3>2. /\ r \in Capture /\ r.input = x /\ r.output = k.output /\ r.recorded = y /\ r.dropped = z
      BY <3>1 DEF Capture
    <3> QED
      BY <1>1, <1>2, <1>4, <2>2, <3>0, <3>2
  <2>3. CASE d = "output"
    <3>0. PICK x \in Nat, y \in Nat, z \in Nat : x = k.output + n /\ y = k.recorded + a /\ z = k.dropped + (n - a)
      BY <1>1, <1>2
    <3>1. r = [k EXCEPT !.output = x, !.recorded = y, !.dropped = z, !.failed = f]
      BY <1>1, <1>4, <2>1, <2>3, <3>0 DEF Recorded, Taken, Capture
    <3>2. /\ r \in Capture /\ r.output = x /\ r.input = k.input /\ r.recorded = y /\ r.dropped = z
      BY <3>1 DEF Capture
    <3> QED
      BY <1>1, <1>2, <1>4, <2>3, <3>0, <3>2
  <2> QED
    BY <2>2, <2>3
<1> QED
  BY <1>3, <1>4

\* The same for each direction.
LEMMA RecordedInput ==
  ASSUME NEW k \in Capture, NEW n \in Nat, NEW ok \in BOOLEAN, NEW r, r = Recorded(k, "input", n, ok),
         k.recorded + k.dropped = k.input + k.output
  PROVE  /\ r \in Capture /\ r.recorded + r.dropped = r.input + r.output
         /\ ~r.failed => ~k.failed /\ r.input = k.input + n /\ r.output = k.output
<1>1. "input" \in {"input", "output"}
  OBVIOUS
<1>2. r \in Capture
  BY <1>1, RecordedFacts
<1>3. r.recorded + r.dropped = r.input + r.output
  BY <1>1, RecordedFacts
<1>4. k.failed => r.failed
  BY <1>1, RecordedFacts
<1>5. ~r.failed => r.input = k.input + n /\ r.output = k.output
  BY <1>1, RecordedFacts
<1> QED
  BY <1>2, <1>3, <1>4, <1>5

LEMMA RecordedOutput ==
  ASSUME NEW k \in Capture, NEW n \in Nat, NEW ok \in BOOLEAN, NEW r, r = Recorded(k, "output", n, ok),
         k.recorded + k.dropped = k.input + k.output
  PROVE  /\ r \in Capture /\ r.recorded + r.dropped = r.input + r.output
         /\ ~r.failed => ~k.failed /\ r.output = k.output + n /\ r.input = k.input
<1>1. "output" \in {"input", "output"}
  OBVIOUS
<1>2. r \in Capture
  BY <1>1, RecordedFacts
<1>3. r.recorded + r.dropped = r.input + r.output
  BY <1>1, RecordedFacts
<1>4. k.failed => r.failed
  BY <1>1, RecordedFacts
<1>5. ~r.failed => r.input = k.input /\ r.output = k.output + n
  BY <1>1, RecordedFacts
<1> QED
  BY <1>2, <1>3, <1>4, <1>5

\* How much the log grows by it.
Grown(k, r, n) == IF n = 0 \/ k.failed \/ r.failed THEN 0 ELSE Allowed(k, n)

\* The log after it.
LEMMA TrailedFacts ==
  ASSUME NEW k \in Capture, NEW n \in Nat, NEW d \in {"input", "output"}, NEW r \in Capture,
         NEW t \in Trail, NEW u, u = Trailed(t, k, r, d, n)
  PROVE  /\ u \in Trail /\ Grown(k, r, n) \in Nat /\ u[d] = t[d] + Grown(k, r, n)
         /\ \A e \in {"input", "output"} \ {d} : u[e] = t[e]
         /\ u.summary = t.summary /\ u.finished = t.finished
         /\ ~t.torn /\ ~t.finished /\ (Grown(k, r, n) > 0 => k[d] = t[d]) => ~u.torn
<1>1. PICK new \in Nat : new = Grown(k, r, n)
  BY AllowedFacts DEF Grown
<1>2. PICK b \in BOOLEAN : b = (t.torn \/ t.finished \/ (new > 0 /\ k[d] # t[d]))
  OBVIOUS
<1>3. CASE d = "input"
  <2>0. PICK x \in Nat : x = t.input + new
    BY <1>1 DEF Trail
  <2>1. u = [t EXCEPT !.input = x, !.torn = b]
    BY <1>2, <1>3, <2>0, <1>1 DEF Trailed, Trail, Grown
  <2>2. /\ u \in Trail /\ u.input = x /\ u.output = t.output /\ u.summary = t.summary
        /\ u.finished = t.finished /\ u.torn = b
    BY <2>1 DEF Trail
  <2> QED
    BY <1>1, <1>2, <1>3, <2>0, <2>2
<1>4. CASE d = "output"
  <2>0. PICK x \in Nat : x = t.output + new
    BY <1>1 DEF Trail
  <2>1. u = [t EXCEPT !.output = x, !.torn = b]
    BY <1>2, <1>4, <2>0, <1>1 DEF Trailed, Trail, Grown
  <2>2. /\ u \in Trail /\ u.output = x /\ u.input = t.input /\ u.summary = t.summary
        /\ u.finished = t.finished /\ u.torn = b
    BY <2>1 DEF Trail
  <2> QED
    BY <1>1, <1>2, <1>4, <2>0, <2>2
<1> QED
  BY <1>3, <1>4

\* A record that is taken continues the ones before it, and the log goes on
\* saying what the counters say.
LEMMA RecordAgrees ==
  ASSUME NEW k \in Capture, NEW n \in Nat, NEW ok \in BOOLEAN, NEW d \in {"input", "output"},
         NEW t \in Trail, Agrees(k, t), ~t.torn, ~t.finished,
         NEW r, r = Recorded(k, d, n, ok), NEW u, u = Trailed(t, k, r, d, n)
  PROVE  Agrees(r, u) /\ ~u.torn /\ ~u.finished /\ u \in Trail
<1>1. /\ k.failed => r.failed
      /\ ~r.failed => r.recorded = k.recorded + Allowed(k, n)
      /\ ~r.failed /\ d = "input" => r.input = k.input + n /\ r.output = k.output
      /\ ~r.failed /\ d = "output" => r.input = k.input /\ r.output = k.output + n
  BY RecordedFacts
<1>3. r \in Capture
  BY RecordedFacts
<1>2. PICK new \in Nat : new = Grown(k, r, n)
  BY <1>3, AllowedFacts DEF Grown
<1>4. /\ u \in Trail /\ new \in Nat /\ u[d] = t[d] + new
      /\ \A e \in {"input", "output"} \ {d} : u[e] = t[e]
      /\ u.finished = t.finished
      /\ (new > 0 => k[d] = t[d]) => ~u.torn
  <2>1. /\ u \in Trail /\ u[d] = t[d] + Grown(k, r, n)
        /\ \A e \in {"input", "output"} \ {d} : u[e] = t[e]
        /\ u.finished = t.finished
    BY <1>3, TrailedFacts
  <2>2. (Grown(k, r, n) > 0 => k[d] = t[d]) => ~u.torn
    BY <1>3, TrailedFacts
  <2> QED
    BY <1>2, <2>1, <2>2
<1>5. PICK a \in Nat : /\ a = Allowed(k, n) /\ a <= n /\ (a > 0 => k.recorded < Budget)
                       /\ (k.recorded + a < Budget => a = n)
  BY AllowedFacts
<1>6. /\ k.recorded \in Nat /\ k.input \in Nat /\ k.output \in Nat /\ k.failed \in BOOLEAN /\ Budget \in Nat
      /\ t.input \in Nat /\ t.output \in Nat /\ r.failed \in BOOLEAN
      /\ r.recorded \in Nat /\ r.input \in Nat /\ r.output \in Nat /\ u.input \in Nat /\ u.output \in Nat
  BY <1>3, <1>4, JobSets DEF Capture, Trail
<1>7. k["input"] = k.input /\ k["output"] = k.output /\ t["input"] = t.input /\ t["output"] = t.output
  OBVIOUS
<1>8. new > 0 => k[d] = t[d]
  <2>1. new > 0 => ~k.failed /\ a > 0
    BY <1>2, <1>5 DEF Grown
  <2> QED
    BY <1>5, <1>7, <2>1 DEF Agrees
<1>9. ~u.torn /\ ~u.finished
  BY <1>4, <1>8
<1>10. ASSUME ~r.failed
       PROVE  /\ r.recorded = u.input + u.output
              /\ r.recorded < Budget => u.input = r.input /\ u.output = r.output
  <2>1. ~k.failed /\ new = a
    <3>1. n = 0 => a = 0
      BY <1>5
    <3> QED
      BY <1>1, <1>2, <1>5, <1>10, <3>1 DEF Grown
  <2>2. CASE d = "input"
    <3>1. r.input = k.input + n /\ r.output = k.output /\ r.recorded = k.recorded + a
      BY <1>1, <1>5, <1>10, <2>2
    <3>2. u.input = t.input + a /\ u.output = t.output
      BY <1>4, <2>1, <2>2
    <3> QED
      BY <1>5, <1>6, <2>1, <3>1, <3>2 DEF Agrees
  <2>3. CASE d = "output"
    <3>1. r.output = k.output + n /\ r.input = k.input /\ r.recorded = k.recorded + a
      BY <1>1, <1>5, <1>10, <2>3
    <3>2. u.output = t.output + a /\ u.input = t.input
      BY <1>4, <2>1, <2>3
    <3> QED
      BY <1>5, <1>6, <2>1, <3>1, <3>2 DEF Agrees
  <2> QED
    BY <2>2, <2>3
<1> QED
  BY <1>4, <1>9, <1>10 DEF Agrees

-----------------------------------------------------------------------------
(* The worker.                                                             *)

\* What a process has taken and what is queued for it.
Fed(j) == accepted[j] \o job[j].input

\* Moving the first t queued bytes to the process changes nothing of this.
LEMMA MoveKeepsOrder ==
  ASSUME NEW a \in Seq(Token), NEW q \in Seq(Token), NEW t \in 0..Len(q)
  PROVE  /\ SubSeq(q, 1, t) \in Seq(Token) /\ SubSeq(q, t + 1, Len(q)) \in Seq(Token)
         /\ Len(SubSeq(q, 1, t)) = t /\ Len(SubSeq(q, t + 1, Len(q))) = Len(q) - t
         /\ (a \o SubSeq(q, 1, t)) \o SubSeq(q, t + 1, Len(q)) = a \o q
<1>0. Len(q) \in Nat /\ t \in Nat /\ t <= Len(q)
  OBVIOUS
<1>1. \A i \in 1..t : q[i] \in Token
  BY <1>0
<1>2. \A i \in (t + 1)..Len(q) : q[i] \in Token
  BY <1>0
<1>3. SubSeq(q, 1, t) \in Seq(Token) /\ Len(SubSeq(q, 1, t)) = t /\ \A i \in 1..t : SubSeq(q, 1, t)[i] = q[i]
  BY <1>0, <1>1
<1>4. /\ SubSeq(q, t + 1, Len(q)) \in Seq(Token) /\ Len(SubSeq(q, t + 1, Len(q))) = Len(q) - t
      /\ \A i \in 1..(Len(q) - t) : SubSeq(q, t + 1, Len(q))[i] = q[t + i]
  BY <1>0, <1>2
<1>5. PICK f \in Seq(Token), r \in Seq(Token) : f = SubSeq(q, 1, t) /\ r = SubSeq(q, t + 1, Len(q))
  BY <1>3, <1>4
<1>6. f \o r = q
  <2>1. 1 \in 1..(Len(q) + 1) /\ t \in (1 - 1)..Len(q) /\ Len(q) \in t..Len(q)
    BY <1>0
  <2>2. SubSeq(q, 1, t) \o SubSeq(q, t + 1, Len(q)) = SubSeq(q, 1, Len(q))
    BY <2>1, ConcatAdjacentSubSeq
  <2>3. SubSeq(q, 1, Len(q)) = q
    BY SubSeqFull
  <2> QED
    BY <1>5, <2>2, <2>3
<1>7. (a \o f) \o r = a \o (f \o r)
  BY ConcatAssociative
<1> QED
  BY <1>3, <1>4, <1>5, <1>6, <1>7

\* What a step of the worker of job j does not do.
Worked(j) ==
  /\ listed' = listed /\ written' = written /\ Fed(j)' = Fed(j)
  /\ \A i \in JobId \ {j} : job'[i] = job[i] /\ accepted'[i] = accepted[i] /\ trail'[i] = trail[i]
  /\ job'[j].ticket = job[j].ticket /\ job'[j].claimed = job[j].claimed /\ job'[j].from = job[j].from
  /\ job[j].replay_start <= job'[j].replay_start /\ job[j].replay_end <= job'[j].replay_end
  /\ job[j].exit_status # None => job'[j].exit_status # None /\ job'[j].replay_end = job[j].replay_end
  /\ job[j].worker # "none" /\ job'[j].worker # "none"

\* The worker's step keeps the invariant if it does of its own job.
LEMMA OneWorks ==
  ASSUME Jobs, NEW j \in JobId, JobTypes', Sound(j)', Traced(j)',
         \A i \in JobId \ {j} : job'[i] = job[i] /\ accepted'[i] = accepted[i] /\ trail'[i] = trail[i]
  PROVE  Jobs'
<1>1. ASSUME NEW i \in JobId, i # j PROVE Sound(i)' /\ Traced(i)'
  <2>1. Sound(i) /\ Traced(i) /\ job'[i] = job[i] /\ accepted'[i] = accepted[i] /\ trail'[i] = trail[i]
    BY <1>1 DEF Jobs
  <2> QED
    BY <2>1 DEF Sound, Traced
<1> QED
  BY <1>1 DEF Jobs

\* The worker copies the queue, or learns that it is to stop.
LEMMA WorkerCopiesKeeps ==
  ASSUME Jobs, NEW j \in JobId, WorkerCopies(j)
  PROVE  Jobs' /\ Worked(j)
<1>0. /\ job \in [JobId -> Job] /\ job[j] \in Job /\ Sound(j) /\ Traced(j)
      /\ listed' = listed /\ accepted' = accepted /\ written' = written /\ trail' = trail
      /\ job[j].worker = "copy"
  BY DEF Jobs, JobTypes, WorkerCopies
<1>1. job[j].input \in Seq(Token) /\ Len(job[j].input) \in Nat /\ job[j].replay_start \in Nat /\ job[j].replay_end \in Nat
  BY JobFields DEF Jobs
<1>2. ASSUME NEW k \in Job, job' = [job EXCEPT ![j] = k], k.ticket = job[j].ticket, k.claimed = job[j].claimed,
             k.from = job[j].from, k.input = job[j].input, k.replay_start = job[j].replay_start,
             k.replay_end = job[j].replay_end, k.capture = job[j].capture, k.copied <= Len(job[j].input),
             \/ k.worker = "finish" /\ k.exit_status # None
             \/ k.worker = "exchange" /\ k.exit_status = job[j].exit_status
      PROVE  Jobs' /\ Worked(j)
  <2>1. job' \in [JobId -> Job] /\ job'[j] = k /\ \A i \in JobId : i # j => job'[i] = job[i]
    BY <1>0, <1>2
  <2>2. JobTypes'
    BY <1>0, <2>1 DEF Jobs, JobTypes
  <2>3. job[j].exit_status = None
    BY <1>0 DEF Sound
  <2>4. Sound(j)'
    BY <1>0, <1>2, <2>1, <2>3 DEF Sound
  <2>5. Traced(j)'
    BY <1>0, <1>2, <2>1 DEF Traced
  <2>6. Jobs'
    BY <1>0, <2>1, <2>2, <2>4, <2>5, OneWorks
  <2>7. Fed(j)' = Fed(j)
    BY <1>0, <1>2, <2>1 DEF Fed
  <2>8. job[j].replay_start <= job'[j].replay_start /\ job[j].replay_end <= job'[j].replay_end
    BY <1>1, <1>2, <2>1
  <2> QED
    BY <1>0, <1>2, <2>1, <2>3, <2>6, <2>7, <2>8 DEF Worked
<1>3. CASE job[j].shutdown
  <2>1. PICK k \in Job : k = [job[j] EXCEPT !.worker = "finish", !.exit_status = "terminated"]
    BY <1>0 DEF Job
  <2>2. job' = [job EXCEPT ![j] = k]
    BY <1>0, <1>3, <2>1 DEF WorkerCopies
  <2>3. /\ k.ticket = job[j].ticket /\ k.claimed = job[j].claimed
        /\ k.from = job[j].from /\ k.input = job[j].input /\ k.replay_start = job[j].replay_start
        /\ k.replay_end = job[j].replay_end /\ k.capture = job[j].capture /\ k.copied = job[j].copied
        /\ k.worker = "finish" /\ k.exit_status # None
    BY <1>0, <2>1, TerminalAssumption DEF Job
  <2>4. k.copied <= Len(job[j].input)
    BY <1>0, <2>3 DEF Sound
  <2> QED
    BY <1>2, <2>2, <2>3, <2>4
<1>4. CASE ~job[j].shutdown
  <2>1. PICK k \in Job : k = [job[j] EXCEPT !.worker = "exchange", !.copied = Len(job[j].input)]
    BY <1>0, <1>1 DEF Job
  <2>2. job' = [job EXCEPT ![j] = k]
    BY <1>0, <1>4, <2>1 DEF WorkerCopies
  <2>3. /\ k.ticket = job[j].ticket /\ k.claimed = job[j].claimed
        /\ k.from = job[j].from /\ k.input = job[j].input /\ k.replay_start = job[j].replay_start
        /\ k.replay_end = job[j].replay_end /\ k.capture = job[j].capture /\ k.copied = Len(job[j].input)
        /\ k.worker = "exchange" /\ k.exit_status = job[j].exit_status
    BY <1>0, <2>1 DEF Job
  <2>4. k.copied <= Len(job[j].input)
    BY <1>1, <2>3
  <2> QED
    BY <1>2, <2>2, <2>3, <2>4
<1> QED
  BY <1>3, <1>4

\* A failed exchange ends the job.
LEMMA WorkerFailsKeeps ==
  ASSUME Jobs, NEW j \in JobId, WorkerFails(j)
  PROVE  Jobs' /\ Worked(j)
<1>0. /\ job \in [JobId -> Job] /\ job[j] \in Job /\ Sound(j) /\ Traced(j)
      /\ listed' = listed /\ accepted' = accepted /\ written' = written /\ trail' = trail
      /\ job[j].worker = "exchange"
  BY DEF Jobs, JobTypes, WorkerFails
<1>1. job[j].input \in Seq(Token) /\ Len(job[j].input) \in Nat /\ job[j].replay_start \in Nat /\ job[j].replay_end \in Nat
  BY JobFields DEF Jobs
<1>2. PICK k \in Job : k = [job[j] EXCEPT !.worker = "finish", !.copied = 0, !.exit_status = "error"]
  BY <1>0 DEF Job
<1>3. job' = [job EXCEPT ![j] = k]
  BY <1>0, <1>2 DEF WorkerFails
<1>4. /\ k.ticket = job[j].ticket /\ k.claimed = job[j].claimed
      /\ k.from = job[j].from /\ k.input = job[j].input /\ k.replay_start = job[j].replay_start
      /\ k.replay_end = job[j].replay_end /\ k.capture = job[j].capture /\ k.copied = 0
      /\ k.worker = "finish" /\ k.exit_status # None
  BY <1>0, <1>2, TerminalAssumption DEF Job
<1>5. job' \in [JobId -> Job] /\ job'[j] = k /\ \A i \in JobId : i # j => job'[i] = job[i]
  BY <1>0, <1>3
<1>6. JobTypes'
  BY <1>0, <1>5 DEF Jobs, JobTypes
<1>7. Sound(j)'
  BY <1>0, <1>1, <1>4, <1>5 DEF Sound
<1>8. Traced(j)'
  BY <1>0, <1>4, <1>5 DEF Traced
<1>9. Jobs'
  BY <1>0, <1>5, <1>6, <1>7, <1>8, OneWorks
<1>10. job[j].exit_status = None
  BY <1>0 DEF Sound
<1>11. Fed(j)' = Fed(j)
  BY <1>0, <1>4, <1>5 DEF Fed
<1>12. job[j].replay_start <= job'[j].replay_start /\ job[j].replay_end <= job'[j].replay_end
  BY <1>1, <1>4, <1>5
<1> QED
  BY <1>0, <1>4, <1>5, <1>9, <1>10, <1>11, <1>12 DEF Worked

\* The end of the job states what the log lacks.
LEMMA WorkerFinishesKeeps ==
  ASSUME Jobs, NEW j \in JobId, WorkerFinishes(j)
  PROVE  Jobs' /\ Worked(j)
<1>0. /\ job \in [JobId -> Job] /\ job[j] \in Job /\ Sound(j) /\ Traced(j) /\ trail \in [JobId -> Trail] /\ trail[j] \in Trail
      /\ listed' = listed /\ accepted' = accepted /\ written' = written
      /\ job[j].worker = "finish" /\ job' = [job EXCEPT ![j].worker = "finished"]
      /\ trail' = [trail EXCEPT ![j].summary = Summary(job[j].capture), ![j].finished = TRUE]
  BY DEF Jobs, JobTypes, WorkerFinishes
<1>1. job[j].input \in Seq(Token) /\ Len(job[j].input) \in Nat /\ job[j].replay_start \in Nat /\ job[j].replay_end \in Nat
  BY JobFields DEF Jobs
<1>2. PICK k \in Job : k = [job[j] EXCEPT !.worker = "finished"]
  BY <1>0 DEF Job
<1>3. job' = [job EXCEPT ![j] = k]
  BY <1>0, <1>2
<1>4. /\ k.ticket = job[j].ticket /\ k.claimed = job[j].claimed
      /\ k.from = job[j].from /\ k.input = job[j].input /\ k.replay_start = job[j].replay_start
      /\ k.replay_end = job[j].replay_end /\ k.capture = job[j].capture /\ k.copied = job[j].copied
      /\ k.worker = "finished" /\ k.exit_status = job[j].exit_status
  BY <1>0, <1>2 DEF Job
<1>5. job' \in [JobId -> Job] /\ job'[j] = k /\ \A i \in JobId : i # j => job'[i] = job[i]
  BY <1>0, <1>3
<1>6. PICK s \in Nat : s = Summary(job[j].capture) /\ (~job[j].capture.failed => s = job[j].capture.dropped)
  BY <1>0 DEF Job, Capture, Summary
<1>7. PICK t \in Trail : t = [trail[j] EXCEPT !.summary = s, !.finished = TRUE]
  BY <1>0 DEF Trail
<1>8. t.summary = s /\ t.finished /\ t.torn = trail[j].torn /\ t.input = trail[j].input /\ t.output = trail[j].output
  BY <1>0, <1>7 DEF Trail
<1>9. trail' = [trail EXCEPT ![j] = t]
  BY <1>0, <1>6, <1>7
<1>10. trail' \in [JobId -> Trail] /\ trail'[j] = t /\ \A i \in JobId : i # j => trail'[i] = trail[i]
  BY <1>0, <1>9
<1>11. JobTypes'
  BY <1>0, <1>5, <1>10 DEF Jobs, JobTypes
<1>12. Sound(j)'
  BY <1>0, <1>1, <1>4, <1>5 DEF Sound
<1>13. Traced(j)'
  BY <1>0, <1>4, <1>5, <1>6, <1>8, <1>10 DEF Traced
<1>14. Jobs'
  BY <1>0, <1>5, <1>10, <1>11, <1>12, <1>13, OneWorks
<1>15. Fed(j)' = Fed(j)
  BY <1>0, <1>4, <1>5 DEF Fed
<1>16. job[j].replay_start <= job'[j].replay_start /\ job[j].replay_end <= job'[j].replay_end
  BY <1>1, <1>4, <1>5
<1> QED
  BY <1>0, <1>4, <1>5, <1>10, <1>14, <1>15, <1>16 DEF Worked

\* One exchange: bytes move from the queue to the process, printed bytes move to
\* the ring, and both are recorded.
LEMMA WorkerExchangesKeeps ==
  ASSUME Jobs, NEW j \in JobId, NEW taken \in write_available(j), NEW printed \in 0..1,
         NEW status \in {None, "exited"}, NEW recorded \in BOOLEAN,
         WorkerExchanges(j, taken, printed, status, recorded)
  PROVE  Jobs' /\ Worked(j)
<1> DEFINE cap1 == Recorded(job[j].capture, "input", taken, recorded)
           cap2 == Recorded(cap1, "output", printed, recorded)
           log1 == Trailed(trail[j], job[j].capture, cap1, "input", taken)
           log2 == Trailed(log1, cap1, cap2, "output", printed)
           end  == job[j].replay_end + printed
           from == IF end > ReplayBytes THEN end - ReplayBytes ELSE 0
<1>0. /\ job \in [JobId -> Job] /\ job[j] \in Job /\ Sound(j) /\ Traced(j)
      /\ trail \in [JobId -> Trail] /\ trail[j] \in Trail /\ accepted \in [JobId -> Seq(Token)]
      /\ accepted[j] \in Seq(Token) /\ job[j].input \in Seq(Token) /\ job[j].capture \in Capture
      /\ job[j].replay_start \in Nat /\ job[j].replay_end \in Nat /\ Len(job[j].input) \in Nat
      /\ job[j].replay_start <= MaxOutput /\ job[j].copied \in Nat
  BY JobFields DEF Jobs, JobTypes
<1>1. /\ job[j].worker = "exchange" /\ end <= MaxOutput /\ listed' = listed /\ written' = written
      /\ accepted' = [accepted EXCEPT ![j] = accepted[j] \o SubSeq(job[j].input, 1, taken)]
      /\ trail' = [trail EXCEPT ![j] = log2]
  BY <1>0 DEF WorkerExchanges
<1>2. taken \in 0..Len(job[j].input) /\ taken \in Nat
  <2>1. job[j].copied <= Len(job[j].input)
    BY <1>0 DEF Sound
  <2> QED
    BY <1>0, <2>1 DEF write_available
<1>3. PICK q \in Seq(Token), a \in Seq(Token) :
        /\ q = Popped(j, taken) /\ a = accepted[j] \o SubSeq(job[j].input, 1, taken)
        /\ Len(q) = Len(job[j].input) - taken /\ Len(a) = Len(accepted[j]) + taken
        /\ a \o q = Fed(j)
  <2>1. PICK x \in Seq(Token), y \in Seq(Token) : x = accepted[j] /\ y = job[j].input
    BY <1>0
  <2>2. taken \in 0..Len(y)
    BY <1>2, <2>1
  <2>3. /\ SubSeq(y, 1, taken) \in Seq(Token) /\ SubSeq(y, taken + 1, Len(y)) \in Seq(Token)
        /\ Len(SubSeq(y, 1, taken)) = taken /\ Len(SubSeq(y, taken + 1, Len(y))) = Len(y) - taken
        /\ (x \o SubSeq(y, 1, taken)) \o SubSeq(y, taken + 1, Len(y)) = x \o y
    <3>1. SubSeq(y, 1, taken) \in Seq(Token) /\ SubSeq(y, taken + 1, Len(y)) \in Seq(Token)
      BY <2>2, MoveKeepsOrder
    <3>2. Len(SubSeq(y, 1, taken)) = taken /\ Len(SubSeq(y, taken + 1, Len(y))) = Len(y) - taken
      BY <2>2, MoveKeepsOrder
    <3>3. (x \o SubSeq(y, 1, taken)) \o SubSeq(y, taken + 1, Len(y)) = x \o y
      BY <2>2, MoveKeepsOrder
    <3> QED
      BY <3>1, <3>2, <3>3
  <2>4. x \o SubSeq(y, 1, taken) \in Seq(Token) /\ Len(x \o SubSeq(y, 1, taken)) = Len(x) + taken
    BY <2>3, ConcatProperties
  <2> QED
    BY <2>1, <2>3, <2>4 DEF Popped, Fed
<1>4. PICK e \in 0..MaxOutput : e = end
  BY <1>0, <1>1, JobSets
<1>5. PICK s \in 0..MaxOutput :
        /\ s = Greatest(job[j].replay_start, from) /\ job[j].replay_start <= s /\ s <= e /\ e <= s + ReplayBytes
        /\ s < e \/ e = 0
  <2>1. from \in Nat /\ from <= e /\ e <= from + ReplayBytes /\ (from < e \/ e = 0)
    BY <1>4, JobSets
  <2>2. job[j].replay_start <= e /\ e <= MaxOutput /\ (job[j].replay_start < e \/ e = 0)
    BY <1>0, <1>4, JobSets DEF Sound
  <2>3. PICK x \in Nat, y \in Nat : x = job[j].replay_start /\ y = from
    BY <1>0, <2>1
  <2> HIDE DEF from
  <2>4. PICK z \in Nat : z = Greatest(x, y) /\ x <= z /\ y <= z /\ (z = x \/ z = y)
    BY DEF Greatest
  <2>5. z <= e /\ e <= z + ReplayBytes /\ z <= MaxOutput /\ (z < e \/ e = 0)
    BY <1>4, <2>1, <2>2, <2>3, <2>4, JobSets
  <2> QED
    BY <2>3, <2>4, <2>5, JobSets
<1>6. PICK w \in {"copy", "finish"} : w = (IF status = None THEN "copy" ELSE "finish")
  OBVIOUS
<1>7. /\ cap1 \in Capture /\ cap2 \in Capture
      /\ cap2.recorded + cap2.dropped = cap2.input + cap2.output
      /\ ~cap2.failed => /\ ~cap1.failed /\ ~job[j].capture.failed
                         /\ cap2.input = job[j].capture.input + taken
                         /\ cap2.output = job[j].capture.output + printed
  <2>1. job[j].capture.recorded + job[j].capture.dropped = job[j].capture.input + job[j].capture.output
    BY <1>0 DEF Traced
  <2>2. /\ cap1 \in Capture /\ cap1.recorded + cap1.dropped = cap1.input + cap1.output
        /\ job[j].capture.failed => cap1.failed
        /\ ~cap1.failed => cap1.input = job[j].capture.input + taken /\ cap1.output = job[j].capture.output
    <3>1. PICK k \in Capture : k = job[j].capture
      BY <1>0
    <3>2. cap1 = Recorded(k, "input", taken, recorded) /\ taken \in Nat /\ k.recorded + k.dropped = k.input + k.output
      BY <1>2, <2>1, <3>1
    <3> HIDE DEF cap1
    <3>3. /\ cap1 \in Capture /\ cap1.recorded + cap1.dropped = cap1.input + cap1.output
          /\ ~cap1.failed => ~k.failed /\ cap1.input = k.input + taken /\ cap1.output = k.output
      BY <3>2, RecordedInput
    <3> QED
      BY <2>1, <3>1, <3>3
  <2> HIDE DEF cap1
  <2>3. /\ cap2 \in Capture /\ cap2.recorded + cap2.dropped = cap2.input + cap2.output
        /\ cap1.failed => cap2.failed
        /\ ~cap2.failed => cap2.output = cap1.output + printed /\ cap2.input = cap1.input
    <3>1. PICK k \in Capture : k = cap1
      BY <2>2
    <3>2. cap2 = Recorded(k, "output", printed, recorded) /\ printed \in Nat /\ k.recorded + k.dropped = k.input + k.output
      BY <1>2, <2>2, <3>1
    <3> HIDE DEF cap2
    <3>3. /\ cap2 \in Capture /\ cap2.recorded + cap2.dropped = cap2.input + cap2.output
          /\ ~cap2.failed => ~k.failed /\ cap2.output = k.output + printed /\ cap2.input = k.input
      BY <3>2, RecordedOutput
    <3> QED
      BY <2>2, <3>1, <3>3
  <2> HIDE DEF cap2
  <2> QED
    BY <2>2, <2>3
<1>8. log2 \in Trail /\ Agrees(cap2, log2) /\ ~log2.torn /\ ~log2.finished
  <2>1. Agrees(job[j].capture, trail[j]) /\ ~trail[j].torn /\ ~trail[j].finished
    BY <1>0, <1>1 DEF Traced, Agrees
  <2>2. log1 \in Trail /\ Agrees(cap1, log1) /\ ~log1.torn /\ ~log1.finished
    BY <1>0, <1>2, <2>1, RecordAgrees
  <2>3. cap1 \in Capture /\ printed \in Nat
    BY <1>7
  <2> HIDE DEF cap1, log1
  <2> QED
    BY <2>2, <2>3, RecordAgrees
<1>9. PICK c \in Capture, l \in Trail : c = cap2 /\ l = log2
  BY <1>7, <1>8
<1>10. job' = [job EXCEPT ![j].input = q, ![j].copied = 0, ![j].replay_end = e, ![j].replay_start = s,
                          ![j].exit_status = status, ![j].worker = w, ![j].capture = c]
  BY <1>0, <1>3, <1>4, <1>5, <1>6, <1>9 DEF WorkerExchanges
<1> HIDE DEF cap1, cap2, log1, log2, end, from
<1>11. PICK k \in Job : k = [job[j] EXCEPT !.input = q, !.copied = 0, !.replay_end = e, !.replay_start = s,
                                          !.exit_status = status, !.worker = w, !.capture = c]
  BY <1>0 DEF Job
<1>12. job' = [job EXCEPT ![j] = k]
  BY <1>0, <1>10, <1>11
<1>13. /\ k.ticket = job[j].ticket /\ k.claimed = job[j].claimed /\ k.from = job[j].from
       /\ k.input = q /\ k.copied = 0 /\ k.replay_end = e /\ k.replay_start = s
       /\ k.exit_status = status /\ k.worker = w /\ k.capture = c
  BY <1>0, <1>11 DEF Job
<1>14. job' \in [JobId -> Job] /\ job'[j] = k /\ \A i \in JobId : i # j => job'[i] = job[i]
  BY <1>0, <1>12
<1>15. /\ accepted' \in [JobId -> Seq(Token)] /\ accepted'[j] = a
       /\ \A i \in JobId : i # j => accepted'[i] = accepted[i]
  BY <1>0, <1>1, <1>3
<1>16. trail' \in [JobId -> Trail] /\ trail'[j] = l /\ \A i \in JobId : i # j => trail'[i] = trail[i]
  BY <1>0, <1>1, <1>9
<1>17. JobTypes'
  BY <1>1, <1>14, <1>15, <1>16 DEF Jobs, JobTypes
<1>18. Sound(j)'
  <2>1. job[j].from \in Nat /\ job[j].from <= job[j].replay_end /\ job[j].replay_end <= e
    BY <1>0, <1>4, JobFields DEF Sound, Jobs, end
  <2>2. job[j].from <= e
    BY <1>0, <2>1
  <2>3. Len(q) \in Nat /\ Len(q) <= MaxInputBytes
    BY <1>0, <1>2, <1>3, JobSets DEF Sound
  <2>4. status # None => w = "finish"
    BY <1>6
  <2> QED
    BY <1>5, <1>13, <1>14, <2>2, <2>3, <2>4 DEF Sound
<1>19. Traced(j)'
  <2>1. /\ c.recorded + c.dropped = c.input + c.output
        /\ ~c.failed => /\ ~job[j].capture.failed
                        /\ c.input = job[j].capture.input + taken
                        /\ c.output = job[j].capture.output + printed
    BY <1>7, <1>9
  <2>2. ~c.failed => c.input = Len(a) /\ c.output = e
    BY <1>0, <1>3, <1>4, <2>1 DEF Traced, end
  <2>3. Agrees(c, l) /\ ~l.torn /\ ~l.finished
    BY <1>8, <1>9
  <2> QED
    BY <1>13, <1>14, <1>15, <1>16, <1>6, <2>1, <2>2, <2>3 DEF Traced, Agrees
<1>20. Jobs'
  BY <1>14, <1>15, <1>16, <1>17, <1>18, <1>19, OneWorks
<1>21. Fed(j)' = Fed(j)
  BY <1>3, <1>13, <1>14, <1>15 DEF Fed
<1>22. job[j].replay_start <= job'[j].replay_start /\ job[j].replay_end <= job'[j].replay_end
  BY <1>0, <1>4, <1>5, <1>13, <1>14 DEF end
<1>23. job[j].exit_status = None
  BY <1>0, <1>1 DEF Sound
<1> QED
  BY <1>1, <1>6, <1>13, <1>14, <1>15, <1>16, <1>20, <1>21, <1>22, <1>23 DEF Worked

\* So every step of a worker keeps the invariant of the jobs.
LEMMA WorkerKeeps ==
  ASSUME Jobs, NEW j \in JobId, WorkerStep(j)
  PROVE  Jobs' /\ Worked(j)
<1>1. CASE WorkerCopies(j) \/ WorkerFails(j) \/ WorkerFinishes(j)
  BY <1>1, WorkerCopiesKeeps, WorkerFailsKeeps, WorkerFinishesKeeps
<1>2. CASE \E taken \in write_available(j), chunk \in read_available, recorded \in BOOLEAN :
             WorkerExchanges(j, taken, chunk.printed, chunk.status, recorded)
  <2>1. PICK taken \in write_available(j), chunk \in read_available, recorded \in BOOLEAN :
             WorkerExchanges(j, taken, chunk.printed, chunk.status, recorded)
    BY <1>2
  <2>2. chunk.printed \in 0..1 /\ chunk.status \in {None, "exited"}
    BY DEF read_available
  <2> QED
    BY <2>1, <2>2, WorkerExchangesKeeps
<1> QED
  BY <1>1, <1>2 DEF WorkerStep

-----------------------------------------------------------------------------
(* What the steps do to the streams and the clients.                       *)

StreamTypes ==
  /\ owner \in Client \cup {None}
  /\ stream \in [Stream -> Conn]
  /\ client \in [Client -> ClientState]
  /\ expected \in [Client -> 0..MaxOutput]
  /\ typed \in 0..MaxKeys

\* The types of a stream's fields.
LEMMA ConnFields ==
  ASSUME NEW k \in Conn
  PROVE  /\ k.user \in BOOLEAN /\ k.server \in {"none", "claim", "poll", "read", "release", "gone"}
         /\ k.job \in JobId \cup {None} /\ k.cursor \in 0..MaxOutput
         /\ k.up \in Seq(UpFrame) /\ k.down \in Seq(DownFrame)
BY DEF Conn

\* The types of a client's fields.
LEMMA ClientFields ==
  ASSUME NEW u \in ClientState
  PROVE  /\ u.pc \in {"away", "prompt", "open", "relay", "detach"} /\ u.conn \in Stream \cup {None}
         /\ u.fresh \in BOOLEAN /\ u.cursor \in 0..MaxOutput /\ u.saved \in 0..MaxOutput \cup {None}
         /\ u.seen \in JobId \cup {None} /\ u.pending \in BOOLEAN
         /\ u.after \in {None, "prompt", "terminate", "away"}
BY DEF ClientState

\* A frame from a client.
LEMMA UpFrames ==
  /\ [kind |-> "close"] \in UpFrame
  /\ \A b \in Seq(Token) : [kind |-> "input", bytes |-> b] \in UpFrame
  /\ \A f \in UpFrame : /\ f.kind \in {"input", "close"}
                        /\ f.kind = "input" => f.bytes \in Seq(Token)
BY DEF UpFrame

\* A frame from the daemon.
LEMMA DownFrames ==
  /\ \A d \in {"claimed", "refused", "exit", "error", "detached"} : [kind |-> d] \in DownFrame
  /\ \A o \in 0..MaxOutput, l \in 1..MaxRead : [kind |-> "output", offset |-> o, len |-> l] \in DownFrame
  /\ \A f \in DownFrame : /\ f.kind \in {"claimed", "refused", "exit", "error", "detached", "output"}
                          /\ f.kind = "output" => f.offset \in 0..MaxOutput /\ f.len \in 1..MaxRead
BY DEF DownFrame

\* A connection nobody uses.
LEMMA NoConnFields ==
  /\ NoConn \in Conn /\ ~NoConn.user /\ NoConn.server = "none" /\ NoConn.job = None /\ NoConn.cursor = 0
  /\ NoConn.up = <<>> /\ NoConn.down = <<>>
<1>1. <<>> \in Seq(UpFrame) /\ <<>> \in Seq(DownFrame) /\ 0 \in 0..MaxOutput
  BY JobSets
<1> QED
  BY <1>1 DEF NoConn, Conn

\* Every stream but n is as it was.
OthersKeep(n) == \A m \in Stream : m # n => stream'[m] = stream[m]

\* One stream is replaced.
LEMMA OneStream ==
  ASSUME StreamTypes, NEW n \in Stream, NEW k \in Conn, stream' = [stream EXCEPT ![n] = k]
  PROVE  stream' \in [Stream -> Conn] /\ stream'[n] = k /\ OthersKeep(n)
BY DEF StreamTypes, OthersKeep

\* One stream is replaced by what is left of it.
LEMMA OneSettled ==
  ASSUME StreamTypes, NEW n \in Stream, NEW k \in Conn, stream' = [stream EXCEPT ![n] = Settled(k)]
  PROVE  /\ stream' \in [Stream -> Conn] /\ OthersKeep(n)
         /\ IF ~k.user /\ k.server \in {"none", "gone"} THEN stream'[n] = NoConn ELSE stream'[n] = k
<1>1. Settled(k) \in Conn
  BY NoConnFields DEF Settled
<1>2. stream' \in [Stream -> Conn] /\ stream'[n] = Settled(k) /\ OthersKeep(n)
  BY <1>1 DEF StreamTypes, OthersKeep
<1> QED
  BY <1>2 DEF Settled

\* The client closes its end.
LEMMA DroppedDoes ==
  ASSUME StreamTypes, NEW n \in Stream, stream' = Dropped(n)
  PROVE  /\ stream' \in [Stream -> Conn] /\ OthersKeep(n) /\ ~stream'[n].user
         /\ stream[n].server \in {"none", "gone"} => stream'[n] = NoConn
         /\ stream[n].server \notin {"none", "gone"} =>
              /\ stream'[n].server = stream[n].server /\ stream'[n].job = stream[n].job
              /\ stream'[n].cursor = stream[n].cursor /\ stream'[n].down = <<>>
              /\ stream'[n].up = Append(stream[n].up, [kind |-> "close"])
<1> DEFINE q == IF stream[n].server = "gone" THEN <<>> ELSE Append(stream[n].up, [kind |-> "close"])
<1>0. stream[n] \in Conn
  BY DEF StreamTypes
<1>1. q \in Seq(UpFrame) /\ <<>> \in Seq(DownFrame)
  <2>1. stream[n].up \in Seq(UpFrame)
    BY <1>0, ConnFields
  <2>2. Append(stream[n].up, [kind |-> "close"]) \in Seq(UpFrame)
    BY <2>1, UpFrames
  <2> QED
    BY <2>2
<1>2. stream[n].server # "gone" => q = Append(stream[n].up, [kind |-> "close"])
  OBVIOUS
<1>3. stream' = [stream EXCEPT ![n] = Settled([stream[n] EXCEPT !.user = FALSE, !.up = q, !.down = <<>>])]
  BY DEF Dropped
<1> HIDE DEF q
<1>4. PICK k \in Conn : k = [stream[n] EXCEPT !.user = FALSE, !.up = q, !.down = <<>>]
  BY <1>0, <1>1 DEF Conn
<1>5. /\ ~k.user /\ k.server = stream[n].server /\ k.job = stream[n].job /\ k.cursor = stream[n].cursor
      /\ k.up = q /\ k.down = <<>>
  BY <1>0, <1>4 DEF Conn
<1>6. /\ stream' \in [Stream -> Conn] /\ OthersKeep(n)
      /\ IF ~k.user /\ k.server \in {"none", "gone"} THEN stream'[n] = NoConn ELSE stream'[n] = k
  BY <1>3, <1>4, OneSettled
<1> QED
  BY <1>2, <1>5, <1>6, NoConnFields

\* The client's end is closed by its death.
LEMMA DiedDoes ==
  ASSUME StreamTypes, NEW n \in Stream,
         stream' = [stream EXCEPT ![n] = Settled([@ EXCEPT !.user = FALSE, !.down = <<>>])]
  PROVE  /\ stream' \in [Stream -> Conn] /\ OthersKeep(n) /\ ~stream'[n].user
         /\ stream[n].server \in {"none", "gone"} => stream'[n] = NoConn
         /\ stream[n].server \notin {"none", "gone"} =>
              /\ stream'[n].server = stream[n].server /\ stream'[n].job = stream[n].job
              /\ stream'[n].cursor = stream[n].cursor /\ stream'[n].down = <<>>
              /\ stream'[n].up = stream[n].up
<1>0. stream[n] \in Conn /\ <<>> \in Seq(DownFrame)
  BY DEF StreamTypes
<1>1. PICK k \in Conn : k = [stream[n] EXCEPT !.user = FALSE, !.down = <<>>]
  BY <1>0 DEF Conn
<1>2. /\ ~k.user /\ k.server = stream[n].server /\ k.job = stream[n].job /\ k.cursor = stream[n].cursor
      /\ k.up = stream[n].up /\ k.down = <<>>
  BY <1>0, <1>1 DEF Conn
<1>3. stream' = [stream EXCEPT ![n] = Settled(k)]
  BY <1>0, <1>1 DEF StreamTypes
<1>4. /\ stream' \in [Stream -> Conn] /\ OthersKeep(n)
      /\ IF ~k.user /\ k.server \in {"none", "gone"} THEN stream'[n] = NoConn ELSE stream'[n] = k
  BY <1>3, OneSettled
<1> QED
  BY <1>2, <1>4, NoConnFields

\* The client takes the first frame.
LEMMA TookDoes ==
  ASSUME StreamTypes, NEW n \in Stream, stream[n].down # <<>>,
         stream' = [stream EXCEPT ![n].down = Tail(@)]
  PROVE  /\ stream' \in [Stream -> Conn] /\ OthersKeep(n) /\ stream'[n].user = stream[n].user
         /\ stream'[n].server = stream[n].server /\ stream'[n].job = stream[n].job
         /\ stream'[n].cursor = stream[n].cursor /\ stream'[n].up = stream[n].up
         /\ stream'[n].down = Tail(stream[n].down)
<1>0. stream[n] \in Conn /\ stream[n].down \in Seq(DownFrame)
  BY ConnFields DEF StreamTypes
<1>1. PICK q \in Seq(DownFrame) : q = Tail(stream[n].down)
  <2>1. PICK d \in Seq(DownFrame) : d = stream[n].down /\ d # <<>>
    BY <1>0
  <2>2. Tail(d) \in Seq(DownFrame)
    BY <2>1
  <2> QED
    BY <2>1, <2>2
<1>2. PICK k \in Conn : k = [stream[n] EXCEPT !.down = q]
  BY <1>0 DEF Conn
<1>3. /\ k.user = stream[n].user /\ k.server = stream[n].server /\ k.job = stream[n].job
      /\ k.cursor = stream[n].cursor /\ k.up = stream[n].up /\ k.down = q
  BY <1>0, <1>2 DEF Conn
<1>4. stream' = [stream EXCEPT ![n] = k]
  BY <1>0, <1>1, <1>2 DEF StreamTypes
<1>5. stream' \in [Stream -> Conn] /\ stream'[n] = k /\ OthersKeep(n)
  BY <1>4, OneStream
<1> QED
  BY <1>1, <1>3, <1>5

\* The client sends a frame.
LEMMA SentDoes ==
  ASSUME StreamTypes, NEW n \in Stream, NEW f \in UpFrame,
         stream' = [stream EXCEPT ![n].up = Append(@, f)]
  PROVE  /\ stream' \in [Stream -> Conn] /\ OthersKeep(n) /\ stream'[n].user = stream[n].user
         /\ stream'[n].server = stream[n].server /\ stream'[n].job = stream[n].job
         /\ stream'[n].cursor = stream[n].cursor /\ stream'[n].up = Append(stream[n].up, f)
         /\ stream'[n].down = stream[n].down
<1>0. stream[n] \in Conn /\ stream[n].up \in Seq(UpFrame)
  BY ConnFields DEF StreamTypes
<1>1. PICK q \in Seq(UpFrame) : q = Append(stream[n].up, f)
  <2>1. PICK d \in Seq(UpFrame) : d = stream[n].up
    BY <1>0
  <2>2. Append(d, f) \in Seq(UpFrame)
    OBVIOUS
  <2> QED
    BY <2>1, <2>2
<1>2. PICK k \in Conn : k = [stream[n] EXCEPT !.up = q]
  BY <1>0 DEF Conn
<1>3. /\ k.user = stream[n].user /\ k.server = stream[n].server /\ k.job = stream[n].job
      /\ k.cursor = stream[n].cursor /\ k.down = stream[n].down /\ k.up = q
  BY <1>0, <1>2 DEF Conn
<1>4. stream' = [stream EXCEPT ![n] = k]
  BY <1>0, <1>1, <1>2 DEF StreamTypes
<1>5. stream' \in [Stream -> Conn] /\ stream'[n] = k /\ OthersKeep(n)
  BY <1>4, OneStream
<1> QED
  BY <1>1, <1>3, <1>5

\* A new connection.
LEMMA ConnectDoes ==
  ASSUME StreamTypes, NEW n \in Stream, Connect(n)
  PROVE  /\ stream' \in [Stream -> Conn] /\ OthersKeep(n) /\ stream'[n].user
         /\ stream'[n].server = "claim" /\ stream'[n].job = None
         /\ stream'[n].cursor = 0 /\ stream'[n].up = <<>> /\ stream'[n].down = <<>>
<1>1. PICK k \in Conn : k = [NoConn EXCEPT !.user = TRUE, !.server = "claim"]
  BY NoConnFields DEF Conn
<1>2. /\ k.user /\ k.server = "claim" /\ k.job = None /\ k.cursor = 0 /\ k.up = <<>> /\ k.down = <<>>
  BY <1>1, NoConnFields DEF Conn
<1>3. stream' = [stream EXCEPT ![n] = k]
  BY <1>1 DEF Connect
<1>4. stream' \in [Stream -> Conn] /\ stream'[n] = k /\ OthersKeep(n)
  BY <1>3, OneStream
<1> QED
  BY <1>2, <1>4

\* A number nobody knows is found while there is one.
LEMMA NewStreamIsNew ==
  ASSUME Unused # {}
  PROVE  /\ NewStream \in Stream /\ stream[NewStream] = NoConn
         /\ \A j \in JobId : job[j].ticket # NewStream /\ job[j].claimed # NewStream
<1>1. Unused \subseteq Nat
  BY JobSets DEF Unused
<1>2. \E n \in Unused : \A m \in Unused : n <= m
  BY <1>1, LeastExists
<1>3. NewStream \in Unused
  BY <1>2 DEF NewStream
<1> QED
  BY <1>3 DEF Unused

\* The claim is granted.
LEMMA GrantDoes ==
  ASSUME Jobs, StreamTypes, NEW n \in Stream, ServeClaim(n), Claimable(n)
  PROVE  /\ claim(n) /\ listed \in JobId /\ stream[n].server = "claim"
         /\ stream' \in [Stream -> Conn] /\ OthersKeep(n) /\ stream'[n].user = stream[n].user
         /\ stream'[n].server = IF stream[n].user THEN "poll" ELSE "release"
         /\ stream'[n].job = listed /\ stream'[n].cursor = job[listed].from
         /\ stream'[n].up = stream[n].up /\ stream'[n].down = <<[kind |-> "claimed"]>>
<1>0. stream \in [Stream -> Conn] /\ stream[n] \in Conn /\ listed \in JobId /\ claim(n) /\ stream[n].server = "claim"
  BY DEF StreamTypes, ServeClaim, Claimable, Jobs, JobTypes
<1>1. job[listed].from \in 0..MaxOutput
  BY <1>0, JobFields, JobSets DEF Jobs
<1>2. PICK q \in Seq(DownFrame) : q = <<[kind |-> "claimed"]>>
  <2>1. PICK g \in DownFrame : g = [kind |-> "claimed"]
    BY DownFrames
  <2>2. <<g>> \in Seq(DownFrame)
    OBVIOUS
  <2> QED
    BY <2>1, <2>2
<1>3. PICK s \in {"poll", "release"} : s = IF stream[n].user THEN "poll" ELSE "release"
  OBVIOUS
<1>4. stream' = [stream EXCEPT ![n].server = s, ![n].job = listed, ![n].cursor = job[listed].from, ![n].down = q]
  BY <1>2, <1>3 DEF ServeClaim
<1>5. PICK f \in 0..MaxOutput : f = job[listed].from
  BY <1>1
<1>6. PICK k \in Conn : k = [stream[n] EXCEPT !.server = s, !.job = listed, !.cursor = f, !.down = q]
  BY <1>0 DEF Conn
<1>7. /\ k.user = stream[n].user /\ k.server = s /\ k.job = listed /\ k.cursor = f /\ k.up = stream[n].up /\ k.down = q
  BY <1>0, <1>6 DEF Conn
<1>8. stream' = [stream EXCEPT ![n] = k]
  BY <1>0, <1>4, <1>5, <1>6
<1>9. stream' \in [Stream -> Conn] /\ stream'[n] = k /\ OthersKeep(n)
  BY <1>8, OneStream
<1> QED
  BY <1>0, <1>2, <1>3, <1>5, <1>7, <1>9

\* The claim is refused.
LEMMA RefuseDoes ==
  ASSUME StreamTypes, NEW n \in Stream, ServeClaim(n), ~Claimable(n)
  PROVE  /\ stream[n].server = "claim" /\ UNCHANGED jobVars
         /\ stream' \in [Stream -> Conn] /\ OthersKeep(n)
         /\ stream[n].user => /\ stream'[n].user /\ stream'[n].server = "gone" /\ stream'[n].up = stream[n].up
                              /\ stream'[n].down = <<[kind |-> "refused"]>>
         /\ ~stream[n].user => stream'[n] = NoConn
<1>0. stream \in [Stream -> Conn] /\ stream[n] \in Conn /\ UNCHANGED jobVars /\ stream[n].server = "claim"
  BY DEF StreamTypes, ServeClaim
<1>1. PICK q \in Seq(DownFrame) : q = <<[kind |-> "refused"]>>
  <2>1. PICK g \in DownFrame : g = [kind |-> "refused"]
    BY DownFrames
  <2>2. <<g>> \in Seq(DownFrame)
    OBVIOUS
  <2> QED
    BY <2>1, <2>2
<1>2. PICK k \in Conn : k = [stream[n] EXCEPT !.server = "gone", !.down = q]
  BY <1>0 DEF Conn
<1>3. /\ k.user = stream[n].user /\ k.server = "gone" /\ k.up = stream[n].up /\ k.down = q
  BY <1>0, <1>2 DEF Conn
<1>4. stream' = [stream EXCEPT ![n] = Settled(k)]
  BY <1>1, <1>2 DEF ServeClaim
<1>5. /\ stream' \in [Stream -> Conn] /\ OthersKeep(n)
      /\ IF ~k.user /\ k.server \in {"none", "gone"} THEN stream'[n] = NoConn ELSE stream'[n] = k
  BY <1>4, OneSettled
<1> QED
  BY <1>0, <1>1, <1>3, <1>5

\* An input frame is taken off the queue.
LEMMA InputDoes ==
  ASSUME StreamTypes, NEW n \in Stream, ServeInput(n)
  PROVE  /\ stream[n].server = "poll" /\ stream[n].up # <<>> /\ Head(stream[n].up).kind = "input"
         /\ Head(stream[n].up).bytes \in Seq(Token)
         /\ stream' \in [Stream -> Conn] /\ OthersKeep(n) /\ stream'[n].user = stream[n].user
         /\ stream'[n].server \in {"read", "release"} /\ stream'[n].job = stream[n].job
         /\ stream'[n].cursor = stream[n].cursor /\ stream'[n].down = stream[n].down
         /\ stream'[n].up = Tail(stream[n].up)
         /\ \/ write_claimed(n, stream[n].job, Head(stream[n].up).bytes)
            \/ UNCHANGED jobVars
<1>0. /\ stream \in [Stream -> Conn] /\ stream[n] \in Conn /\ stream[n].up \in Seq(UpFrame)
      /\ stream[n].server = "poll" /\ stream[n].up # <<>> /\ Head(stream[n].up).kind = "input"
  BY ConnFields DEF StreamTypes, ServeInput
<1>1. PICK u \in Seq(UpFrame) : u = stream[n].up /\ u # <<>>
  BY <1>0
<1>2. Head(u) \in UpFrame /\ Tail(u) \in Seq(UpFrame)
  BY <1>1
<1>3. Head(u).bytes \in Seq(Token)
  BY <1>0, <1>1, <1>2, UpFrames
<1>4. PICK q \in Seq(UpFrame) : q = Tail(stream[n].up)
  BY <1>1, <1>2
<1>5. PICK s \in {"read", "release"} :
        /\ stream' = [stream EXCEPT ![n].server = s, ![n].up = q]
        /\ \/ write_claimed(n, stream[n].job, Head(stream[n].up).bytes)
           \/ UNCHANGED jobVars
  <2>1. CASE MayWrite(n, stream[n].job, Head(stream[n].up).bytes)
    BY <1>4, <2>1 DEF ServeInput
  <2>2. CASE ~MayWrite(n, stream[n].job, Head(stream[n].up).bytes)
    BY <1>4, <2>2 DEF ServeInput
  <2> QED
    BY <2>1, <2>2
<1>6. PICK k \in Conn : k = [stream[n] EXCEPT !.server = s, !.up = q]
  BY <1>0 DEF Conn
<1>7. /\ k.user = stream[n].user /\ k.server = s /\ k.job = stream[n].job /\ k.cursor = stream[n].cursor
      /\ k.down = stream[n].down /\ k.up = q
  BY <1>0, <1>6 DEF Conn
<1>8. stream' = [stream EXCEPT ![n] = k]
  BY <1>0, <1>5, <1>6
<1>9. stream' \in [Stream -> Conn] /\ stream'[n] = k /\ OthersKeep(n)
  BY <1>8, OneStream
<1> QED
  BY <1>0, <1>1, <1>3, <1>4, <1>5, <1>7, <1>9

\* A Close is served.
LEMMA CloseDoes ==
  ASSUME StreamTypes, NEW n \in Stream, ServeClose(n)
  PROVE  /\ stream[n].server = "poll" /\ stream[n].up # <<>> /\ Head(stream[n].up).kind = "close"
         /\ stream' \in [Stream -> Conn] /\ OthersKeep(n)
         /\ stream[n].user => /\ stream'[n].user /\ stream'[n].server = "gone" /\ stream'[n].up = <<>>
                              /\ stream'[n].cursor = stream[n].cursor
                              /\ stream'[n].down = Append(stream[n].down, [kind |-> "detached"])
         /\ ~stream[n].user => stream'[n] = NoConn
<1>0. /\ stream \in [Stream -> Conn] /\ stream[n] \in Conn /\ stream[n].down \in Seq(DownFrame)
      /\ stream[n].server = "poll" /\ stream[n].up # <<>> /\ Head(stream[n].up).kind = "close"
      /\ <<>> \in Seq(UpFrame)
  BY ConnFields DEF StreamTypes, ServeClose
<1>1. PICK q \in Seq(DownFrame) : q = Append(stream[n].down, [kind |-> "detached"])
  <2>1. PICK d \in Seq(DownFrame), f \in DownFrame : d = stream[n].down /\ f = [kind |-> "detached"]
    BY <1>0, DownFrames
  <2>2. Append(d, f) \in Seq(DownFrame)
    OBVIOUS
  <2> QED
    BY <2>1, <2>2
<1>2. PICK k \in Conn : k = [stream[n] EXCEPT !.server = "gone", !.up = <<>>, !.down = q]
  BY <1>0 DEF Conn
<1>3. /\ k.user = stream[n].user /\ k.server = "gone" /\ k.cursor = stream[n].cursor /\ k.up = <<>> /\ k.down = q
  BY <1>0, <1>2 DEF Conn
<1>4. stream' = [stream EXCEPT ![n] = Settled(k)]
  BY <1>1, <1>2 DEF ServeClose
<1>5. /\ stream' \in [Stream -> Conn] /\ OthersKeep(n)
      /\ IF ~k.user /\ k.server \in {"none", "gone"} THEN stream'[n] = NoConn ELSE stream'[n] = k
  BY <1>4, OneSettled
<1> QED
  BY <1>0, <1>1, <1>3, <1>5

\* The handler ends.
LEMMA ReleaseDoes ==
  ASSUME StreamTypes, NEW n \in Stream, ServeRelease(n)
  PROVE  /\ stream[n].server = "release"
         /\ stream' \in [Stream -> Conn] /\ OthersKeep(n)
         /\ stream[n].user => /\ stream'[n].user /\ stream'[n].server = "gone" /\ stream'[n].job = stream[n].job
                              /\ stream'[n].cursor = stream[n].cursor
                              /\ stream'[n].up = stream[n].up /\ stream'[n].down = stream[n].down
         /\ ~stream[n].user => stream'[n] = NoConn
<1>0. stream \in [Stream -> Conn] /\ stream[n] \in Conn /\ stream[n].server = "release"
  BY DEF StreamTypes, ServeRelease
<1>2. PICK k \in Conn : k = [stream[n] EXCEPT !.server = "gone"]
  BY <1>0 DEF Conn
<1>3. /\ k.user = stream[n].user /\ k.server = "gone" /\ k.job = stream[n].job /\ k.cursor = stream[n].cursor
      /\ k.up = stream[n].up /\ k.down = stream[n].down
  BY <1>0, <1>2 DEF Conn
<1>4. stream' = [stream EXCEPT ![n] = Settled(k)]
  BY <1>2 DEF ServeRelease
<1>5. /\ stream' \in [Stream -> Conn] /\ OthersKeep(n)
      /\ IF ~k.user /\ k.server \in {"none", "gone"} THEN stream'[n] = NoConn ELSE stream'[n] = k
  BY <1>4, OneSettled
<1> QED
  BY <1>0, <1>3, <1>5

\* The handler learns that the client is gone.
LEMMA HangupDoes ==
  ASSUME StreamTypes, NEW n \in Stream, ServeHangup(n)
  PROVE  /\ stream[n].server = "poll" /\ ~stream[n].user
         /\ stream' \in [Stream -> Conn] /\ OthersKeep(n) /\ stream'[n].user = stream[n].user
         /\ stream'[n].server = "release" /\ stream'[n].job = stream[n].job
         /\ stream'[n].up = stream[n].up /\ stream'[n].down = stream[n].down
<1>0. stream \in [Stream -> Conn] /\ stream[n] \in Conn /\ stream[n].server = "poll" /\ ~stream[n].user
  BY DEF StreamTypes, ServeHangup
<1>2. PICK k \in Conn : k = [stream[n] EXCEPT !.server = "release"]
  BY <1>0 DEF Conn
<1>3. /\ k.user = stream[n].user /\ k.server = "release" /\ k.job = stream[n].job
      /\ k.up = stream[n].up /\ k.down = stream[n].down
  BY <1>0, <1>2 DEF Conn
<1>4. stream' = [stream EXCEPT ![n] = k]
  BY <1>0, <1>2 DEF ServeHangup
<1>5. stream' \in [Stream -> Conn] /\ stream'[n] = k /\ OthersKeep(n)
  BY <1>4, OneStream
<1> QED
  BY <1>0, <1>3, <1>5

\* Between a and b only bytes are missed that have left a ring that starts at lo.
Gap(a, b, lo) == a <= b /\ (a = b \/ b <= lo)

\* A chunk of the ring and, with its last byte, the status.
LEMMA ReadFacts ==
  ASSUME Jobs, NEW j \in JobId, NEW x \in 0..MaxOutput
  PROVE  \E o \in 0..MaxOutput, l \in 0..MaxRead, s \in {None, "exited", "error", "terminated"} :
           /\ read_claimed(j, x) = [offset |-> o, len |-> l, status |-> s]
           /\ o + l <= job[j].replay_end
           /\ x <= job[j].replay_end => Gap(x, o, job[j].replay_start) /\ (l = 0 => x = o)
           /\ s # None => o + l = job[j].replay_end /\ s = job[j].exit_status
<1>1. /\ job[j].replay_start \in Nat /\ job[j].replay_end \in Nat /\ job[j].replay_end <= MaxOutput
      /\ job[j].replay_start <= job[j].replay_end /\ (job[j].replay_start < job[j].replay_end \/ job[j].replay_end = 0)
      /\ job[j].exit_status \in {None, "exited", "error", "terminated"}
  BY JobFields DEF Jobs, Sound
<1>2. PICK lo \in Nat, hi \in Nat : lo = job[j].replay_start /\ hi = job[j].replay_end /\ lo <= hi /\ hi <= MaxOutput
                                   /\ (lo < hi \/ hi = 0)
  BY <1>1
<1>3. PICK o \in Nat : o = Clamp(x, lo, hi) /\ lo <= o /\ o <= hi /\ (x <= hi => x <= o /\ (x = o \/ o = lo))
  <2>1. x \in Nat /\ lo <= hi
    BY <1>2, JobSets
  <2>2. /\ Clamp(x, lo, hi) \in Nat /\ lo <= Clamp(x, lo, hi) /\ Clamp(x, lo, hi) <= hi
        /\ x <= hi => x <= Clamp(x, lo, hi) /\ (x = Clamp(x, lo, hi) \/ Clamp(x, lo, hi) = lo)
    BY <2>1, ClampFacts
  <2> QED
    BY <2>2
<1>4. PICK l \in Nat : l = Least(MaxRead, hi - o) /\ l <= MaxRead /\ o + l <= hi /\ (l = 0 => o = hi)
  BY <1>2, <1>3, JobSets DEF Least
<1>5. PICK s \in {None, "exited", "error", "terminated"} :
        s = IF o + l >= hi THEN job[j].exit_status ELSE None
  BY <1>1
<1>6. read_claimed(j, x) = [offset |-> o, len |-> l, status |-> s]
  BY <1>2, <1>3, <1>4, <1>5 DEF read_claimed
<1>7. o \in 0..MaxOutput /\ l \in 0..MaxRead
  BY <1>2, <1>3, <1>4, JobSets
<1>8. x <= hi => Gap(x, o, lo) /\ (l = 0 => x = o)
  <2>1. x \in Nat
    BY JobSets
  <2>2. ASSUME x <= hi PROVE x <= o /\ (x = o \/ o <= lo)
    BY <1>3, <2>1, <2>2
  <2>3. ASSUME x <= hi, l = 0 PROVE x = o
    <3>1. o = hi /\ (lo < hi \/ hi = 0) /\ (x = o \/ o = lo)
      BY <1>2, <1>3, <1>4, <2>3
    <3>2. lo < hi \/ hi = 0
      BY <3>1
    <3> QED
      BY <2>1, <2>3, <3>1, <3>2
  <2> QED
    BY <2>2, <2>3 DEF Gap
<1>9. s # None => o + l = hi /\ s = job[j].exit_status
  BY <1>2, <1>3, <1>4, <1>5
<1> QED
  BY <1>2, <1>4, <1>6, <1>7, <1>8, <1>9

\* The frame of a chunk of l bytes from o, if there are any.
WithChunk(d, o, l) == IF l = 0 THEN d ELSE Append(d, [kind |-> "output", offset |-> o, len |-> l])

\* Appending a frame.
LEMMA AppendDown ==
  ASSUME NEW d \in Seq(DownFrame), NEW f \in DownFrame
  PROVE  /\ Append(d, f) \in Seq(DownFrame) /\ d \o <<f>> = Append(d, f)
BY AppendIsConcat

\* The handler reads the ring.
LEMMA ReadDoes ==
  ASSUME Jobs, StreamTypes, NEW n \in Stream, stream[n].job \in JobId, ServeRead(n)
  PROVE  /\ stream[n].server \in {"poll", "read"} /\ UNCHANGED jobVars
         /\ stream' \in [Stream -> Conn] /\ OthersKeep(n) /\ stream'[n].user = stream[n].user
         /\ stream'[n].server \in {"poll", "release"} /\ stream'[n].job = stream[n].job
         /\ stream'[n].up = stream[n].up
         /\ ~Claims(n, stream[n].job) => stream'[n].down = Append(stream[n].down, [kind |-> "error"])
         /\ Claims(n, stream[n].job) =>
              \E o \in 0..MaxOutput, l \in 0..MaxRead :
                /\ o + l <= job[stream[n].job].replay_end /\ stream'[n].cursor = o + l
                /\ stream[n].cursor <= job[stream[n].job].replay_end =>
                     Gap(stream[n].cursor, o, job[stream[n].job].replay_start) /\ (l = 0 => stream[n].cursor = o)
                /\ WithChunk(stream[n].down, o, l) \in Seq(DownFrame)
                /\ \/ stream'[n].down = WithChunk(stream[n].down, o, l)
                   \/ /\ stream'[n].down = Append(WithChunk(stream[n].down, o, l), [kind |-> "exit"])
                      /\ stream'[n].server = "release" /\ job[stream[n].job].exit_status # None
                      /\ o + l = job[stream[n].job].replay_end
<1> DEFINE j == stream[n].job
<1>0. /\ stream \in [Stream -> Conn] /\ stream[n] \in Conn /\ stream[n].down \in Seq(DownFrame)
      /\ stream[n].cursor \in 0..MaxOutput /\ UNCHANGED jobVars /\ stream[n].server \in {"poll", "read"}
  BY ConnFields DEF StreamTypes, ServeRead
<1>1. PICK d \in Seq(DownFrame) : d = stream[n].down
  BY <1>0
<1>2. PICK o \in 0..MaxOutput, l \in 0..MaxRead, s \in {None, "exited", "error", "terminated"} :
           /\ read_claimed(j, stream[n].cursor) = [offset |-> o, len |-> l, status |-> s]
           /\ o + l <= job[j].replay_end
           /\ stream[n].cursor <= job[j].replay_end =>
                Gap(stream[n].cursor, o, job[j].replay_start) /\ (l = 0 => stream[n].cursor = o)
           /\ s # None => o + l = job[j].replay_end /\ s = job[j].exit_status
  BY <1>0, ReadFacts
<1> DEFINE output == IF l = 0 THEN <<>> ELSE <<[kind |-> "output", offset |-> o, len |-> l]>>
           exit   == IF s = None THEN <<>> ELSE <<[kind |-> "exit"]>>
           frames == IF Claims(n, j) THEN output \o exit ELSE <<[kind |-> "error"]>>
           over   == ~Claims(n, j) \/ exit # <<>> \/ (frames # <<>> /\ ~stream[n].user)
<1>3. stream' = [stream EXCEPT ![n] = [stream[n] EXCEPT !.server = IF over THEN "release" ELSE "poll",
                                               !.cursor = o + l, !.down = d \o frames]]
  BY <1>0, <1>1, <1>2 DEF ServeRead
<1>4. o + l \in 0..MaxOutput
  <2>1. job[j].replay_end \in Nat /\ job[j].replay_end <= MaxOutput
    BY JobFields DEF Jobs
  <2> QED
    BY <1>2, <2>1, JobSets
<1>5. /\ ~Claims(n, j) => over /\ frames = <<[kind |-> "error"]>>
      /\ Claims(n, j) => frames = output \o exit /\ (s # None => over)
  OBVIOUS
<1>6. PICK v \in {"poll", "release"} : v = IF over THEN "release" ELSE "poll"
  OBVIOUS
<1>7. over => v = "release"
  BY <1>6
<1> DEFINE w == WithChunk(d, o, l)
<1>8. w \in Seq(DownFrame) /\ d \o output = w /\ output \in Seq(DownFrame)
  <2>1. CASE l = 0
    BY <2>1, ConcatEmptySeq DEF WithChunk
  <2>2. CASE l # 0
    <3>1. l \in 1..MaxRead
      BY <2>2, JobSets
    <3>2. PICK g \in DownFrame : g = [kind |-> "output", offset |-> o, len |-> l]
      BY <3>1, DownFrames
    <3>3. Append(d, g) \in Seq(DownFrame) /\ d \o <<g>> = Append(d, g) /\ <<g>> \in Seq(DownFrame)
      BY AppendDown
    <3> QED
      BY <2>2, <3>2, <3>3 DEF WithChunk
  <2> QED
    BY <2>1, <2>2
<1>9. /\ d \o frames \in Seq(DownFrame)
      /\ ~Claims(n, j) => d \o frames = Append(d, [kind |-> "error"])
      /\ Claims(n, j) /\ s = None => d \o frames = w
      /\ Claims(n, j) /\ s # None => d \o frames = Append(w, [kind |-> "exit"])
  <2>1. PICK e \in DownFrame, g \in DownFrame : e = [kind |-> "error"] /\ g = [kind |-> "exit"]
    BY DownFrames
  <2>2. CASE ~Claims(n, j)
    <3>1. Append(d, e) \in Seq(DownFrame) /\ d \o <<e>> = Append(d, e)
      BY AppendDown
    <3> QED
      BY <1>5, <2>1, <2>2, <3>1
  <2>3. CASE Claims(n, j) /\ s = None
    <3>1. frames = output \o <<>>
      BY <2>3
    <3>2. output \o <<>> = output
      BY <1>8, ConcatEmptySeq
    <3> HIDE DEF frames, output, w
    <3> QED
      BY <1>8, <2>3, <3>1, <3>2
  <2>4. CASE Claims(n, j) /\ s # None
    <3>1. frames = output \o <<g>>
      BY <2>1, <2>4
    <3>2. <<g>> \in Seq(DownFrame)
      OBVIOUS
    <3>3. PICK u \in Seq(DownFrame), h \in Seq(DownFrame) : u = output /\ h = <<g>>
      BY <1>8, <3>2
    <3>4. d \o (u \o h) = (d \o u) \o h
      BY ConcatAssociative
    <3> HIDE DEF frames, output, w
    <3>5. Append(w, g) \in Seq(DownFrame) /\ w \o <<g>> = Append(w, g)
      BY <1>8, AppendDown
    <3>6. d \o frames = Append(w, g)
      BY <1>8, <3>1, <3>3, <3>4, <3>5
    <3> QED
      BY <2>1, <2>4, <3>5, <3>6
  <2> QED
    BY <2>2, <2>3, <2>4
<1> HIDE DEF frames, over, output, exit, w, j
<1>10. PICK q \in Seq(DownFrame), x \in 0..MaxOutput : q = d \o frames /\ x = o + l
  BY <1>4, <1>9
<1>11. PICK k \in Conn : k = [stream[n] EXCEPT !.server = v, !.cursor = x, !.down = q]
  BY <1>0 DEF Conn
<1>12. /\ k.user = stream[n].user /\ k.server = v /\ k.job = stream[n].job /\ k.cursor = x
       /\ k.up = stream[n].up /\ k.down = q
  BY <1>0, <1>11 DEF Conn
<1>13. stream' = [stream EXCEPT ![n] = k]
  BY <1>3, <1>6, <1>10, <1>11
<1>14. stream' \in [Stream -> Conn] /\ stream'[n] = k /\ OthersKeep(n)
  BY <1>13, OneStream
<1>15. /\ ~Claims(n, j) => stream'[n].down = Append(stream[n].down, [kind |-> "error"])
       /\ Claims(n, j) /\ s = None => stream'[n].down = w
       /\ Claims(n, j) /\ s # None => stream'[n].down = Append(w, [kind |-> "exit"]) /\ stream'[n].server = "release"
  BY <1>1, <1>5, <1>7, <1>9, <1>10, <1>12, <1>14
<1>16. w = WithChunk(stream[n].down, o, l)
  BY <1>1 DEF w
<1>17. stream'[n].cursor = o + l
  BY <1>10, <1>12, <1>14
<1>18. ASSUME Claims(n, j)
       PROVE  \E oo \in 0..MaxOutput, ll \in 0..MaxRead :
                /\ oo + ll <= job[j].replay_end /\ stream'[n].cursor = oo + ll
                /\ stream[n].cursor <= job[j].replay_end =>
                     Gap(stream[n].cursor, oo, job[j].replay_start) /\ (ll = 0 => stream[n].cursor = oo)
                /\ WithChunk(stream[n].down, oo, ll) \in Seq(DownFrame)
                /\ \/ stream'[n].down = WithChunk(stream[n].down, oo, ll)
                   \/ /\ stream'[n].down = Append(WithChunk(stream[n].down, oo, ll), [kind |-> "exit"])
                      /\ stream'[n].server = "release" /\ job[j].exit_status # None
                      /\ oo + ll = job[j].replay_end
  <2> WITNESS o \in 0..MaxOutput, l \in 0..MaxRead
  <2> QED
    BY <1>2, <1>8, <1>15, <1>16, <1>17, <1>18
<1> QED
  BY <1>0, <1>12, <1>14, <1>15, <1>18 DEF j

-----------------------------------------------------------------------------
(* What the steps do to the client that takes them.                        *)

\* Every client but c is as it was.
OthersStay(c) == \A b \in Client : b # c => client'[b] = client[b]

\* What is left of the client's state that matters below.
ClientIs(c, pc, conn, cursor, saved, seen) ==
  /\ client'[c].pc = pc /\ client'[c].conn = conn /\ client'[c].cursor = cursor
  /\ client'[c].saved = saved /\ client'[c].seen = seen

\* One client is replaced.
LEMMA OneClient ==
  ASSUME StreamTypes, NEW c \in Client, NEW u \in ClientState, client' = [client EXCEPT ![c] = u]
  PROVE  /\ client' \in [Client -> ClientState] /\ OthersStay(c)
         /\ ClientIs(c, u.pc, u.conn, u.cursor, u.saved, u.seen)
<1>1. client' \in [Client -> ClientState] /\ OthersStay(c) /\ client'[c] = u
  BY DEF StreamTypes, OthersStay
<1> QED
  BY <1>1 DEF ClientIs

\* The client attaches to the session.
LEMMA AttachSessionClient ==
  ASSUME StreamTypes, NEW c \in Client, AttachSession(c)
  PROVE  /\ client' \in [Client -> ClientState] /\ OthersStay(c)
         /\ ClientIs(c, "prompt", client[c].conn, client[c].cursor, client[c].saved, client[c].seen)
<1>0. client \in [Client -> ClientState] /\ client[c] \in ClientState
  BY DEF StreamTypes
<1>1. PICK u \in ClientState : u = [client[c] EXCEPT !.pc = "prompt"]
  BY <1>0 DEF ClientState
<1>2. /\ u.pc = "prompt" /\ u.conn = client[c].conn /\ u.cursor = client[c].cursor /\ u.saved = client[c].saved /\ u.seen = client[c].seen
  BY <1>0, <1>1 DEF ClientState
<1>3. client' = [client EXCEPT ![c] = u]
  BY <1>0, <1>1 DEF AttachSession
<1>4. /\ client' \in [Client -> ClientState] /\ OthersStay(c)
      /\ ClientIs(c, u.pc, u.conn, u.cursor, u.saved, u.seen)
  BY <1>3, OneClient
<1> QED
  BY <1>2, <1>4

\* The claim is answered.
LEMMA ClaimGrantedClient ==
  ASSUME StreamTypes, NEW c \in Client, ClaimGranted(c)
  PROVE  /\ client' \in [Client -> ClientState] /\ OthersStay(c)
         /\ ClientIs(c, "relay", client[c].conn, client[c].cursor, client[c].saved, client[c].seen)
<1>0. client \in [Client -> ClientState] /\ client[c] \in ClientState
  BY DEF StreamTypes
<1>1. PICK u \in ClientState : u = [client[c] EXCEPT !.pc = "relay", !.pending = FALSE]
  BY <1>0 DEF ClientState
<1>2. /\ u.pc = "relay" /\ u.conn = client[c].conn /\ u.cursor = client[c].cursor /\ u.saved = client[c].saved /\ u.seen = client[c].seen
  BY <1>0, <1>1 DEF ClientState
<1>3. client' = [client EXCEPT ![c] = u]
  BY <1>0, <1>1 DEF ClaimGranted
<1>4. /\ client' \in [Client -> ClientState] /\ OthersStay(c)
      /\ ClientIs(c, u.pc, u.conn, u.cursor, u.saved, u.seen)
  BY <1>3, OneClient
<1> QED
  BY <1>2, <1>4

\* The claim was refused.
LEMMA ClaimFailedClient ==
  ASSUME StreamTypes, NEW c \in Client, ClaimFailed(c)
  PROVE  /\ client' \in [Client -> ClientState] /\ OthersStay(c)
         /\ ClientIs(c, "prompt", None, client[c].cursor, client[c].saved, client[c].seen)
<1>0. client \in [Client -> ClientState] /\ client[c] \in ClientState
  BY DEF StreamTypes
<1>1. PICK u \in ClientState : u = [client[c] EXCEPT !.pc = "prompt", !.conn = None, !.fresh = FALSE]
  BY <1>0 DEF ClientState
<1>2. /\ u.pc = "prompt" /\ u.conn = None /\ u.cursor = client[c].cursor /\ u.saved = client[c].saved /\ u.seen = client[c].seen
  BY <1>0, <1>1 DEF ClientState
<1>3. client' = [client EXCEPT ![c] = u]
  BY <1>0, <1>1 DEF ClaimFailed
<1>4. /\ client' \in [Client -> ClientState] /\ OthersStay(c)
      /\ ClientIs(c, u.pc, u.conn, u.cursor, u.saved, u.seen)
  BY <1>3, OneClient
<1> QED
  BY <1>2, <1>4

\* Output is shown.
LEMMA RelayOutputClient ==
  ASSUME StreamTypes, NEW c \in Client, NEW x \in 0..MaxOutput, x = Head(Down(c)).offset + Head(Down(c)).len, RelayOutput(c)
  PROVE  /\ client' \in [Client -> ClientState] /\ OthersStay(c)
         /\ ClientIs(c, client[c].pc, client[c].conn, x, client[c].saved, client[c].seen)
<1>0. client \in [Client -> ClientState] /\ client[c] \in ClientState
  BY DEF StreamTypes
<1>1. PICK u \in ClientState : u = [client[c] EXCEPT !.cursor = x]
  BY <1>0 DEF ClientState
<1>2. /\ u.pc = client[c].pc /\ u.conn = client[c].conn /\ u.cursor = x /\ u.saved = client[c].saved /\ u.seen = client[c].seen
  BY <1>0, <1>1 DEF ClientState
<1>3. client' = [client EXCEPT ![c] = u]
  BY <1>0, <1>1 DEF RelayOutput
<1>4. /\ client' \in [Client -> ClientState] /\ OthersStay(c)
      /\ ClientIs(c, u.pc, u.conn, u.cursor, u.saved, u.seen)
  BY <1>3, OneClient
<1> QED
  BY <1>2, <1>4

\* The relay ends.
LEMMA RelayEndsClient ==
  ASSUME StreamTypes, NEW c \in Client, RelayEnds(c)
  PROVE  /\ client' \in [Client -> ClientState] /\ OthersStay(c)
         /\ ClientIs(c, "prompt", None, client[c].cursor, client[c].cursor, client[c].seen)
<1>0. client \in [Client -> ClientState] /\ client[c] \in ClientState
  BY DEF StreamTypes
<1>1. PICK u \in ClientState : u = [client[c] EXCEPT !.pc = "prompt", !.saved = client[c].cursor, !.conn = None, !.fresh = FALSE, !.pending = FALSE]
  BY <1>0 DEF ClientState
<1>2. /\ u.pc = "prompt" /\ u.conn = None /\ u.cursor = client[c].cursor /\ u.saved = client[c].cursor /\ u.seen = client[c].seen
  BY <1>0, <1>1 DEF ClientState
<1>3. client' = [client EXCEPT ![c] = u]
  BY <1>0, <1>1 DEF RelayEnds, Parted
<1>4. /\ client' \in [Client -> ClientState] /\ OthersStay(c)
      /\ ClientIs(c, u.pc, u.conn, u.cursor, u.saved, u.seen)
  BY <1>3, OneClient
<1> QED
  BY <1>2, <1>4

\* A key is typed.
LEMMA RelayKeyClient ==
  ASSUME StreamTypes, NEW c \in Client, NEW key \in {"plain", "prefix", "help"}, NEW b \in BOOLEAN, b = (key = "prefix" /\ ~client[c].pending), RelayKey(c, key)
  PROVE  /\ client' \in [Client -> ClientState] /\ OthersStay(c)
         /\ ClientIs(c, client[c].pc, client[c].conn, client[c].cursor, client[c].saved, client[c].seen)
<1>0. client \in [Client -> ClientState] /\ client[c] \in ClientState
  BY DEF StreamTypes
<1>1. PICK u \in ClientState : u = [client[c] EXCEPT !.pending = b]
  BY <1>0 DEF ClientState
<1>2. /\ u.pc = client[c].pc /\ u.conn = client[c].conn /\ u.cursor = client[c].cursor /\ u.saved = client[c].saved /\ u.seen = client[c].seen
  BY <1>0, <1>1 DEF ClientState
<1>3. client' = [client EXCEPT ![c] = u]
  BY <1>0, <1>1 DEF RelayKey
<1>4. /\ client' \in [Client -> ClientState] /\ OthersStay(c)
      /\ ClientIs(c, u.pc, u.conn, u.cursor, u.saved, u.seen)
  BY <1>3, OneClient
<1> QED
  BY <1>2, <1>4

\* The client leaves the relay.
LEMMA RelayActionClient ==
  ASSUME StreamTypes, NEW c \in Client, NEW after \in {"prompt", "terminate", "away"}, RelayAction(c, after)
  PROVE  /\ client' \in [Client -> ClientState] /\ OthersStay(c)
         /\ ClientIs(c, "detach", client[c].conn, client[c].cursor, client[c].cursor, client[c].seen)
<1>0. client \in [Client -> ClientState] /\ client[c] \in ClientState
  BY DEF StreamTypes
<1>1. PICK u \in ClientState : u = [client[c] EXCEPT !.pc = "detach", !.after = after, !.saved = client[c].cursor, !.pending = FALSE]
  BY <1>0 DEF ClientState
<1>2. /\ u.pc = "detach" /\ u.conn = client[c].conn /\ u.cursor = client[c].cursor /\ u.saved = client[c].cursor /\ u.seen = client[c].seen
  BY <1>0, <1>1 DEF ClientState
<1>3. client' = [client EXCEPT ![c] = u]
  BY <1>0, <1>1 DEF RelayAction
<1>4. /\ client' \in [Client -> ClientState] /\ OthersStay(c)
      /\ ClientIs(c, u.pc, u.conn, u.cursor, u.saved, u.seen)
  BY <1>3, OneClient
<1> QED
  BY <1>2, <1>4

\* The detachment fails.
LEMMA DetachFailsClient ==
  ASSUME StreamTypes, NEW c \in Client, DetachFails(c)
  PROVE  /\ client' \in [Client -> ClientState] /\ OthersStay(c)
         /\ ClientIs(c, "prompt", None, client[c].cursor, client[c].saved, client[c].seen)
<1>0. client \in [Client -> ClientState] /\ client[c] \in ClientState
  BY DEF StreamTypes
<1>1. PICK u \in ClientState : u = [client[c] EXCEPT !.pc = "prompt", !.conn = None, !.fresh = FALSE, !.after = None]
  BY <1>0 DEF ClientState
<1>2. /\ u.pc = "prompt" /\ u.conn = None /\ u.cursor = client[c].cursor /\ u.saved = client[c].saved /\ u.seen = client[c].seen
  BY <1>0, <1>1 DEF ClientState
<1>3. client' = [client EXCEPT ![c] = u]
  BY <1>0, <1>1 DEF DetachFails, Closed
<1>4. /\ client' \in [Client -> ClientState] /\ OthersStay(c)
      /\ ClientIs(c, u.pc, u.conn, u.cursor, u.saved, u.seen)
  BY <1>3, OneClient
<1> QED
  BY <1>2, <1>4

\* The job is stopped from the prompt.
LEMMA StopCommandClient ==
  ASSUME StreamTypes, NEW c \in Client, StopCommand(c)
  PROVE  /\ client' \in [Client -> ClientState] /\ OthersStay(c)
         /\ ClientIs(c, client[c].pc, client[c].conn, client[c].cursor, None, client[c].seen)
<1>0. client \in [Client -> ClientState] /\ client[c] \in ClientState
  BY DEF StreamTypes
<1>1. PICK u \in ClientState : u = [client[c] EXCEPT !.saved = None]
  BY <1>0 DEF ClientState
<1>2. /\ u.pc = client[c].pc /\ u.conn = client[c].conn /\ u.cursor = client[c].cursor /\ u.saved = None /\ u.seen = client[c].seen
  BY <1>0, <1>1 DEF ClientState
<1>3. client' = [client EXCEPT ![c] = u]
  BY <1>0, <1>1 DEF StopCommand
<1>4. /\ client' \in [Client -> ClientState] /\ OthersStay(c)
      /\ ClientIs(c, u.pc, u.conn, u.cursor, u.saved, u.seen)
  BY <1>3, OneClient
<1> QED
  BY <1>2, <1>4

\* The client leaves the session.
LEMMA LeaveSessionClient ==
  ASSUME StreamTypes, NEW c \in Client, LeaveSession(c)
  PROVE  /\ client' \in [Client -> ClientState] /\ OthersStay(c)
         /\ ClientIs(c, "away", client[c].conn, client[c].cursor, client[c].saved, client[c].seen)
<1>0. client \in [Client -> ClientState] /\ client[c] \in ClientState
  BY DEF StreamTypes
<1>1. PICK u \in ClientState : u = [client[c] EXCEPT !.pc = "away"]
  BY <1>0 DEF ClientState
<1>2. /\ u.pc = "away" /\ u.conn = client[c].conn /\ u.cursor = client[c].cursor /\ u.saved = client[c].saved /\ u.seen = client[c].seen
  BY <1>0, <1>1 DEF ClientState
<1>3. client' = [client EXCEPT ![c] = u]
  BY <1>0, <1>1 DEF LeaveSession
<1>4. /\ client' \in [Client -> ClientState] /\ OthersStay(c)
      /\ ClientIs(c, u.pc, u.conn, u.cursor, u.saved, u.seen)
  BY <1>3, OneClient
<1> QED
  BY <1>2, <1>4

\* The detachment ends.
LEMMA DetachEndsClient ==
  ASSUME Jobs, StreamTypes, NEW c \in Client, DetachEnds(c)
  PROVE  /\ client' \in [Client -> ClientState] /\ OthersStay(c)
         /\ (client'[c].pc = "prompt" /\ owner' = owner) \/ (client'[c].pc = "away" /\ owner' = None)
         /\ client'[c].conn = None /\ client'[c].cursor = client[c].cursor
         /\ client'[c].saved \in {client[c].saved, None} /\ client'[c].seen = client[c].seen
<1>0. client \in [Client -> ClientState] /\ client[c] \in ClientState
  BY DEF StreamTypes
<1>1. PICK p \in {"prompt", "away"} : /\ p = IF client[c].after = "away" THEN "away" ELSE "prompt"
                                      /\ owner' = IF p = "away" THEN None ELSE owner
  BY DEF DetachEnds
<1>2. PICK s \in 0..MaxOutput \cup {None} :
        /\ s \in {client[c].saved, None}
        /\ client' = [client EXCEPT ![c] = [client[c] EXCEPT !.pc = p, !.conn = None, !.fresh = FALSE,
                                                           !.after = None, !.saved = s]]
  <2>1. CASE client[c].after = "terminate" /\ listed # None
    <3>1. client' = [client EXCEPT ![c] = [client[c] EXCEPT !.pc = p, !.conn = None, !.fresh = FALSE,
                                                           !.after = None, !.saved = None]]
      BY <1>1, <2>1 DEF DetachEnds, Closed
    <3> QED
      BY <3>1
  <2>2. CASE ~(client[c].after = "terminate" /\ listed # None)
    <3>1. client' = [client EXCEPT ![c] = [client[c] EXCEPT !.pc = p, !.conn = None, !.fresh = FALSE,
                                                           !.after = None]]
      BY <1>1, <2>2 DEF DetachEnds, Closed
    <3>2. client[c].saved \in 0..MaxOutput \cup {None}
      BY <1>0, ClientFields
    <3>3. [client[c] EXCEPT !.pc = p, !.conn = None, !.fresh = FALSE, !.after = None]
            = [client[c] EXCEPT !.pc = p, !.conn = None, !.fresh = FALSE, !.after = None, !.saved = client[c].saved]
      BY <1>0 DEF ClientState
    <3> QED
      BY <3>1, <3>2, <3>3
  <2> QED
    BY <2>1, <2>2
<1>3. PICK u \in ClientState : u = [client[c] EXCEPT !.pc = p, !.conn = None, !.fresh = FALSE,
                                                     !.after = None, !.saved = s]
  BY <1>0 DEF ClientState
<1>4. u.pc = p /\ u.conn = None /\ u.cursor = client[c].cursor /\ u.saved = s /\ u.seen = client[c].seen
  BY <1>0, <1>3 DEF ClientState
<1>5. client' = [client EXCEPT ![c] = u]
  BY <1>2, <1>3
<1>6. /\ client' \in [Client -> ClientState] /\ OthersStay(c)
      /\ ClientIs(c, u.pc, u.conn, u.cursor, u.saved, u.seen)
  BY <1>5, OneClient
<1>7. (p = "prompt" /\ owner' = owner) \/ (p = "away" /\ owner' = None)
  BY <1>1
<1> QED
  BY <1>2, <1>4, <1>6, <1>7 DEF ClientIs

\* The client dies.
LEMMA ClientDiesClient ==
  ASSUME StreamTypes, NEW c \in Client, ClientDies(c)
  PROVE  /\ client' \in [Client -> ClientState] /\ OthersStay(c)
         /\ ClientIs(c, "away", None, 0, None, None)
         /\ expected' \in [Client -> 0..MaxOutput] /\ expected'[c] = 0
         /\ \A b \in Client : b # c => expected'[b] = expected[b]
<1>1. /\ NoClient \in ClientState /\ NoClient.pc = "away" /\ NoClient.conn = None /\ NoClient.cursor = 0
      /\ NoClient.saved = None /\ NoClient.seen = None
  BY JobSets DEF NoClient, ClientState
<1>2. client' = [client EXCEPT ![c] = NoClient] /\ expected' = [expected EXCEPT ![c] = 0]
  BY DEF ClientDies
<1>3. /\ client' \in [Client -> ClientState] /\ OthersStay(c)
      /\ ClientIs(c, NoClient.pc, NoClient.conn, NoClient.cursor, NoClient.saved, NoClient.seen)
  BY <1>1, <1>2, OneClient
<1>4. /\ expected' \in [Client -> 0..MaxOutput] /\ expected'[c] = 0
      /\ \A b \in Client : b # c => expected'[b] = expected[b]
  BY <1>2, JobSets DEF StreamTypes
<1> QED
  BY <1>1, <1>3, <1>4

\* The client starts a job.
LEMMA PtyStartClient ==
  ASSUME StreamTypes, NEW c \in Client, PtyStart(c), listed' \in JobId, NewStream \in Stream
  PROVE  /\ client' \in [Client -> ClientState] /\ OthersStay(c)
         /\ ClientIs(c, "open", NewStream, 0, client[c].saved, listed')
         /\ expected' \in [Client -> 0..MaxOutput] /\ expected'[c] = 0
         /\ \A b \in Client : b # c => expected'[b] = expected[b]
<1>0. client \in [Client -> ClientState] /\ client[c] \in ClientState
  BY DEF StreamTypes
<1>1. PICK n \in Stream, i \in JobId, x \in 0..MaxOutput : n = NewStream /\ i = listed' /\ x = 0
  BY JobSets
<1>2. PICK u \in ClientState : u = [client[c] EXCEPT !.pc = "open", !.conn = n, !.fresh = TRUE, !.cursor = x, !.seen = i]
  BY <1>0 DEF ClientState
<1>3. u.pc = "open" /\ u.conn = n /\ u.cursor = x /\ u.saved = client[c].saved /\ u.seen = i
  BY <1>0, <1>2 DEF ClientState
<1>4. client' = [client EXCEPT ![c] = u] /\ expected' = [expected EXCEPT ![c] = x]
  BY <1>0, <1>1, <1>2 DEF PtyStart
<1>5. /\ client' \in [Client -> ClientState] /\ OthersStay(c)
      /\ ClientIs(c, u.pc, u.conn, u.cursor, u.saved, u.seen)
  BY <1>4, OneClient
<1>6. /\ expected' \in [Client -> 0..MaxOutput] /\ expected'[c] = x
      /\ \A b \in Client : b # c => expected'[b] = expected[b]
  BY <1>4, JobSets DEF StreamTypes
<1> QED
  BY <1>1, <1>3, <1>5, <1>6

\* The client attaches to the job.
LEMMA PtyAttachClient ==
  ASSUME StreamTypes, NEW c \in Client, PtyAttach(c), listed \in JobId, NewStream \in Stream,
         NEW f \in 0..MaxOutput, f = job'[listed].from
  PROVE  /\ client' \in [Client -> ClientState] /\ OthersStay(c)
         /\ ClientIs(c, "open", NewStream, f, client[c].saved, listed)
         /\ expected' \in [Client -> 0..MaxOutput]
         /\ client[c].saved = None => expected'[c] = 0
         /\ client[c].saved # None /\ client[c].seen = listed => expected'[c] = expected[c]
         /\ client[c].saved # None /\ client[c].seen # listed => expected'[c] = f
         /\ \A b \in Client : b # c => expected'[b] = expected[b]
<1>0. client \in [Client -> ClientState] /\ client[c] \in ClientState
  BY DEF StreamTypes
<1>1. PICK n \in Stream, i \in JobId : n = NewStream /\ i = listed
  OBVIOUS
<1>2. PICK u \in ClientState : u = [client[c] EXCEPT !.pc = "open", !.conn = n, !.fresh = FALSE, !.cursor = f, !.seen = i]
  BY <1>0 DEF ClientState
<1>3. u.pc = "open" /\ u.conn = n /\ u.cursor = f /\ u.saved = client[c].saved /\ u.seen = i
  BY <1>0, <1>2 DEF ClientState
<1>4. client' = [client EXCEPT ![c] = u]
  BY <1>0, <1>1, <1>2 DEF PtyAttach
<1>5. /\ client' \in [Client -> ClientState] /\ OthersStay(c)
      /\ ClientIs(c, u.pc, u.conn, u.cursor, u.saved, u.seen)
  BY <1>4, OneClient
<1>6. expected \in [Client -> 0..MaxOutput] /\ expected[c] \in 0..MaxOutput /\ 0 \in 0..MaxOutput
  BY JobSets DEF StreamTypes
<1>7. PICK x \in 0..MaxOutput :
        /\ expected' = [expected EXCEPT ![c] = x]
        /\ client[c].saved = None => x = 0
        /\ client[c].saved # None /\ client[c].seen = listed => x = expected[c]
        /\ client[c].saved # None /\ client[c].seen # listed => x = f
  <2>1. CASE client[c].saved = None
    <3>1. expected' = [expected EXCEPT ![c] = 0]
      BY <2>1 DEF PtyAttach
    <3>2. PICK x \in 0..MaxOutput : x = 0
      BY <1>6
    <3> QED
      BY <2>1, <3>1, <3>2
  <2>2. CASE client[c].saved # None /\ client[c].seen = listed
    BY <1>6, <2>2 DEF PtyAttach
  <2>3. CASE client[c].saved # None /\ client[c].seen # listed
    BY <1>6, <2>3 DEF PtyAttach
  <2> QED
    BY <2>1, <2>2, <2>3
<1>8. /\ expected' \in [Client -> 0..MaxOutput] /\ expected'[c] = x
      /\ \A b \in Client : b # c => expected'[b] = expected[b]
  BY <1>6, <1>7
<1> QED
  BY <1>1, <1>3, <1>5, <1>7, <1>8

-----------------------------------------------------------------------------
(* Who is at the terminal.                                                 *)

Busy(c)    == client[c].pc \in {"open", "relay", "detach"}
Serving(n) == stream[n].server \in {"poll", "read", "release"}

\* No frame of the kind is in the queue.
Without(d, kind) == \A k \in DOMAIN d : d[k].kind # kind

\* A client that is not away owns the session; one with a stream is at the
\* listed job, whose stream is open at its end.
Placed(c) ==
  /\ client[c].pc # "away" => owner = c
  /\ ~Busy(c) => client[c].conn = None
  /\ Busy(c) => /\ client[c].conn \in Stream /\ stream[client[c].conn].user
                /\ listed \in JobId /\ client[c].seen = listed
                /\ client[c].pc # "open" => stream[client[c].conn].server # "claim"
  /\ client[c].seen # None => job[client[c].seen].worker # "none"

\* A stream open at the client's end is the owner's, and it has the ticket or
\* the claim of the listed job; a detachment is acknowledged by a handler that
\* is gone.
Held(n) ==
  /\ stream[n].user => owner \in Client /\ client[owner].conn = n
  /\ stream[n].server = "gone" => stream[n].user
  /\ stream[n].server = "claim" => stream[n].down = <<>>
  /\ stream[n].user /\ stream[n].server = "claim" => Claimable(n)
  /\ Serving(n) => stream[n].job \in JobId
  /\ stream[n].user /\ Serving(n) => stream[n].job = listed /\ job[listed].claimed = n
  /\ \A j \in JobId : job[j].claimed = n /\ stream[n].user => listed = j /\ Serving(n)
  /\ stream[n].server # "gone" => Without(stream[n].down, "detached")

Visits ==
  /\ listed # None => job[listed].worker # "none"
  /\ \A c \in Client : Placed(c)
  /\ \A n \in Stream : Held(n)

\* Appending to and taking from a queue without frames of a kind.
LEMMA WithoutFacts ==
  ASSUME NEW d \in Seq(DownFrame), NEW x \in {"claimed", "refused", "exit", "error", "detached"}, Without(d, x)
  PROVE  /\ \A f \in DownFrame : f.kind # x => Without(Append(d, f), x)
         /\ d # <<>> => Without(Tail(d), x)
<1>1. ASSUME NEW f \in DownFrame, f.kind # x PROVE Without(Append(d, f), x)
  BY <1>1 DEF Without
<1>2. ASSUME d # <<>> PROVE Without(Tail(d), x)
  BY <1>2 DEF Without
<1> QED
  BY <1>1, <1>2

\* The handler of stream n takes a step.
Served(n) ==
  /\ stream' \in [Stream -> Conn] /\ OthersKeep(n) /\ stream'[n].user = stream[n].user
  /\ client' = client /\ owner' = owner /\ expected' = expected /\ typed' = typed
  /\ listed' = listed /\ Jobs'
  /\ \A j \in JobId : /\ job'[j].worker = job[j].worker /\ job'[j].from = job[j].from
                      /\ job'[j].replay_start = job[j].replay_start /\ job'[j].replay_end = job[j].replay_end
                      /\ job'[j].exit_status = job[j].exit_status
                      /\ job'[j].ticket = job[j].ticket \/ job[j].ticket = n
                      /\ \/ job'[j].claimed = job[j].claimed
                         \/ job[j].claimed = n /\ job'[j].claimed = None
                         \/ job[j].claimed = None /\ job'[j].claimed = n /\ job[j].ticket = n
  /\ stream'[n].server # "claim"

\* It leaves the clients and the other streams where they are.
LEMMA ServedKeeps ==
  ASSUME Jobs, StreamTypes, Visits, NEW n \in Stream, Served(n), Held(n)'
  PROVE  Visits'
<1>1. ASSUME NEW c \in Client PROVE Placed(c)'
  <2>1. Placed(c) /\ client'[c] = client[c] /\ client[c] \in ClientState
    BY DEF Visits, Served, StreamTypes
  <2>2. client[c].seen \in JobId \cup {None}
    BY <2>1, ClientFields
  <2>3. Busy(c)' <=> Busy(c)
    BY <2>1 DEF Busy
  <2>4. (client[c].seen # None => job[client[c].seen].worker # "none")'
    BY <2>1, <2>2 DEF Served, Placed
  <2>5. (client[c].pc # "away" => owner = c)' /\ (~Busy(c) => client[c].conn = None)'
    BY <2>1, <2>3 DEF Served, Placed
  <2>6. ASSUME Busy(c)
        PROVE  /\ client'[c].conn \in Stream /\ stream'[client'[c].conn].user
               /\ listed' \in JobId /\ client'[c].seen = listed'
               /\ client'[c].pc # "open" => stream'[client'[c].conn].server # "claim"
    <3>1. CASE client[c].conn = n
      BY <2>1, <2>6, <3>1 DEF Served, Placed
    <3>2. CASE client[c].conn # n
      BY <2>1, <2>6, <3>2 DEF Served, Placed, OthersKeep
    <3> QED
      BY <3>1, <3>2
  <2> QED
    BY <2>3, <2>4, <2>5, <2>6 DEF Placed
<1>2. ASSUME NEW m \in Stream, m # n PROVE Held(m)'
  <2>1. Held(m) /\ stream'[m] = stream[m] /\ client' = client /\ owner' = owner /\ listed' = listed
    BY <1>2 DEF Visits, Served, OthersKeep
  <2>2. Serving(m)' <=> Serving(m)
    BY <2>1 DEF Serving
  <2>3. m \in Nat /\ None \notin Nat /\ n # None /\ m # None /\ n # m
    BY <1>2, JobSets
  <2>4. (stream[m].user => owner \in Client /\ client[owner].conn = m)'
    BY <2>1 DEF Held
  <2>5. /\ (stream[m].server = "gone" => stream[m].user)' /\ (Serving(m) => stream[m].job \in JobId)'
        /\ (stream[m].server = "claim" => stream[m].down = <<>>)'
        /\ (stream[m].server # "gone" => Without(stream[m].down, "detached"))'
    BY <2>1, <2>2 DEF Held, Without
  <2>6. ASSUME stream[m].user, stream[m].server = "claim" PROVE Claimable(m)'
    <3>1. listed \in JobId /\ job[listed].ticket = m /\ job[listed].claimed = None
      BY <2>1, <2>6 DEF Held, Claimable, Jobs, JobTypes
    <3>2. /\ job'[listed].ticket = job[listed].ticket \/ job[listed].ticket = n
          /\ \/ job'[listed].claimed = job[listed].claimed
             \/ job[listed].claimed = n /\ job'[listed].claimed = None
             \/ job[listed].claimed = None /\ job'[listed].claimed = n /\ job[listed].ticket = n
      BY <3>1 DEF Served
    <3>3. job'[listed].ticket = m /\ job'[listed].claimed = None
      BY <2>3, <3>1, <3>2
    <3> QED
      BY <2>1, <3>1, <3>3, JobSets DEF Claimable
  <2>7. ASSUME stream[m].user, Serving(m) PROVE stream[m].job = listed /\ job'[listed].claimed = m
    <3>1. stream[m].job = listed /\ listed \in JobId /\ job[listed].claimed = m
      BY <2>1, <2>7 DEF Held
    <3> QED
      BY <2>3, <3>1 DEF Served
  <2>8. ASSUME NEW j \in JobId, job'[j].claimed = m, stream[m].user PROVE listed = j /\ Serving(m)
    <3>1. job[j].claimed = m
      BY <2>3, <2>8 DEF Served
    <3> QED
      BY <2>1, <2>8, <3>1 DEF Held
  <2> QED
    BY <2>1, <2>2, <2>4, <2>5, <2>6, <2>7, <2>8 DEF Held
<1>3. (listed # None => job[listed].worker # "none")'
  BY DEF Visits, Served, Jobs, JobTypes
<1> QED
  BY <1>1, <1>2, <1>3 DEF Visits

\* What UNCHANGED jobVars says.
LEMMA JobsStay ==
  ASSUME Jobs, UNCHANGED jobVars
  PROVE  Jobs' /\ job' = job /\ listed' = listed /\ accepted' = accepted /\ written' = written /\ trail' = trail
<1>1. job' = job /\ listed' = listed /\ accepted' = accepted /\ written' = written /\ trail' = trail
  BY DEF jobVars
<1> QED
  BY <1>1 DEF Jobs, JobTypes, Sound, Traced

\* A claim that is granted.
LEMMA GrantServes ==
  ASSUME Jobs, StreamTypes, Visits, NEW n \in Stream, ServeClaim(n), Claimable(n), UNCHANGED typed
  PROVE  Served(n) /\ Held(n)'
<1>1. /\ claim(n) /\ listed \in JobId /\ stream[n].server = "claim"
      /\ stream' \in [Stream -> Conn] /\ OthersKeep(n) /\ stream'[n].user = stream[n].user
      /\ stream'[n].server = IF stream[n].user THEN "poll" ELSE "release"
      /\ stream'[n].job = listed
      /\ stream'[n].down = <<[kind |-> "claimed"]>>
  BY GrantDoes
<1>2. /\ Jobs' /\ listed' = listed /\ job[listed].ticket = n
      /\ job[listed].claimed = None /\ job'[listed].claimed = n
      /\ job'[listed].from = job[listed].from /\ job'[listed].worker = job[listed].worker
      /\ \A j \in JobId : Kept(j) /\ (j # listed => job'[j] = job[j])
  BY <1>1, ClaimKeeps
<1>3. client' = client /\ owner' = owner /\ expected' = expected
  BY DEF ServeClaim
<1>4. Served(n)
  BY <1>1, <1>2, <1>3 DEF Served, Kept
<1>5. Held(n)
  BY DEF Visits
<1>6. Without(stream'[n].down, "detached")
  BY <1>1 DEF Without
<1>7. stream'[n].server \in {"poll", "release"}
  BY <1>1
<1>8. ASSUME NEW j \in JobId, job'[j].claimed = n, stream[n].user PROVE listed = j
  BY <1>1, <1>2, <1>5, <1>8, JobSets DEF Held, Serving
<1> QED
  BY <1>1, <1>2, <1>3, <1>4, <1>5, <1>6, <1>7, <1>8 DEF Held, Serving

\* A claim that is refused: only one whose client is gone.
LEMMA RefuseServes ==
  ASSUME Jobs, StreamTypes, Visits, NEW n \in Stream, ServeClaim(n), ~Claimable(n), UNCHANGED typed
  PROVE  Served(n) /\ Held(n)' /\ ~stream[n].user /\ stream'[n] = NoConn /\ UNCHANGED jobVars
<1>1. Held(n) /\ stream[n].server = "claim"
  BY DEF Visits, ServeClaim
<1>2. ~stream[n].user
  BY <1>1 DEF Held
<1>3. UNCHANGED jobVars /\ stream' \in [Stream -> Conn] /\ OthersKeep(n) /\ stream'[n] = NoConn
  BY <1>2, RefuseDoes
<1>4. client' = client /\ owner' = owner /\ expected' = expected
  BY DEF ServeClaim
<1>5. Jobs' /\ job' = job /\ listed' = listed
  BY <1>3, JobsStay
<1>6. stream'[n].user = stream[n].user
  BY <1>2, <1>3, NoConnFields, ConnFields DEF StreamTypes
<1>7. Served(n)
  BY <1>3, <1>4, <1>5, <1>6, NoConnFields DEF Served
<1>8. Without(stream'[n].down, "detached")
  BY <1>3, NoConnFields DEF Without
<1> QED
  BY <1>2, <1>3, <1>7, <1>8, NoConnFields DEF Held, Serving

\* A step after which the handler still serves the job.
LEMMA StillServes ==
  ASSUME Jobs, StreamTypes, Visits, NEW n \in Stream, Jobs', listed' = listed,
         stream' \in [Stream -> Conn], OthersKeep(n), stream'[n].user = stream[n].user,
         Serving(n), Serving(n)', stream'[n].job = stream[n].job, Without(stream'[n].down, "detached"),
         client' = client, owner' = owner, expected' = expected, typed' = typed,
         \A j \in JobId : /\ job'[j].worker = job[j].worker /\ job'[j].from = job[j].from
                          /\ job'[j].replay_start = job[j].replay_start /\ job'[j].replay_end = job[j].replay_end
                          /\ job'[j].exit_status = job[j].exit_status
                          /\ job'[j].ticket = job[j].ticket /\ job'[j].claimed = job[j].claimed
  PROVE  Served(n) /\ Held(n)'
<1>1. Held(n)
  BY DEF Visits
<1>2. stream'[n].server \in {"poll", "read", "release"}
  BY DEF Serving
<1>3. Served(n)
  BY <1>2 DEF Served
<1> QED
  BY <1>1, <1>2, <1>3 DEF Held, Serving

\* A frame of input.
LEMMA InputServes ==
  ASSUME Jobs, StreamTypes, Visits, NEW n \in Stream, ServeInput(n), UNCHANGED typed
  PROVE  Served(n) /\ Held(n)'
<1>1. /\ stream[n].server = "poll" /\ Head(stream[n].up).bytes \in Seq(Token)
      /\ stream' \in [Stream -> Conn] /\ OthersKeep(n) /\ stream'[n].user = stream[n].user
      /\ stream'[n].server \in {"read", "release"} /\ stream'[n].job = stream[n].job
      /\ stream'[n].down = stream[n].down
      /\ \/ write_claimed(n, stream[n].job, Head(stream[n].up).bytes)
         \/ UNCHANGED jobVars
  BY InputDoes
<1>2. Held(n) /\ client' = client /\ owner' = owner /\ expected' = expected
  BY DEF Visits, ServeInput
<1>3. stream[n].job \in JobId /\ Without(stream'[n].down, "detached")
  BY <1>1, <1>2 DEF Held, Serving
<1>4. PICK i \in JobId, b \in Seq(Token) : i = stream[n].job /\ b = Head(stream[n].up).bytes
  BY <1>1, <1>3
<1>5. /\ Jobs' /\ listed' = listed
      /\ \A j \in JobId : /\ job'[j].worker = job[j].worker /\ job'[j].from = job[j].from
                          /\ job'[j].replay_start = job[j].replay_start /\ job'[j].replay_end = job[j].replay_end
                          /\ job'[j].exit_status = job[j].exit_status
                          /\ job'[j].ticket = job[j].ticket /\ job'[j].claimed = job[j].claimed
  <2>1. CASE write_claimed(n, i, b)
    BY <2>1, WriteKeeps
  <2>2. CASE UNCHANGED jobVars
    BY <2>2, JobsStay
  <2> QED
    BY <1>1, <1>4, <2>1, <2>2
<1>6. Serving(n) /\ Serving(n)'
  BY <1>1 DEF Serving
<1> QED
  BY <1>1, <1>2, <1>3, <1>5, <1>6, StillServes

\* The ring is read.
LEMMA ReadServes ==
  ASSUME Jobs, StreamTypes, Visits, NEW n \in Stream, ServeRead(n), UNCHANGED typed
  PROVE  Served(n) /\ Held(n)' /\ stream[n].job \in JobId
<1>1. Held(n) /\ client' = client /\ owner' = owner /\ expected' = expected /\ stream[n].server \in {"poll", "read"}
  BY DEF Visits, ServeRead
<1>2. stream[n].job \in JobId /\ Serving(n) /\ Without(stream[n].down, "detached")
  BY <1>1 DEF Held, Serving
<1>3. /\ UNCHANGED jobVars
      /\ stream' \in [Stream -> Conn] /\ OthersKeep(n) /\ stream'[n].user = stream[n].user
      /\ stream'[n].server \in {"poll", "release"} /\ stream'[n].job = stream[n].job
      /\ ~Claims(n, stream[n].job) => stream'[n].down = Append(stream[n].down, [kind |-> "error"])
      /\ Claims(n, stream[n].job) =>
           \E o \in 0..MaxOutput, l \in 0..MaxRead :
                /\ WithChunk(stream[n].down, o, l) \in Seq(DownFrame)
                /\ \/ stream'[n].down = WithChunk(stream[n].down, o, l)
                   \/ stream'[n].down = Append(WithChunk(stream[n].down, o, l), [kind |-> "exit"])
  BY <1>2, ReadDoes
<1>4. PICK d \in Seq(DownFrame) : d = stream[n].down /\ Without(d, "detached")
  BY <1>2, ConnFields DEF StreamTypes
<1>5. Without(stream'[n].down, "detached")
  <2>1. PICK e \in DownFrame, g \in DownFrame : e = [kind |-> "error"] /\ g = [kind |-> "exit"]
    BY DownFrames
  <2>2. CASE ~Claims(n, stream[n].job)
    <3>1. e.kind # "detached"
      BY <2>1
    <3>2. Without(Append(d, e), "detached")
      BY <1>4, <3>1, WithoutFacts
    <3> QED
      BY <1>3, <1>4, <2>1, <2>2, <3>2
  <2>3. CASE Claims(n, stream[n].job)
    <3>1. PICK o \in 0..MaxOutput, l \in 0..MaxRead :
                /\ WithChunk(d, o, l) \in Seq(DownFrame)
                /\ stream'[n].down = WithChunk(d, o, l) \/ stream'[n].down = Append(WithChunk(d, o, l), g)
      BY <1>3, <1>4, <2>1, <2>3
    <3>2. PICK w \in Seq(DownFrame) : w = WithChunk(d, o, l)
      BY <3>1
    <3>3. Without(w, "detached")
      <4>1. CASE l = 0
        BY <1>4, <3>2, <4>1 DEF WithChunk
      <4>2. CASE l # 0
        <5>1. l \in 1..MaxRead
          BY <4>2, JobSets
        <5>2. PICK h \in DownFrame : h = [kind |-> "output", offset |-> o, len |-> l]
          BY <5>1, DownFrames
        <5>3. h.kind # "detached" /\ w = Append(d, h)
          BY <3>2, <4>2, <5>2 DEF WithChunk
        <5> QED
          BY <1>4, <5>3, WithoutFacts
      <4> QED
        BY <4>1, <4>2
    <3>4. g.kind # "detached"
      BY <2>1
    <3>5. Without(Append(w, g), "detached")
      BY <3>3, <3>4, WithoutFacts
    <3> QED
      BY <3>1, <3>2, <3>3, <3>5
  <2> QED
    BY <2>2, <2>3
<1>6. Jobs' /\ job' = job /\ listed' = listed
  BY <1>3, JobsStay
<1>7. Serving(n)'
  BY <1>3 DEF Serving
<1> QED
  BY <1>1, <1>2, <1>3, <1>5, <1>6, <1>7, StillServes

\* The handler sees that the client is gone.
LEMMA HangupServes ==
  ASSUME Jobs, StreamTypes, Visits, NEW n \in Stream, ServeHangup(n), UNCHANGED typed
  PROVE  Served(n) /\ Held(n)' /\ ~stream[n].user
<1>1. /\ stream[n].server = "poll" /\ ~stream[n].user
      /\ stream' \in [Stream -> Conn] /\ OthersKeep(n) /\ stream'[n].user = stream[n].user
      /\ stream'[n].server = "release" /\ stream'[n].job = stream[n].job
      /\ stream'[n].down = stream[n].down
  BY HangupDoes
<1>2. Held(n) /\ client' = client /\ owner' = owner /\ expected' = expected /\ UNCHANGED jobVars
  BY DEF Visits, ServeHangup
<1>3. Without(stream'[n].down, "detached") /\ Serving(n) /\ Serving(n)'
  BY <1>1, <1>2 DEF Held, Serving
<1>4. Jobs' /\ job' = job /\ listed' = listed
  BY <1>2, JobsStay
<1> QED
  BY <1>1, <1>2, <1>3, <1>4, StillServes

\* A step after which the handler is gone and the claim released.
LEMMA EndServes ==
  ASSUME Jobs, StreamTypes, Visits, NEW n \in Stream, Serving(n),
         job' = Released(n, stream[n].job), UNCHANGED <<listed, accepted, written, trail>>,
         stream' \in [Stream -> Conn], OthersKeep(n),
         stream[n].user => stream'[n].user /\ stream'[n].server = "gone",
         ~stream[n].user => stream'[n] = NoConn,
         client' = client, owner' = owner, expected' = expected, typed' = typed
  PROVE  Served(n) /\ Held(n)'
<1>1. Held(n) /\ stream[n].job \in JobId
  BY DEF Visits, Held
<1>2. PICK i \in JobId : i = stream[n].job
  BY <1>1
<1>3. /\ Jobs'
      /\ Claims(n, i) => job'[i].claimed = None
      /\ ~Claims(n, i) => job'[i] = job[i]
      /\ job'[i].ticket = job[i].ticket
      /\ \A j \in JobId : /\ Kept(j) /\ (j # i => job'[j] = job[j])
                          /\ job'[j].from = job[j].from /\ job'[j].worker = job[j].worker
  BY <1>2, ReleaseKeeps
<1>4. stream'[n].user = stream[n].user
  <2>1. stream[n].user \in BOOLEAN /\ stream'[n].user \in BOOLEAN
    BY ConnFields DEF StreamTypes
  <2>2. ~stream[n].user => ~stream'[n].user
    BY NoConnFields
  <2> QED
    BY <2>1, <2>2
<1>5. stream'[n].server \in {"gone", "none"} /\ (stream'[n].server = "gone" => stream'[n].user)
  BY NoConnFields
<1>6. Served(n)
  <2>1. ASSUME NEW j \in JobId
        PROVE  \/ job'[j].claimed = job[j].claimed
               \/ job[j].claimed = n /\ job'[j].claimed = None
    BY <1>3 DEF Claims
  <2>2. ASSUME NEW j \in JobId PROVE job'[j].ticket = job[j].ticket
    BY <1>3
  <2>3. listed' = listed /\ stream'[n].server # "claim"
    BY <1>5
  <2> QED
    BY <1>3, <1>4, <2>1, <2>2, <2>3 DEF Served, Kept
<1>7. ASSUME NEW j \in JobId, stream[n].user PROVE job'[j].claimed # n
  <2>1. i = listed /\ job[i].claimed = n /\ Claims(n, i)
    BY <1>1, <1>2, <1>7 DEF Held, Claims
  <2>2. job[j].claimed = n => j = i
    BY <1>1, <1>7, <2>1 DEF Held
  <2> QED
    BY <1>3, <2>1, <2>2, JobSets
<1>8. stream'[n].server # "gone" => Without(stream'[n].down, "detached")
  BY NoConnFields DEF Without
<1> QED
  BY <1>1, <1>4, <1>5, <1>6, <1>7, <1>8 DEF Held, Serving

\* So a step of the daemon's end keeps everything in its place.
LEMMA ServerVisits ==
  ASSUME Jobs, StreamTypes, Visits, NEW n \in Stream, ServerStep(n)
  PROVE  Served(n) /\ Visits'
<1>0. UNCHANGED typed
  BY DEF ServerStep
<1>1. Served(n) /\ Held(n)'
  <2>1. CASE ServeClaim(n)
    BY <1>0, <2>1, GrantServes, RefuseServes
  <2>2. CASE ServeInput(n)
    BY <1>0, <2>2, InputServes
  <2>3. CASE ServeClose(n)
    <3>1. /\ stream[n].server = "poll" /\ stream' \in [Stream -> Conn] /\ OthersKeep(n)
          /\ stream[n].user => stream'[n].user /\ stream'[n].server = "gone"
          /\ ~stream[n].user => stream'[n] = NoConn
      BY <2>3, CloseDoes
    <3>2. /\ job' = Released(n, stream[n].job) /\ UNCHANGED <<listed, accepted, written, trail>>
          /\ client' = client /\ owner' = owner /\ expected' = expected
      BY <2>3 DEF ServeClose
    <3>3. Serving(n)
      BY <3>1 DEF Serving
    <3> QED
      BY <1>0, <3>1, <3>2, <3>3, EndServes
  <2>4. CASE ServeRead(n)
    BY <1>0, <2>4, ReadServes
  <2>5. CASE ServeHangup(n)
    BY <1>0, <2>5, HangupServes
  <2>6. CASE ServeRelease(n)
    <3>1. /\ stream[n].server = "release" /\ stream' \in [Stream -> Conn] /\ OthersKeep(n)
          /\ stream[n].user => stream'[n].user /\ stream'[n].server = "gone"
          /\ ~stream[n].user => stream'[n] = NoConn
      BY <2>6, ReleaseDoes
    <3>2. /\ job' = Released(n, stream[n].job) /\ UNCHANGED <<listed, accepted, written, trail>>
          /\ client' = client /\ owner' = owner /\ expected' = expected
      BY <2>6 DEF ServeRelease
    <3>3. Serving(n)
      BY <3>1 DEF Serving
    <3> QED
      BY <1>0, <3>1, <3>2, <3>3, EndServes
  <2> QED
    BY <2>1, <2>2, <2>3, <2>4, <2>5, <2>6 DEF ServerStep
<1> QED
  BY <1>1, ServedKeeps

\* A client that is not away is the only one there, and its stream the only one
\* that is open at a client's end.
LEMMA OnlyOne ==
  ASSUME StreamTypes, Visits, NEW c \in Client, client[c].pc # "away"
  PROVE  /\ owner = c
         /\ \A b \in Client : b # c => client[b].pc = "away" /\ client[b].conn = None
         /\ \A m \in Stream : stream[m].user => m = client[c].conn
<1>1. owner = c
  BY DEF Visits, Placed
<1>2. ASSUME NEW b \in Client, b # c PROVE client[b].pc = "away" /\ client[b].conn = None
  BY <1>1, <1>2 DEF Visits, Placed, Busy
<1>3. ASSUME NEW m \in Stream, stream[m].user PROVE m = client[c].conn
  BY <1>1, <1>3 DEF Visits, Held
<1> QED
  BY <1>1, <1>2, <1>3

\* A client's end that is closed, or was.
Quieted(m) ==
  /\ ~stream'[m].user
  /\ \/ stream'[m] = NoConn
     \/ /\ stream'[m].server = stream[m].server /\ stream[m].server # "gone"
        /\ stream'[m].job = stream[m].job /\ stream'[m].down \in {stream[m].down, <<>>}

\* The job keeps its ticket and its claim.
Unmoved(j) == job'[j].ticket = job[j].ticket /\ job'[j].claimed = job[j].claimed /\ job'[j].worker = job[j].worker

\* A client without a stream comes, goes or stays, or a client loses its stream.
LEMMA DepartKeeps ==
  ASSUME Jobs, StreamTypes, Visits, NEW c \in Client,
         client' \in [Client -> ClientState], OthersStay(c),
         \A b \in Client : b # c => client[b].pc = "away",
         client'[c].pc \in {"prompt", "away"}, client'[c].pc = "prompt" => owner' = c,
         client'[c].conn = None, client'[c].seen \in {client[c].seen, None},
         \A m \in Stream : Quieted(m), \A j \in JobId : Unmoved(j), listed' \in {listed, None}
  PROVE  Visits'
<1>1. ASSUME NEW b \in Client PROVE Placed(b)'
  <2>1. Placed(b) /\ client[b] \in ClientState
    BY DEF Visits, StreamTypes
  <2>2. client[b].seen \in JobId \cup {None}
    BY <2>1, ClientFields
  <2>3. client'[b].seen \in {client[b].seen, None}
    BY DEF OthersStay
  <2>4. client'[b].seen # None => job'[client'[b].seen].worker # "none"
    BY <2>1, <2>2, <2>3 DEF Placed, Unmoved
  <2>5. ~Busy(b)' /\ client'[b].conn = None /\ (client'[b].pc # "away" => owner' = b)
    <3>1. CASE b = c
      BY <3>1 DEF Busy
    <3>2. CASE b # c
      <4>1. client'[b] = client[b] /\ client[b].pc = "away"
        BY <3>2 DEF OthersStay
      <4>2. ~Busy(b)
        BY <4>1 DEF Busy
      <4> QED
        BY <2>1, <4>1, <4>2 DEF Busy, Placed
    <3> QED
      BY <3>1, <3>2
  <2> QED
    BY <2>4, <2>5 DEF Placed
<1>2. ASSUME NEW m \in Stream PROVE Held(m)'
  <2>1. Held(m) /\ Quieted(m)
    BY DEF Visits
  <2>2. CASE stream'[m] = NoConn
    BY <2>2, NoConnFields DEF Held, Serving, Without
  <2>3. CASE ~(stream'[m] = NoConn)
    <3>1. /\ ~stream'[m].user /\ stream'[m].server = stream[m].server /\ stream[m].server # "gone"
          /\ stream'[m].job = stream[m].job /\ stream'[m].down \in {stream[m].down, <<>>}
      BY <2>1, <2>3 DEF Quieted
    <3>2. Without(stream'[m].down, "detached")
      BY <2>1, <3>1 DEF Held, Without
    <3>3. Serving(m)' => Serving(m)
      BY <3>1 DEF Serving
    <3> QED
      BY <2>1, <3>1, <3>2, <3>3 DEF Held
  <2> QED
    BY <2>2, <2>3
<1>3. (listed # None => job[listed].worker # "none")'
  BY DEF Visits, Unmoved, Jobs, JobTypes
<1> QED
  BY <1>1, <1>2, <1>3 DEF Visits

\* A client with a stream goes on with it.
LEMMA StayKeeps ==
  ASSUME Jobs, StreamTypes, Visits, NEW c \in Client, Busy(c), NEW n \in Stream, n = client[c].conn,
         client' \in [Client -> ClientState], OthersStay(c), owner' = owner,
         client'[c].pc \in {"relay", "detach"}, client'[c].conn = client[c].conn, client'[c].seen = client[c].seen,
         UNCHANGED jobVars, stream' \in [Stream -> Conn], OthersKeep(n), stream'[n].user = stream[n].user,
         stream'[n].server = stream[n].server, stream'[n].job = stream[n].job, stream[n].server # "claim",
         stream[n].server # "gone" => Without(stream'[n].down, "detached")
  PROVE  Visits'
<1>0. job' = job /\ listed' = listed
  BY JobsStay
<1>1. ASSUME NEW b \in Client PROVE Placed(b)'
  <2>0. Placed(b)
    BY DEF Visits
  <2>1. CASE b = c
    BY <1>0, <2>0, <2>1 DEF Placed, Busy
  <2>2. CASE b # c
    <3>0. client[c].pc # "away"
      BY DEF Busy
    <3>1. client'[b] = client[b] /\ client[b].pc = "away"
      BY <2>2, <3>0, OnlyOne DEF OthersStay
    <3> QED
      BY <1>0, <2>0, <3>1 DEF Placed, Busy
  <2> QED
    BY <2>1, <2>2
<1>2. ASSUME NEW m \in Stream PROVE Held(m)'
  <2>0. Held(m)
    BY DEF Visits
  <2>1. Serving(m)' <=> Serving(m)
    BY DEF Serving, OthersKeep
  <2>2. Claimable(m)' <=> Claimable(m)
    BY <1>0 DEF Claimable
  <2>3. \A b \in Client : client'[b].conn = client[b].conn
    BY DEF OthersStay
  <2>4. CASE m = n
    BY <1>0, <2>0, <2>1, <2>2, <2>3, <2>4 DEF Held
  <2>5. CASE m # n
    <3>1. stream'[m] = stream[m]
      BY <2>5 DEF OthersKeep
    <3>2. Without(stream[m].down, "detached") => Without(stream'[m].down, "detached")
      BY <3>1
    <3> QED
      BY <1>0, <2>0, <2>1, <2>2, <2>3, <3>1, <3>2 DEF Held
  <2> QED
    BY <2>4, <2>5
<1>3. (listed # None => job[listed].worker # "none")'
  BY <1>0 DEF Visits
<1> QED
  BY <1>1, <1>2, <1>3 DEF Visits

\* A client at the prompt gets a stream.
LEMMA OpenKeeps ==
  ASSUME Jobs, StreamTypes, Visits, NEW c \in Client, client[c].pc = "prompt", NEW n \in Stream,
         \A j \in JobId : job[j].claimed # n,
         client' \in [Client -> ClientState], OthersStay(c), owner' = owner,
         client'[c].pc = "open", client'[c].conn = n, client'[c].seen = listed',
         listed' \in JobId, job'[listed'].ticket = n, job'[listed'].claimed = None, job'[listed'].worker # "none",
         \A j \in JobId : j # listed' => job'[j] = job[j],
         stream' \in [Stream -> Conn], OthersKeep(n), stream'[n].user, stream'[n].server = "claim",
         stream'[n].down = <<>>
  PROVE  Visits'
<1>0. /\ owner = c
      /\ \A b \in Client : b # c => client[b].pc = "away" /\ client[b].conn = None
      /\ \A m \in Stream : ~stream[m].user
  <2>1. Placed(c)
    BY DEF Visits
  <2>2. client[c].conn = None
    BY <2>1 DEF Placed, Busy
  <2> QED
    BY <2>2, OnlyOne, JobSets
<1>1. ASSUME NEW b \in Client PROVE Placed(b)'
  <2>0. Placed(b) /\ client[b] \in ClientState
    BY DEF Visits, StreamTypes
  <2>1. CASE b = c
    BY <1>0, <2>0, <2>1 DEF Placed, Busy
  <2>2. CASE b # c
    <3>1. client'[b] = client[b] /\ client[b].pc = "away" /\ client[b].conn = None
      BY <1>0, <2>2 DEF OthersStay
    <3>2. client[b].seen \in JobId \cup {None}
      BY <2>0, ClientFields
    <3>3. client[b].seen # None => job'[client[b].seen].worker # "none"
      BY <2>0, <3>2 DEF Placed
    <3> QED
      BY <3>1, <3>3 DEF Placed, Busy
  <2> QED
    BY <2>1, <2>2
<1>2. ASSUME NEW m \in Stream PROVE Held(m)'
  <2>0. Held(m)
    BY DEF Visits
  <2>1. CASE m = n
    <3>1. Claimable(n)'
      BY JobSets DEF Claimable
    <3>2. \A j \in JobId : job'[j].claimed # n
      BY JobSets
    <3>3. Without(stream'[n].down, "detached")
      BY DEF Without
    <3> QED
      BY <1>0, <2>1, <3>1, <3>2, <3>3 DEF Held, Serving
  <2>2. CASE m # n
    <3>1. stream'[m] = stream[m] /\ ~stream[m].user
      BY <1>0, <2>2 DEF OthersKeep
    <3>2. Without(stream[m].down, "detached") => Without(stream'[m].down, "detached")
      BY <3>1
    <3>3. Serving(m)' => Serving(m)
      BY <3>1 DEF Serving
    <3> QED
      BY <2>0, <3>1, <3>2, <3>3 DEF Held
  <2> QED
    BY <2>1, <2>2
<1> QED
  BY <1>1, <1>2 DEF Visits

\* A worker's step leaves everything in its place.
LEMMA WorkerVisits ==
  ASSUME Jobs, StreamTypes, Visits, NEW j \in JobId, JobStep(j)
  PROVE  Jobs' /\ Worked(j) /\ StreamTypes' /\ Visits'
<1>1. Jobs' /\ Worked(j)
  BY WorkerKeeps DEF JobStep
<1>2. owner' = owner /\ stream' = stream /\ client' = client /\ typed' = typed /\ expected' = expected
  BY DEF JobStep
<1>3. \A i \in JobId : /\ job'[i].ticket = job[i].ticket /\ job'[i].claimed = job[i].claimed
                       /\ (job[i].worker # "none" => job'[i].worker # "none")
  BY <1>1 DEF Worked
<1>4. listed' = listed /\ listed \in JobId \cup {None}
  BY <1>1 DEF Worked, Jobs, JobTypes
<1>5. ASSUME NEW b \in Client PROVE Placed(b)'
  <2>1. Placed(b) /\ client[b].seen \in JobId \cup {None}
    BY ClientFields DEF Visits, StreamTypes
  <2> QED
    BY <1>2, <1>3, <1>4, <2>1 DEF Placed, Busy
<1>6. ASSUME NEW m \in Stream PROVE Held(m)'
  <2>1. Held(m)
    BY DEF Visits
  <2>2. Claimable(m) => Claimable(m)'
    BY <1>3, <1>4 DEF Claimable
  <2>3. Serving(m)' <=> Serving(m)
    BY <1>2 DEF Serving
  <2>4. \A i \in JobId : job'[i].claimed = job[i].claimed
    BY <1>3
  <2>5. stream[m].user /\ Serving(m) => listed \in JobId
    BY <2>1 DEF Held
  <2> QED
    BY <1>2, <1>4, <2>1, <2>2, <2>3, <2>4, <2>5 DEF Held, Without
<1>7. StreamTypes'
  BY <1>2 DEF StreamTypes
<1> QED
  BY <1>1, <1>3, <1>4, <1>5, <1>6, <1>7 DEF Visits

-----------------------------------------------------------------------------
(* What the client is shown.                                               *)

\* Frame f leads a reader of the ring from a to z.
Leads(f, a, z, lo) ==
  IF f.kind = "output" THEN Gap(a, f.offset, lo) /\ z = f.offset + f.len ELSE z = a

\* The frames lead a reader who is at a, one after the other, to z; the ring
\* now starts at lo and ends at hi.
Path(p, d, a, z, lo) ==
  p[0] = a /\ p[Len(d)] = z /\ \A k \in 1..Len(d) : Leads(d[k], p[k - 1], p[k], lo)

Led(d, a, z, lo, hi) == \E p \in [0..Len(d) -> 0..hi] : Path(p, d, a, z, lo)

\* A reader who is led is within the ring's end.
LEMMA LedWithin ==
  ASSUME NEW d \in Seq(DownFrame), NEW hi \in Nat, NEW lo \in Nat, NEW a, NEW z, Led(d, a, z, lo, hi)
  PROVE  a \in 0..hi /\ z \in 0..hi
<1>1. PICK p \in [0..Len(d) -> 0..hi] : Path(p, d, a, z, lo)
  BY DEF Led
<1>2. p[0] \in 0..hi /\ p[Len(d)] \in 0..hi
  <2>1. 0 \in 0..Len(d) /\ Len(d) \in 0..Len(d)
    OBVIOUS
  <2> QED
    BY <2>1
<1> QED
  BY <1>1, <1>2 DEF Path

\* A frame without output leads nowhere.
LEMMA LedNowhere ==
  ASSUME NEW f \in DownFrame, f.kind # "output", NEW hi \in Nat, NEW lo \in Nat, NEW a \in 0..hi
  PROVE  Led(<<f>>, a, a, lo, hi)
<1> DEFINE p == [k \in 0..1 |-> a]
<1>1. Len(<<f>>) = 1 /\ <<f>>[1] = f
  OBVIOUS
<1>2. p \in [0..1 -> 0..hi] /\ p[0] = a /\ p[1] = a
  OBVIOUS
<1> HIDE DEF p
<1>3. ASSUME NEW k \in 1..1 PROVE Leads(f, p[k - 1], p[k], lo)
  <2>1. k = 1 /\ k - 1 = 0
    OBVIOUS
  <2> QED
    BY <1>2, <2>1 DEF Leads
<1>4. Path(p, <<f>>, a, a, lo)
  <2>1. ASSUME NEW k \in 1..1 PROVE <<f>>[k] = f
    OBVIOUS
  <2> QED
    BY <1>1, <1>2, <1>3, <2>1 DEF Path
<1> QED
  BY <1>1, <1>2, <1>4 DEF Led

\* One more frame leads on from where the others do.
LEMMA LedOn ==
  ASSUME NEW d \in Seq(DownFrame), NEW f \in DownFrame, NEW hi \in Nat, NEW lo \in Nat, NEW a, NEW y,
         Led(d, a, y, lo, hi), NEW z \in 0..hi, Leads(f, y, z, lo)
  PROVE  Led(Append(d, f), a, z, lo, hi)
<1>1. PICK p \in [0..Len(d) -> 0..hi] : Path(p, d, a, y, lo)
  BY DEF Led
<1>2. PICK n \in Nat : n = Len(d)
  OBVIOUS
<1>3. PICK e \in Seq(DownFrame) : e = Append(d, f)
  OBVIOUS
<1>4. Len(e) = n + 1 /\ e[n + 1] = f /\ \A k \in 1..n : e[k] = d[k]
  BY <1>2, <1>3
<1> DEFINE q == [k \in 0..(n + 1) |-> IF k = n + 1 THEN z ELSE p[k]]
<1>5. q \in [0..(n + 1) -> 0..hi] /\ q[n + 1] = z /\ \A k \in 0..n : q[k] = p[k]
  BY <1>1, <1>2
<1> HIDE DEF q
<1>6. q[0] = a /\ q[n] = y
  <2>1. 0 \in 0..n /\ n \in 0..n
    OBVIOUS
  <2> QED
    BY <1>1, <1>2, <1>5, <2>1 DEF Path
<1>7. ASSUME NEW k \in 1..(n + 1) PROVE Leads(e[k], q[k - 1], q[k], lo)
  <2>1. CASE k = n + 1
    <3>1. k - 1 = n
      BY <2>1
    <3> QED
      BY <1>4, <1>5, <1>6, <2>1, <3>1
  <2>2. CASE k # n + 1
    <3>1. k \in 1..n /\ k \in 0..n /\ k - 1 \in 0..n
      BY <2>2
    <3>2. Leads(d[k], p[k - 1], p[k], lo)
      BY <1>1, <1>2, <3>1 DEF Path
    <3> QED
      BY <1>4, <1>5, <3>1, <3>2
  <2> QED
    BY <2>1, <2>2
<1>8. Path(q, e, a, z, lo)
  BY <1>4, <1>5, <1>6, <1>7 DEF Path
<1>9. Led(e, a, z, lo, hi)
  BY <1>4, <1>5, <1>8 DEF Led
<1> QED
  BY <1>3, <1>9

\* The first frame leads to where the others lead on from.
LEMMA LedOff ==
  ASSUME NEW d \in Seq(DownFrame), d # <<>>, NEW hi \in Nat, NEW lo \in Nat, NEW a, NEW z, Led(d, a, z, lo, hi)
  PROVE  \E y \in 0..hi : Leads(Head(d), a, y, lo) /\ Led(Tail(d), y, z, lo, hi)
<1>1. PICK p \in [0..Len(d) -> 0..hi] : Path(p, d, a, z, lo)
  BY DEF Led
<1>2. PICK n \in Nat : n + 1 = Len(d)
  <2>1. Len(d) \in Nat /\ Len(d) # 0
    OBVIOUS
  <2> QED
    BY <2>1
<1>3. PICK e \in Seq(DownFrame) : e = Tail(d)
  OBVIOUS
<1>4. Len(e) = n /\ Head(d) = d[1] /\ \A k \in 1..n : e[k] = d[k + 1]
  BY <1>2, <1>3
<1> DEFINE q == [k \in 0..n |-> p[k + 1]]
<1>5. q \in [0..n -> 0..hi] /\ \A k \in 0..n : q[k] = p[k + 1]
  <2>1. ASSUME NEW k \in 0..n PROVE p[k + 1] \in 0..hi
    <3>1. k + 1 \in 0..Len(d)
      BY <1>2
    <3> QED
      BY <1>1, <3>1
  <2> QED
    BY <2>1
<1> HIDE DEF q
<1>6. q[0] = p[1] /\ q[n] = z /\ q[0] \in 0..hi
  <2>1. 0 \in 0..n /\ n \in 0..n /\ 0 + 1 = 1
    OBVIOUS
  <2>2. p[n + 1] = z
    BY <1>1, <1>2 DEF Path
  <2> QED
    BY <1>5, <2>1, <2>2
<1>7. ASSUME NEW k \in 1..n PROVE Leads(e[k], q[k - 1], q[k], lo)
  <2>1. k + 1 \in 1..Len(d) /\ k \in 0..n /\ k - 1 \in 0..n /\ (k - 1) + 1 = k /\ (k + 1) - 1 = k
    BY <1>2
  <2>2. Leads(d[k + 1], p[(k + 1) - 1], p[k + 1], lo)
    BY <1>1, <2>1 DEF Path
  <2>3. q[k] = p[k + 1] /\ q[k - 1] = p[k]
    BY <1>5, <2>1
  <2> QED
    BY <1>4, <2>1, <2>2, <2>3
<1>8. Path(q, e, q[0], z, lo)
  BY <1>4, <1>6, <1>7 DEF Path
<1>9. Led(e, q[0], z, lo, hi)
  BY <1>4, <1>5, <1>8 DEF Led
<1>10. Leads(Head(d), a, q[0], lo)
  <2>1. 1 \in 1..Len(d) /\ 1 - 1 = 0
    BY <1>2
  <2>2. Leads(d[1], p[0], p[1], lo) /\ p[0] = a
    BY <1>1, <2>1 DEF Path
  <2> QED
    BY <1>4, <1>6, <2>2
<1> QED
  BY <1>3, <1>6, <1>9, <1>10

\* The ring turns over.
LEMMA LedStill ==
  ASSUME NEW d \in Seq(DownFrame), NEW a, NEW z,
         NEW lo \in Nat, NEW hi \in Nat, NEW lo2 \in Nat, NEW hi2 \in Nat, lo <= lo2, hi <= hi2, Led(d, a, z, lo, hi)
  PROVE  Led(d, a, z, lo2, hi2)
<1>1. PICK p \in [0..Len(d) -> 0..hi] : Path(p, d, a, z, lo)
  BY DEF Led
<1>2. p \in [0..Len(d) -> 0..hi2]
  BY <1>1
<1>3. ASSUME NEW k \in 1..Len(d) PROVE Leads(d[k], p[k - 1], p[k], lo2)
  <2>1. Leads(d[k], p[k - 1], p[k], lo)
    BY <1>1 DEF Path
  <2>2. d[k] \in DownFrame
    OBVIOUS
  <2>3. d[k].kind = "output" => d[k].offset \in Nat
    BY <2>2, DownFrames, JobSets
  <2> QED
    BY <2>1, <2>3 DEF Leads, Gap
<1>4. Path(p, d, a, z, lo2)
  BY <1>1, <1>3 DEF Path
<1> QED
  BY <1>2, <1>4 DEF Led

Watching(c) == client[c].pc \in {"open", "relay"}

\* What was shown ends where the client is, and the frames in flight lead from
\* there to where the daemon is.  What a client remembers of the listed job
\* while it is not watching is where it was then.
Follows(c) ==
  /\ Watching(c) =>
       /\ Gap(expected[c], client[c].cursor, job[listed].replay_start)
       /\ stream[client[c].conn].server = "claim" => client[c].cursor = job[listed].from
       /\ stream[client[c].conn].server # "claim" =>
            Led(stream[client[c].conn].down, client[c].cursor, stream[client[c].conn].cursor,
                job[listed].replay_start, job[listed].replay_end)
  /\ ~Watching(c) /\ client[c].saved # None /\ listed # None /\ client[c].seen = listed =>
       /\ Gap(expected[c], client[c].saved, job[listed].replay_start)
       /\ client[c].saved <= job[listed].replay_end

\* A client is not refused the stream, and the exit is the last it reads,
\* after all the output.
Ends(n) ==
  stream[n].user =>
    /\ Without(stream[n].down, "refused")
    /\ \A k \in DOMAIN stream[n].down : stream[n].down[k].kind = "exit" =>
         /\ k = Len(stream[n].down) /\ stream[n].server \in {"release", "gone"}
         /\ stream[n].cursor = job[listed].replay_end /\ job[listed].exit_status # None

Shows == (\A c \in Client : Follows(c)) /\ (\A n \in Stream : Ends(n))

Inv == Jobs /\ StreamTypes /\ Visits /\ Shows

\* No step of a kind that adds input.
UpKept(m) ==
  \/ stream'[m].up = <<>>
  \/ /\ stream'[m].server = "claim" => stream[m].server = "claim"
     /\ stream'[m].up = stream[m].up \/ stream'[m].up = Append(stream[m].up, [kind |-> "close"])

Unfed ==
  /\ typed' = typed
  /\ \A j \in JobId : Fed(j)' = Fed(j) /\ written'[j] = written[j]
  /\ \A n \in Stream, j \in JobId : Claims(n, j)' => Claims(n, j)
  /\ \A n \in Stream : UpKept(n)

\* The rings and the queues are as they were; the job that is listed is the same,
\* or new, or there is none.
Rested ==
  /\ Jobs'
  /\ \A j \in JobId : Kept(j)
  /\ listed' = listed \/ listed' = None \/ (listed' \in JobId /\ job[listed'] = NoJob)

\* A client that does not watch remembers the same.
LEMMA AwayFollows ==
  ASSUME Inv, NEW b \in Client, ~Watching(b), ~Watching(b)', Rested,
         client'[b].saved \in {client[b].saved, None}, client'[b].seen \in {client[b].seen, None},
         expected'[b] = expected[b] \/ client'[b].saved = None
  PROVE  Follows(b)'
<1>1. Follows(b) /\ Placed(b) /\ client[b].seen \in JobId \cup {None} /\ JobTypes
  BY ClientFields DEF Inv, Shows, Visits, StreamTypes, Jobs
<1>2. SUFFICES ASSUME client'[b].saved # None, listed' # None, client'[b].seen = listed'
               PROVE  /\ Gap(expected'[b], client'[b].saved, job'[listed'].replay_start)
                      /\ client'[b].saved <= job'[listed'].replay_end
  BY DEF Follows
<1>3. client'[b].saved = client[b].saved /\ client'[b].seen = client[b].seen /\ expected'[b] = expected[b]
  BY <1>2
<1>4. client[b].seen # None /\ client[b].seen \in JobId
  BY <1>1, <1>2, <1>3
<1>5. listed' = listed
  BY <1>1, <1>2, <1>3, <1>4, NoJobFields DEF Placed, Rested
<1>6. job'[listed].replay_start = job[listed].replay_start /\ job'[listed].replay_end = job[listed].replay_end
  BY <1>2, <1>3, <1>4, <1>5 DEF Rested, Kept
<1> QED
  BY <1>1, <1>2, <1>3, <1>5, <1>6 DEF Follows

\* What the rest of a departure does.
LEMMA DepartShows ==
  ASSUME Inv, NEW c \in Client, OthersStay(c), Rested, \A m \in Stream : Quieted(m), ~Watching(c)', Follows(c)',
         \A b \in Client : b # c => expected'[b] = expected[b] /\ client[b].pc = "away"
  PROVE  Shows'
<1>1. ASSUME NEW b \in Client, b # c PROVE Follows(b)'
  <2>1. client'[b] = client[b] /\ client[b].pc = "away" /\ expected'[b] = expected[b]
    BY <1>1 DEF OthersStay
  <2>2. ~Watching(b) /\ ~Watching(b)'
    BY <2>1 DEF Watching
  <2> QED
    BY <2>1, <2>2, AwayFollows
<1>2. ASSUME NEW m \in Stream PROVE Ends(m)'
  BY DEF Quieted, Ends
<1> QED
  BY <1>1, <1>2 DEF Shows

\* A step that rests the jobs feeds nothing.
LEMMA RestedUnfed ==
  ASSUME Jobs, Rested, typed' = typed, \A n \in Stream : UpKept(n),
         \A j \in JobId : job'[j].claimed \in {job[j].claimed, None}
  PROVE  Unfed
<1>1. ASSUME NEW j \in JobId PROVE Fed(j)' = Fed(j) /\ written'[j] = written[j]
  BY DEF Rested, Kept, Fed
<1>2. ASSUME NEW n \in Stream, NEW j \in JobId, Claims(n, j)' PROVE Claims(n, j)
  <2>1. listed' = j /\ job'[j].claimed = n
    BY <1>2 DEF Claims
  <2>2. job[j].claimed = n
    BY <2>1, JobSets
  <2>3. listed = j \/ job[j] = NoJob
    BY <2>1, JobSets DEF Rested
  <2> QED
    BY <2>2, <2>3, NoJobFields, JobSets DEF Claims
<1> QED
  BY <1>1, <1>2 DEF Unfed

\* A client drops its stream.
LEMMA DroppedQuiets ==
  ASSUME StreamTypes, Visits, NEW c \in Client, Busy(c), stream' = Dropped(client[c].conn)
  PROVE  stream' \in [Stream -> Conn] /\ \A m \in Stream : Quieted(m) /\ UpKept(m)
<1>1. PICK n \in Stream : n = client[c].conn
  BY DEF Visits, Placed
<1>2. /\ stream' \in [Stream -> Conn] /\ OthersKeep(n) /\ ~stream'[n].user
      /\ stream[n].server \in {"none", "gone"} => stream'[n] = NoConn
      /\ stream[n].server \notin {"none", "gone"} =>
              /\ stream'[n].server = stream[n].server /\ stream'[n].job = stream[n].job
              /\ stream'[n].down = <<>>
              /\ stream'[n].up = Append(stream[n].up, [kind |-> "close"])
  BY <1>1, DroppedDoes
<1>3. Quieted(n) /\ UpKept(n)
  BY <1>2, NoConnFields DEF Quieted, UpKept
<1>4. ASSUME NEW m \in Stream, m # n PROVE Quieted(m) /\ UpKept(m)
  <2>1. stream'[m] = stream[m] /\ ~stream[m].user
    BY <1>1, <1>2, <1>4, OnlyOne DEF OthersKeep, Busy
  <2>2. stream[m].server # "gone"
    BY <2>1 DEF Visits, Held
  <2> QED
    BY <2>1, <2>2 DEF Quieted, UpKept
<1> QED
  BY <1>2, <1>3, <1>4

\* A client dies at its stream.
LEMMA DiedQuiets ==
  ASSUME StreamTypes, Visits, NEW c \in Client, Busy(c),
         stream' = [stream EXCEPT ![client[c].conn] = Settled([@ EXCEPT !.user = FALSE, !.down = <<>>])]
  PROVE  stream' \in [Stream -> Conn] /\ \A m \in Stream : Quieted(m) /\ UpKept(m)
<1>1. PICK n \in Stream : n = client[c].conn
  BY DEF Visits, Placed
<1>2. /\ stream' \in [Stream -> Conn] /\ OthersKeep(n) /\ ~stream'[n].user
      /\ stream[n].server \in {"none", "gone"} => stream'[n] = NoConn
      /\ stream[n].server \notin {"none", "gone"} =>
              /\ stream'[n].server = stream[n].server /\ stream'[n].job = stream[n].job
              /\ stream'[n].down = <<>> /\ stream'[n].up = stream[n].up
  BY <1>1, DiedDoes
<1>3. Quieted(n) /\ UpKept(n)
  BY <1>2, NoConnFields DEF Quieted, UpKept
<1>4. ASSUME NEW m \in Stream, m # n PROVE Quieted(m) /\ UpKept(m)
  <2>1. stream'[m] = stream[m] /\ ~stream[m].user
    BY <1>1, <1>2, <1>4, OnlyOne DEF OthersKeep, Busy
  <2>2. stream[m].server # "gone"
    BY <2>1 DEF Visits, Held
  <2> QED
    BY <2>1, <2>2 DEF Quieted, UpKept
<1> QED
  BY <1>2, <1>3, <1>4

\* Nobody has a stream.
LEMMA NoneQuiets ==
  ASSUME StreamTypes, Visits, stream' = stream, \A m \in Stream : ~stream[m].user
  PROVE  stream' \in [Stream -> Conn] /\ \A m \in Stream : Quieted(m) /\ UpKept(m)
<1>1. ASSUME NEW m \in Stream PROVE Quieted(m) /\ UpKept(m)
  <2>1. stream'[m] = stream[m] /\ ~stream[m].user /\ stream[m].server # "gone"
    BY DEF Visits, Held
  <2> QED
    BY <2>1 DEF Quieted, UpKept
<1> QED
  BY <1>1 DEF StreamTypes

\* The two things a departure does to the jobs.
LEMMA TerminateRests ==
  ASSUME Jobs, terminate
  PROVE  Rested /\ listed' = None /\ \A j \in JobId : Unmoved(j)
BY TerminateKeeps DEF Rested, Unmoved

\* Or it does nothing.
LEMMA SameRests ==
  ASSUME Jobs, UNCHANGED jobVars
  PROVE  Rested /\ listed' = listed /\ \A j \in JobId : Unmoved(j)
BY JobsStay DEF Rested, Unmoved, Kept

\* A departure keeps the invariant.
LEMMA DepartInv ==
  ASSUME Inv, NEW c \in Client, client' \in [Client -> ClientState], OthersStay(c),
         \A b \in Client : b # c => expected'[b] = expected[b] /\ client[b].pc = "away",
         client'[c].pc \in {"prompt", "away"}, client'[c].pc = "prompt" => owner' = c,
         client'[c].conn = None, client'[c].seen \in {client[c].seen, None},
         stream' \in [Stream -> Conn], \A m \in Stream : Quieted(m) /\ UpKept(m),
         Rested, \A j \in JobId : Unmoved(j), listed' \in {listed, None},
         owner' \in Client \cup {None}, expected' \in [Client -> 0..MaxOutput], typed' = typed,
         Follows(c)'
  PROVE  Inv' /\ Unfed
<1>1. Jobs /\ StreamTypes /\ Visits /\ Jobs'
  BY DEF Inv, Rested
<1>2. StreamTypes'
  BY <1>1 DEF StreamTypes
<1>3. Visits'
  BY <1>1, DepartKeeps
<1>4. ~Watching(c)'
  BY DEF Watching
<1>5. Shows'
  BY <1>4, DepartShows
<1>6. \A j \in JobId : job'[j].claimed \in {job[j].claimed, None}
  BY DEF Unmoved
<1>7. Unfed
  BY <1>1, <1>6, RestedUnfed
<1> QED
  BY <1>1, <1>2, <1>3, <1>5, <1>7 DEF Inv

\* No client has a stream while the session has no owner, or one at the prompt.
LEMMA NoStreams ==
  ASSUME Inv, NEW c \in Client, owner = None \/ client[c].pc = "prompt"
  PROVE  /\ \A m \in Stream : ~stream[m].user
         /\ \A b \in Client : b # c => client[b].pc = "away"
         /\ client[c].pc = "prompt" => owner = c
<1>1. StreamTypes /\ Visits /\ Placed(c)
  BY DEF Inv, Visits
<1>2. CASE owner = None
  <2>1. \A b \in Client : client[b].pc = "away"
    BY <1>1, <1>2, JobSets DEF Visits, Placed
  <2>2. \A m \in Stream : ~stream[m].user
    BY <1>1, <1>2, JobSets DEF Visits, Held
  <2> QED
    BY <2>1, <2>2
<1>3. CASE client[c].pc = "prompt"
  <2>1. client[c].conn = None
    BY <1>1, <1>3 DEF Placed, Busy
  <2>2. client[c].pc # "away"
    BY <1>3
  <2>3. /\ owner = c
        /\ \A b \in Client : b # c => client[b].pc = "away" /\ client[b].conn = None
        /\ \A m \in Stream : stream[m].user => m = client[c].conn
    BY <1>1, <2>2, OnlyOne
  <2> QED
    BY <2>1, <2>3, JobSets
<1> QED
  BY <1>2, <1>3

\* A client attaches to the session.
LEMMA AttachSessionKeeps ==
  ASSUME Inv, NEW c \in Client, AttachSession(c), typed' = typed
  PROVE  Inv' /\ Unfed
<1>1. Jobs /\ StreamTypes /\ Visits
  BY DEF Inv
<1>2. /\ client[c].pc = "away" /\ owner = None /\ owner' = c /\ UNCHANGED jobVars /\ stream' = stream
      /\ expected' = expected
  BY DEF AttachSession
<1>3. /\ client' \in [Client -> ClientState] /\ OthersStay(c)
      /\ ClientIs(c, "prompt", client[c].conn, client[c].cursor, client[c].saved, client[c].seen)
  BY <1>1, AttachSessionClient
<1>4. Placed(c) /\ client[c].conn = None
  BY <1>1, <1>2 DEF Visits, Placed, Busy
<1>5. (\A m \in Stream : ~stream[m].user) /\ (\A b \in Client : b # c => client[b].pc = "away")
  BY <1>2, NoStreams
<1>6. stream' \in [Stream -> Conn] /\ \A m \in Stream : Quieted(m) /\ UpKept(m)
  BY <1>1, <1>2, <1>5, NoneQuiets
<1>7. Rested /\ listed' = listed /\ \A j \in JobId : Unmoved(j)
  BY <1>1, <1>2, SameRests
<1>8. Follows(c)'
  <2>1. ~Watching(c) /\ ~Watching(c)'
    BY <1>2, <1>3 DEF Watching, ClientIs
  <2> QED
    BY <1>2, <1>3, <1>7, <2>1, AwayFollows DEF ClientIs
<1>9. expected' \in [Client -> 0..MaxOutput]
  BY <1>1, <1>2 DEF StreamTypes
<1> QED
  BY <1>2, <1>3, <1>4, <1>5, <1>6, <1>7, <1>8, <1>9, DepartInv DEF ClientIs

\* A client leaves the session.
LEMMA LeaveSessionKeeps ==
  ASSUME Inv, NEW c \in Client, LeaveSession(c), typed' = typed
  PROVE  Inv' /\ Unfed
<1>1. Jobs /\ StreamTypes /\ Visits
  BY DEF Inv
<1>2. /\ client[c].pc = "prompt" /\ owner' = None /\ UNCHANGED jobVars /\ stream' = stream
      /\ expected' = expected
  BY DEF LeaveSession
<1>3. /\ client' \in [Client -> ClientState] /\ OthersStay(c)
      /\ ClientIs(c, "away", client[c].conn, client[c].cursor, client[c].saved, client[c].seen)
  BY <1>1, LeaveSessionClient
<1>4. Placed(c) /\ client[c].conn = None
  BY <1>1, <1>2 DEF Visits, Placed, Busy
<1>5. (\A m \in Stream : ~stream[m].user) /\ (\A b \in Client : b # c => client[b].pc = "away")
  BY <1>2, NoStreams
<1>6. stream' \in [Stream -> Conn] /\ \A m \in Stream : Quieted(m) /\ UpKept(m)
  BY <1>1, <1>2, <1>5, NoneQuiets
<1>7. Rested /\ listed' = listed /\ \A j \in JobId : Unmoved(j)
  BY <1>1, <1>2, SameRests
<1>8. Follows(c)'
  <2>1. ~Watching(c) /\ ~Watching(c)'
    BY <1>2, <1>3 DEF Watching, ClientIs
  <2> QED
    BY <1>2, <1>3, <1>7, <2>1, AwayFollows DEF ClientIs
<1>9. expected' \in [Client -> 0..MaxOutput]
  BY <1>1, <1>2 DEF StreamTypes
<1> QED
  BY <1>2, <1>3, <1>4, <1>5, <1>6, <1>7, <1>8, <1>9, DepartInv DEF ClientIs

\* A client stops the job from the prompt.
LEMMA StopCommandKeeps ==
  ASSUME Inv, NEW c \in Client, StopCommand(c), typed' = typed
  PROVE  Inv' /\ Unfed
<1>1. Jobs /\ StreamTypes /\ Visits
  BY DEF Inv
<1>2. /\ client[c].pc = "prompt" /\ owner' = owner /\ terminate /\ stream' = stream
      /\ expected' = expected
  BY DEF StopCommand
<1>3. /\ client' \in [Client -> ClientState] /\ OthersStay(c)
      /\ ClientIs(c, client[c].pc, client[c].conn, client[c].cursor, None, client[c].seen)
  BY <1>1, StopCommandClient
<1>4. Placed(c) /\ client[c].conn = None
  BY <1>1, <1>2 DEF Visits, Placed, Busy
<1>5. (\A m \in Stream : ~stream[m].user) /\ (\A b \in Client : b # c => client[b].pc = "away") /\ owner = c
  BY <1>2, NoStreams
<1>6. stream' \in [Stream -> Conn] /\ \A m \in Stream : Quieted(m) /\ UpKept(m)
  BY <1>1, <1>2, <1>5, NoneQuiets
<1>7. Rested /\ listed' = None /\ \A j \in JobId : Unmoved(j)
  BY <1>1, <1>2, TerminateRests
<1>8. Follows(c)'
  <2>1. ~Watching(c) /\ ~Watching(c)'
    BY <1>2, <1>3 DEF Watching, ClientIs
  <2> QED
    BY <1>2, <1>3, <1>7, <2>1, AwayFollows DEF ClientIs
<1>9. expected' \in [Client -> 0..MaxOutput]
  BY <1>1, <1>2 DEF StreamTypes
<1> QED
  BY <1>2, <1>3, <1>4, <1>5, <1>6, <1>7, <1>8, <1>9, DepartInv DEF ClientIs

\* Where a client with a stream is.
LEMMA AtStream ==
  ASSUME Inv, NEW c \in Client, Busy(c)
  PROVE  /\ client[c].conn \in Stream /\ stream[client[c].conn].user /\ listed \in JobId /\ client[c].seen = listed
         /\ client[c].pc # "open" => stream[client[c].conn].server # "claim"
         /\ owner = c /\ \A b \in Client : b # c => client[b].pc = "away"
         /\ client[c].pc # "away" /\ stream[client[c].conn] \in Conn /\ client[c] \in ClientState
         /\ stream[client[c].conn].down \in Seq(DownFrame) /\ client[c].cursor \in 0..MaxOutput
         /\ Held(client[c].conn) /\ Ends(client[c].conn) /\ Follows(c)
         /\ job[listed].replay_start \in Nat /\ job[listed].replay_end \in Nat
<1>1. Placed(c) /\ StreamTypes /\ Visits /\ Jobs /\ JobTypes
  BY DEF Inv, Visits, Jobs
<1>2. /\ client[c].conn \in Stream /\ stream[client[c].conn].user /\ listed \in JobId /\ client[c].seen = listed
      /\ client[c].pc # "open" => stream[client[c].conn].server # "claim"
  BY <1>1 DEF Placed
<1>3. client[c].pc # "away"
  BY DEF Busy
<1>4. owner = c /\ \A b \in Client : b # c => client[b].pc = "away"
  BY <1>1, <1>3, OnlyOne
<1>5. stream[client[c].conn] \in Conn /\ client[c] \in ClientState
  BY <1>1, <1>2 DEF StreamTypes
<1>6. stream[client[c].conn].down \in Seq(DownFrame) /\ client[c].cursor \in 0..MaxOutput
  BY <1>5, ConnFields, ClientFields
<1>7. job[listed].replay_start \in Nat /\ job[listed].replay_end \in Nat
  BY <1>1, <1>2, JobFields
<1>8. Held(client[c].conn) /\ Ends(client[c].conn) /\ Follows(c)
  BY <1>1, <1>2 DEF Inv, Visits, Shows
<1> QED
  BY <1>2, <1>3, <1>4, <1>5, <1>6, <1>7, <1>8

\* A watching client is where the ring has been.
LEMMA WatchesWithin ==
  ASSUME Inv, NEW c \in Client, client[c].pc = "relay"
  PROVE  /\ Gap(expected[c], client[c].cursor, job[listed].replay_start)
         /\ client[c].cursor <= job[listed].replay_end
<1>1. Busy(c) /\ Watching(c)
  BY DEF Busy, Watching
<1>2. /\ stream[client[c].conn].down \in Seq(DownFrame) /\ Follows(c)
      /\ job[listed].replay_start \in Nat /\ job[listed].replay_end \in Nat
      /\ stream[client[c].conn].server # "claim"
  BY <1>1, AtStream
<1>3. PICK lo \in Nat, hi \in Nat, d \in Seq(DownFrame),
           a \in {client[c].cursor}, z \in {stream[client[c].conn].cursor} :
        /\ lo = job[listed].replay_start /\ hi = job[listed].replay_end /\ d = stream[client[c].conn].down
        /\ a = client[c].cursor /\ z = stream[client[c].conn].cursor
  BY <1>2
<1>4. Led(d, a, z, lo, hi) /\ Gap(expected[c], a, lo)
  BY <1>1, <1>2, <1>3 DEF Follows
<1>5. a \in 0..hi
  BY <1>4, LedWithin
<1> QED
  BY <1>3, <1>4, <1>5

\* The claim of a client that is there is not refused.
LEMMA NotRefused ==
  ASSUME Inv, NEW c \in Client, ClaimFailed(c)
  PROVE  FALSE
<1>1. Busy(c) /\ Down(c) # <<>> /\ Head(Down(c)).kind = "refused"
  BY DEF ClaimFailed, Busy
<1>2. /\ stream[client[c].conn].down \in Seq(DownFrame) /\ Ends(client[c].conn) /\ stream[client[c].conn].user
  BY <1>1, AtStream
<1>3. PICK d \in Seq(DownFrame) : d = Down(c) /\ d # <<>> /\ Without(d, "refused")
  BY <1>1, <1>2 DEF Ends, Down
<1>4. 1 \in DOMAIN d /\ Head(d) = d[1]
  BY <1>3
<1> QED
  BY <1>1, <1>3, <1>4 DEF Without

\* The relay ends.
LEMMA RelayEndsKeeps ==
  ASSUME Inv, NEW c \in Client, RelayEnds(c), typed' = typed
  PROVE  Inv' /\ Unfed
<1>1. Jobs /\ StreamTypes /\ Visits
  BY DEF Inv
<1>2. /\ client[c].pc = "relay" /\ owner' = owner /\ UNCHANGED jobVars /\ stream' = Dropped(client[c].conn)
      /\ expected' = expected
  BY DEF RelayEnds
<1>3. /\ client' \in [Client -> ClientState] /\ OthersStay(c)
      /\ ClientIs(c, "prompt", None, client[c].cursor, client[c].cursor, client[c].seen)
  BY <1>1, RelayEndsClient
<1>4. Busy(c)
  BY <1>2 DEF Busy
<1>5. owner = c /\ (\A b \in Client : b # c => client[b].pc = "away") /\ listed \in JobId
  BY <1>4, AtStream
<1>6. stream' \in [Stream -> Conn] /\ \A m \in Stream : Quieted(m) /\ UpKept(m)
  BY <1>1, <1>2, <1>4, DroppedQuiets
<1>7. Rested /\ listed' = listed /\ \A j \in JobId : Unmoved(j)
  BY <1>1, <1>2, SameRests
<1>8. Follows(c)'
  <2>1. ~Watching(c)'
    BY <1>3 DEF Watching, ClientIs
  <2>2. /\ Gap(expected[c], client[c].cursor, job[listed].replay_start)
        /\ client[c].cursor <= job[listed].replay_end
    BY <1>2, WatchesWithin
  <2>3. job' = job
    BY <1>1, <1>2, JobsStay
  <2> QED
    BY <1>2, <1>3, <1>7, <2>1, <2>2, <2>3 DEF Follows, ClientIs
<1>9. expected' \in [Client -> 0..MaxOutput]
  BY <1>1, <1>2 DEF StreamTypes
<1> QED
  BY <1>2, <1>3, <1>5, <1>6, <1>7, <1>8, <1>9, DepartInv DEF ClientIs

\* The detachment ends, and what was asked for follows.
LEMMA DetachEndsKeeps ==
  ASSUME Inv, NEW c \in Client, DetachEnds(c), typed' = typed
  PROVE  Inv' /\ Unfed
<1>1. Jobs /\ StreamTypes /\ Visits
  BY DEF Inv
<1>2. /\ client[c].pc = "detach" /\ stream' = Dropped(client[c].conn)
      /\ expected' = expected /\ (terminate \/ UNCHANGED jobVars)
  BY DEF DetachEnds
<1>3. /\ client' \in [Client -> ClientState] /\ OthersStay(c)
      /\ (client'[c].pc = "prompt" /\ owner' = owner) \/ (client'[c].pc = "away" /\ owner' = None)
      /\ client'[c].conn = None /\ client'[c].cursor = client[c].cursor
      /\ client'[c].saved \in {client[c].saved, None} /\ client'[c].seen = client[c].seen
  BY <1>1, DetachEndsClient
<1>4. Busy(c)
  BY <1>2 DEF Busy
<1>5. owner = c /\ (\A b \in Client : b # c => client[b].pc = "away") /\ listed \in JobId
  BY <1>4, AtStream
<1>6. stream' \in [Stream -> Conn] /\ \A m \in Stream : Quieted(m) /\ UpKept(m)
  BY <1>1, <1>2, <1>4, DroppedQuiets
<1>7. Rested /\ listed' \in {listed, None} /\ \A j \in JobId : Unmoved(j)
  BY <1>1, <1>2, SameRests, TerminateRests
<1>8. Follows(c)'
  <2>1. ~Watching(c) /\ ~Watching(c)'
    BY <1>2, <1>3 DEF Watching
  <2> QED
    BY <1>2, <1>3, <1>7, <2>1, AwayFollows
<1>9. expected' \in [Client -> 0..MaxOutput]
  BY <1>1, <1>2 DEF StreamTypes
<1>10. owner' \in Client \cup {None} /\ (client'[c].pc = "prompt" => owner' = c) /\ client'[c].pc \in {"prompt", "away"}
  BY <1>3, <1>5
<1> QED
  BY <1>2, <1>3, <1>5, <1>6, <1>7, <1>8, <1>9, <1>10, DepartInv

\* The detachment fails.
LEMMA DetachFailsKeeps ==
  ASSUME Inv, NEW c \in Client, DetachFails(c), typed' = typed
  PROVE  Inv' /\ Unfed
<1>1. Jobs /\ StreamTypes /\ Visits
  BY DEF Inv
<1>2. /\ client[c].pc = "detach" /\ owner' = owner /\ UNCHANGED jobVars /\ stream' = Dropped(client[c].conn)
      /\ expected' = expected
  BY DEF DetachFails
<1>3. /\ client' \in [Client -> ClientState] /\ OthersStay(c)
      /\ ClientIs(c, "prompt", None, client[c].cursor, client[c].saved, client[c].seen)
  BY <1>1, DetachFailsClient
<1>4. Busy(c)
  BY <1>2 DEF Busy
<1>5. owner = c /\ (\A b \in Client : b # c => client[b].pc = "away") /\ listed \in JobId
  BY <1>4, AtStream
<1>6. stream' \in [Stream -> Conn] /\ \A m \in Stream : Quieted(m) /\ UpKept(m)
  BY <1>1, <1>2, <1>4, DroppedQuiets
<1>7. Rested /\ listed' = listed /\ \A j \in JobId : Unmoved(j)
  BY <1>1, <1>2, SameRests
<1>8. Follows(c)'
  <2>1. ~Watching(c) /\ ~Watching(c)'
    BY <1>2, <1>3 DEF Watching, ClientIs
  <2> QED
    BY <1>2, <1>3, <1>7, <2>1, AwayFollows DEF ClientIs
<1>9. expected' \in [Client -> 0..MaxOutput]
  BY <1>1, <1>2 DEF StreamTypes
<1> QED
  BY <1>2, <1>3, <1>5, <1>6, <1>7, <1>8, <1>9, DepartInv DEF ClientIs

\* A client dies, with a stream or without.
LEMMA ClientDiesKeeps ==
  ASSUME Inv, NEW c \in Client, ClientDies(c), typed' = typed
  PROVE  Inv' /\ Unfed
<1>1. Jobs /\ StreamTypes /\ Visits /\ Placed(c) /\ client[c] \in ClientState
  BY DEF Inv, Visits, StreamTypes
<1>2. /\ client[c].pc # "away" /\ owner' = None /\ UNCHANGED jobVars
      /\ client[c].conn = None => stream' = stream
      /\ client[c].conn # None =>
           stream' = [stream EXCEPT ![client[c].conn] = Settled([@ EXCEPT !.user = FALSE, !.down = <<>>])]
  BY DEF ClientDies
<1>3. /\ client' \in [Client -> ClientState] /\ OthersStay(c)
      /\ ClientIs(c, "away", None, 0, None, None)
      /\ expected' \in [Client -> 0..MaxOutput]
      /\ \A b \in Client : b # c => expected'[b] = expected[b]
  BY <1>1, ClientDiesClient
<1>5. \A b \in Client : b # c => client[b].pc = "away"
  BY <1>1, <1>2, OnlyOne
<1>6. stream' \in [Stream -> Conn] /\ \A m \in Stream : Quieted(m) /\ UpKept(m)
  <2>1. CASE Busy(c)
    <3>1. client[c].conn # None
      BY <1>1, <2>1, JobSets DEF Placed
    <3> QED
      BY <1>1, <1>2, <2>1, <3>1, DiedQuiets
  <2>2. CASE ~Busy(c)
    <3>1. client[c].conn = None
      BY <1>1, <2>2 DEF Placed
    <3>2. client[c].pc = "prompt"
      BY <1>1, <1>2, <2>2, ClientFields DEF Busy
    <3>3. \A m \in Stream : ~stream[m].user
      BY <3>2, NoStreams
    <3> QED
      BY <1>1, <1>2, <3>1, <3>3, NoneQuiets
  <2> QED
    BY <2>1, <2>2
<1>7. Rested /\ listed' = listed /\ \A j \in JobId : Unmoved(j)
  BY <1>1, <1>2, SameRests
<1>8. Follows(c)'
  BY <1>3 DEF Follows, Watching, ClientIs
<1> QED
  BY <1>2, <1>3, <1>5, <1>6, <1>7, <1>8, DepartInv DEF ClientIs

\* A client that goes on with its stream keeps the invariant.
LEMMA StayInv ==
  ASSUME Inv, NEW c \in Client, Busy(c), NEW n \in Stream, n = client[c].conn,
         client' \in [Client -> ClientState], OthersStay(c), owner' = owner,
         client'[c].pc \in {"relay", "detach"}, client'[c].conn = client[c].conn, client'[c].seen = client[c].seen,
         UNCHANGED jobVars, stream' \in [Stream -> Conn], OthersKeep(n), stream'[n].user = stream[n].user,
         stream'[n].server = stream[n].server, stream'[n].job = stream[n].job,
         stream'[n].cursor = stream[n].cursor, stream[n].server # "claim",
         stream'[n].down = stream[n].down \/ (stream[n].down # <<>> /\ stream'[n].down = Tail(stream[n].down)),
         expected' \in [Client -> 0..MaxOutput], typed' \in 0..MaxKeys,
         \A b \in Client : b # c => expected'[b] = expected[b],
         Follows(c)'
  PROVE  Inv'
<1>1. Jobs /\ StreamTypes /\ Visits
  BY DEF Inv
<1>2. Jobs' /\ job' = job /\ listed' = listed
  BY <1>1, JobsStay
<1>3. /\ Held(n) /\ Ends(n) /\ stream[n].down \in Seq(DownFrame) /\ \A b \in Client : b # c => client[b].pc = "away"
  BY AtStream
<1>4. PICK d \in Seq(DownFrame) : d = stream[n].down
  BY <1>3
<1>5. stream'[n].down = d \/ (d # <<>> /\ stream'[n].down = Tail(d))
  BY <1>4
<1>6. stream[n].server # "gone" => Without(stream'[n].down, "detached")
  <2>1. ASSUME stream[n].server # "gone" PROVE Without(d, "detached")
    BY <1>3, <1>4, <2>1 DEF Held
  <2>2. ASSUME Without(d, "detached") PROVE d # <<>> => Without(Tail(d), "detached")
    BY <2>2, WithoutFacts
  <2> QED
    BY <1>5, <2>1, <2>2
<1>7. Visits'
  BY <1>1, <1>6, StayKeeps
<1>8. StreamTypes'
  BY <1>1 DEF StreamTypes
<1>9. Ends(n)'
  <2>1. SUFFICES ASSUME stream'[n].user PROVE /\ Without(stream'[n].down, "refused")
          /\ \A k \in DOMAIN stream'[n].down : stream'[n].down[k].kind = "exit" =>
               /\ k = Len(stream'[n].down) /\ stream[n].server \in {"release", "gone"}
               /\ stream[n].cursor = job[listed].replay_end /\ job[listed].exit_status # None
    BY <1>2 DEF Ends
  <2>2. /\ Without(d, "refused")
        /\ \A k \in DOMAIN d : d[k].kind = "exit" =>
               /\ k = Len(d) /\ stream[n].server \in {"release", "gone"}
               /\ stream[n].cursor = job[listed].replay_end /\ job[listed].exit_status # None
    BY <1>3, <1>4, <2>1 DEF Ends
  <2>3. CASE stream'[n].down = d
    BY <2>2, <2>3
  <2>4. CASE d # <<>> /\ stream'[n].down = Tail(d)
    <3>1. Without(Tail(d), "refused")
      BY <2>2, <2>4, WithoutFacts
    <3>0. d # <<>>
      BY <2>4
    <3>5. Tail(d) \in Seq(DownFrame)
      BY <3>0
    <3>2. PICK e \in Seq(DownFrame) : e = Tail(d)
      BY <3>5
    <3>3. Len(d) \in Nat /\ Len(d) # 0 /\ Len(e) = Len(d) - 1 /\ DOMAIN e = 1..Len(e) /\ DOMAIN d = 1..Len(d)
      BY <3>0, <3>2
    <3>4. ASSUME NEW k \in DOMAIN e PROVE k + 1 \in DOMAIN d /\ e[k] = d[k + 1] /\ (k + 1 = Len(d) => k = Len(e))
      <4>1. k \in Nat /\ k + 1 \in 1..Len(d) /\ k \in 1..(Len(d) - 1) /\ (k + 1 = Len(d) => k = Len(e))
        BY <3>3
      <4>2. e[k] = d[k + 1]
        BY <3>0, <3>2, <4>1
      <4> QED
        BY <3>3, <4>1, <4>2
    <3> QED
      BY <2>2, <2>4, <3>1, <3>2, <3>4
  <2> QED
    BY <1>5, <2>3, <2>4
<1>10. ASSUME NEW m \in Stream, m # n PROVE Ends(m)'
  <2>1. stream'[m] = stream[m] /\ Ends(m)
    BY <1>10 DEF OthersKeep, Inv, Shows
  <2> QED
    BY <1>2, <2>1 DEF Ends, Without
<1>11. Rested
  BY <1>1, SameRests
<1>12. ASSUME NEW b \in Client, b # c PROVE Follows(b)'
  <2>1. client'[b] = client[b] /\ client[b].pc = "away" /\ expected'[b] = expected[b]
    BY <1>3, <1>12 DEF OthersStay
  <2>2. ~Watching(b) /\ ~Watching(b)'
    BY <2>1 DEF Watching
  <2> QED
    BY <1>11, <2>1, <2>2, AwayFollows
<1>13. Shows'
  BY <1>9, <1>10, <1>12 DEF Shows
<1> QED
  BY <1>2, <1>7, <1>8, <1>13 DEF Inv

\* The first frame of the queue, as it is for a watching client.
LEMMA HeadLeads ==
  ASSUME Inv, NEW c \in Client, Watching(c), Down(c) # <<>>
  PROVE  /\ stream[client[c].conn].server # "claim" /\ Head(Down(c)) \in DownFrame
         /\ \E y \in 0..job[listed].replay_end :
              /\ Leads(Head(Down(c)), client[c].cursor, y, job[listed].replay_start)
              /\ Led(Tail(Down(c)), y, stream[client[c].conn].cursor, job[listed].replay_start, job[listed].replay_end)
<1>1. Busy(c)
  BY DEF Busy, Watching
<1>2. /\ stream[client[c].conn].down \in Seq(DownFrame) /\ Held(client[c].conn) /\ Follows(c)
      /\ job[listed].replay_start \in Nat /\ job[listed].replay_end \in Nat
  BY <1>1, AtStream
<1>3. stream[client[c].conn].server # "claim"
  BY <1>2 DEF Held, Down
<1>4. PICK d \in Seq(DownFrame), lo \in Nat, hi \in Nat,
           a \in {client[c].cursor}, z \in {stream[client[c].conn].cursor} :
        /\ d = Down(c) /\ lo = job[listed].replay_start /\ hi = job[listed].replay_end
        /\ a = client[c].cursor /\ z = stream[client[c].conn].cursor
  BY <1>2 DEF Down
<1>5. Led(d, a, z, lo, hi)
  BY <1>2, <1>3, <1>4 DEF Follows, Down
<1>6. d # <<>> /\ Head(d) \in DownFrame
  BY <1>4
<1>7. \E y \in 0..hi : Leads(Head(d), a, y, lo) /\ Led(Tail(d), y, z, lo, hi)
  BY <1>5, <1>6, LedOff
<1> QED
  BY <1>3, <1>4, <1>6, <1>7

\* Missing only what has left the ring, twice.
LEMMA GapTwice ==
  ASSUME NEW a \in Nat, NEW b \in Nat, NEW c \in Nat, NEW lo \in Nat, Gap(a, b, lo), Gap(b, c, lo)
  PROVE  Gap(a, c, lo)
BY DEF Gap

\* A step of the client that takes frames or sends a Close feeds nothing.
LEMMA StayUnfed ==
  ASSUME Jobs, NEW n \in Stream, UNCHANGED jobVars, OthersKeep(n), typed' = typed, stream'[n].server = stream[n].server,
         stream'[n].up = stream[n].up \/ stream'[n].up = Append(stream[n].up, [kind |-> "close"])
  PROVE  Unfed
<1>1. Rested /\ \A j \in JobId : Unmoved(j)
  BY SameRests
<1>2. ASSUME NEW m \in Stream PROVE UpKept(m)
  BY DEF UpKept, OthersKeep
<1>3. \A j \in JobId : job'[j].claimed \in {job[j].claimed, None}
  BY <1>1 DEF Unmoved
<1> QED
  BY <1>1, <1>2, <1>3, RestedUnfed

\* The claim is answered.
LEMMA ClaimGrantedKeeps ==
  ASSUME Inv, NEW c \in Client, ClaimGranted(c), typed' = typed
  PROVE  Inv' /\ Unfed
<1>1. Jobs /\ StreamTypes /\ Visits
  BY DEF Inv
<1>2. /\ client[c].pc = "open" /\ Down(c) # <<>> /\ Head(Down(c)).kind = "claimed"
      /\ stream' = [stream EXCEPT ![client[c].conn].down = Tail(@)]
      /\ UNCHANGED jobVars /\ owner' = owner /\ expected' = expected
  BY DEF ClaimGranted
<1>3. /\ client' \in [Client -> ClientState] /\ OthersStay(c)
      /\ ClientIs(c, "relay", client[c].conn, client[c].cursor, client[c].saved, client[c].seen)
  BY <1>1, ClaimGrantedClient
<1>4. Busy(c) /\ Watching(c)
  BY <1>2 DEF Busy, Watching
<1>5. PICK n \in Stream : n = client[c].conn
  BY <1>4, AtStream
<1>6. stream[n].down # <<>> /\ stream[n].server # "claim"
  BY <1>2, <1>4, <1>5, HeadLeads DEF Down
<1>7. /\ stream' \in [Stream -> Conn] /\ OthersKeep(n) /\ stream'[n].user = stream[n].user
      /\ stream'[n].server = stream[n].server /\ stream'[n].job = stream[n].job
      /\ stream'[n].cursor = stream[n].cursor /\ stream'[n].up = stream[n].up
      /\ stream'[n].down = Tail(stream[n].down)
  BY <1>1, <1>2, <1>5, <1>6, TookDoes
<1>8. job' = job /\ listed' = listed
  BY <1>1, <1>2, JobsStay
<1>9. Follows(c)'
  <2>1. PICK y \in 0..job[listed].replay_end :
              /\ Leads(Head(Down(c)), client[c].cursor, y, job[listed].replay_start)
              /\ Led(Tail(Down(c)), y, stream[client[c].conn].cursor, job[listed].replay_start, job[listed].replay_end)
    BY <1>2, <1>4, HeadLeads
  <2>2. y = client[c].cursor
    BY <1>2, <2>1 DEF Leads
  <2>3. Led(Tail(stream[n].down), client[c].cursor, stream[n].cursor, job[listed].replay_start, job[listed].replay_end)
    BY <1>5, <2>1, <2>2 DEF Down
  <2>4. Gap(expected[c], client[c].cursor, job[listed].replay_start)
    BY <1>4, AtStream DEF Follows
  <2>5. Watching(c)' /\ client'[c].conn = n /\ client'[c].cursor = client[c].cursor
    BY <1>3, <1>5 DEF Watching, ClientIs
  <2> QED
    BY <1>2, <1>6, <1>7, <1>8, <2>3, <2>4, <2>5 DEF Follows
<1>10. expected' \in [Client -> 0..MaxOutput] /\ typed' \in 0..MaxKeys
  BY <1>1, <1>2 DEF StreamTypes
<1>11. Inv'
  BY <1>2, <1>3, <1>4, <1>5, <1>6, <1>7, <1>9, <1>10, StayInv DEF ClientIs
<1> QED
  BY <1>1, <1>2, <1>7, <1>11, StayUnfed

\* Output is shown.
LEMMA RelayOutputKeeps ==
  ASSUME Inv, NEW c \in Client, RelayOutput(c), typed' = typed
  PROVE  Inv' /\ Unfed
<1>1. Jobs /\ StreamTypes /\ Visits
  BY DEF Inv
<1>2. /\ client[c].pc = "relay" /\ Down(c) # <<>> /\ Head(Down(c)).kind = "output"
      /\ stream' = [stream EXCEPT ![client[c].conn].down = Tail(@)]
      /\ expected' = [expected EXCEPT ![c] = Head(Down(c)).offset + Head(Down(c)).len]
      /\ UNCHANGED jobVars /\ owner' = owner
  BY DEF RelayOutput
<1>4. Busy(c) /\ Watching(c)
  BY <1>2 DEF Busy, Watching
<1>5. PICK n \in Stream : n = client[c].conn
  BY <1>4, AtStream
<1>6. stream[n].down # <<>> /\ stream[n].server # "claim"
  BY <1>2, <1>4, <1>5, HeadLeads DEF Down
<1>7. /\ stream' \in [Stream -> Conn] /\ OthersKeep(n) /\ stream'[n].user = stream[n].user
      /\ stream'[n].server = stream[n].server /\ stream'[n].job = stream[n].job
      /\ stream'[n].cursor = stream[n].cursor /\ stream'[n].up = stream[n].up
      /\ stream'[n].down = Tail(stream[n].down)
  BY <1>1, <1>2, <1>5, <1>6, TookDoes
<1>8. job' = job /\ listed' = listed
  BY <1>1, <1>2, JobsStay
<1>9. PICK y \in 0..job[listed].replay_end :
              /\ Leads(Head(Down(c)), client[c].cursor, y, job[listed].replay_start)
              /\ Led(Tail(Down(c)), y, stream[client[c].conn].cursor, job[listed].replay_start, job[listed].replay_end)
  BY <1>2, <1>4, HeadLeads
<1>10. y = Head(Down(c)).offset + Head(Down(c)).len
  BY <1>2, <1>9 DEF Leads
<1>11. y \in 0..MaxOutput
  <2>1. JobTypes /\ listed \in JobId
    BY <1>1, <1>4, AtStream DEF Jobs
  <2>2. job[listed].replay_end \in Nat /\ job[listed].replay_end <= MaxOutput
    BY <2>1, JobFields
  <2> QED
    BY <2>2, JobSets
<1>3. /\ client' \in [Client -> ClientState] /\ OthersStay(c)
      /\ ClientIs(c, client[c].pc, client[c].conn, y, client[c].saved, client[c].seen)
  BY <1>1, <1>10, <1>11, RelayOutputClient
<1>12. /\ expected' \in [Client -> 0..MaxOutput] /\ expected'[c] = y
       /\ \A b \in Client : b # c => expected'[b] = expected[b]
  <2>1. expected' = [expected EXCEPT ![c] = y]
    BY <1>2, <1>10
  <2> QED
    BY <1>1, <1>11, <2>1 DEF StreamTypes
<1>13. Follows(c)'
  <2>1. Led(Tail(stream[n].down), y, stream[n].cursor, job[listed].replay_start, job[listed].replay_end)
    BY <1>5, <1>9 DEF Down
  <2>2. Gap(y, y, job[listed].replay_start)
    BY <1>11, JobSets DEF Gap
  <2>3. Watching(c)' /\ client'[c].conn = n /\ client'[c].cursor = y
    BY <1>2, <1>3, <1>5 DEF Watching, ClientIs
  <2> QED
    BY <1>6, <1>7, <1>8, <1>12, <2>1, <2>2, <2>3 DEF Follows
<1>14. typed' \in 0..MaxKeys
  BY <1>1 DEF StreamTypes
<1>15. Inv'
  BY <1>2, <1>3, <1>4, <1>5, <1>6, <1>7, <1>12, <1>13, <1>14, StayInv DEF ClientIs
<1> QED
  BY <1>1, <1>2, <1>7, <1>15, StayUnfed

\* A client starts to detach: it remembers where it is.
LEMMA RelayActionKeeps ==
  ASSUME Inv, NEW c \in Client, NEW after \in {"prompt", "terminate", "away"}, RelayAction(c, after), typed' = typed
  PROVE  Inv' /\ Unfed
<1>1. Jobs /\ StreamTypes /\ Visits
  BY DEF Inv
<1>2. /\ client[c].pc = "relay" /\ UNCHANGED jobVars /\ owner' = owner /\ expected' = expected
      /\ stream[client[c].conn].server = "gone" => stream' = stream
      /\ stream[client[c].conn].server # "gone" =>
           stream' = [stream EXCEPT ![client[c].conn].up = Append(@, [kind |-> "close"])]
  BY DEF RelayAction
<1>3. /\ client' \in [Client -> ClientState] /\ OthersStay(c)
      /\ ClientIs(c, "detach", client[c].conn, client[c].cursor, client[c].cursor, client[c].seen)
  BY <1>1, RelayActionClient
<1>4. Busy(c)
  BY <1>2 DEF Busy
<1>5. PICK n \in Stream : n = client[c].conn /\ stream[n].server # "claim"
  BY <1>2, <1>4, AtStream
<1>6. PICK f \in UpFrame : f = [kind |-> "close"]
  BY UpFrames
<1>7. /\ stream' \in [Stream -> Conn] /\ OthersKeep(n) /\ stream'[n].user = stream[n].user
      /\ stream'[n].server = stream[n].server /\ stream'[n].job = stream[n].job
      /\ stream'[n].cursor = stream[n].cursor
      /\ stream'[n].up = stream[n].up \/ stream'[n].up = Append(stream[n].up, f)
      /\ stream'[n].down = stream[n].down
  <2>1. CASE stream[n].server = "gone"
    BY <1>1, <1>2, <1>5, <2>1 DEF StreamTypes, OthersKeep
  <2>2. CASE stream[n].server # "gone"
    <3>1. stream' = [stream EXCEPT ![n].up = Append(@, f)]
      BY <1>2, <1>5, <1>6, <2>2
    <3> QED
      BY <1>1, <3>1, SentDoes
  <2> QED
    BY <2>1, <2>2
<1>8. job' = job /\ listed' = listed
  BY <1>1, <1>2, JobsStay
<1>9. Follows(c)'
  <2>1. /\ Gap(expected[c], client[c].cursor, job[listed].replay_start)
        /\ client[c].cursor <= job[listed].replay_end
    BY <1>2, WatchesWithin
  <2>2. ~Watching(c)' /\ client'[c].saved = client[c].cursor
    BY <1>3 DEF Watching, ClientIs
  <2> QED
    BY <1>2, <1>8, <2>1, <2>2 DEF Follows
<1>10. expected' \in [Client -> 0..MaxOutput] /\ typed' \in 0..MaxKeys
  BY <1>1, <1>2 DEF StreamTypes
<1>11. Inv'
  BY <1>2, <1>3, <1>4, <1>5, <1>7, <1>9, <1>10, StayInv DEF ClientIs
<1> QED
  BY <1>1, <1>2, <1>6, <1>7, <1>11, StayUnfed

\* Output is skipped.
LEMMA DetachSkipsKeeps ==
  ASSUME Inv, NEW c \in Client, DetachSkips(c), typed' = typed
  PROVE  Inv' /\ Unfed
<1>1. Jobs /\ StreamTypes /\ Visits
  BY DEF Inv
<1>2. /\ client[c].pc = "detach" /\ Down(c) # <<>> /\ stream' = [stream EXCEPT ![client[c].conn].down = Tail(@)]
      /\ UNCHANGED jobVars /\ owner' = owner /\ client' = client /\ expected' = expected
  BY DEF DetachSkips
<1>3. client' \in [Client -> ClientState] /\ OthersStay(c)
  BY <1>1, <1>2 DEF StreamTypes, OthersStay
<1>4. Busy(c)
  BY <1>2 DEF Busy
<1>5. PICK n \in Stream : n = client[c].conn /\ stream[n].server # "claim"
  BY <1>2, <1>4, AtStream
<1>6. stream[n].down # <<>>
  BY <1>2, <1>5 DEF Down
<1>7. /\ stream' \in [Stream -> Conn] /\ OthersKeep(n) /\ stream'[n].user = stream[n].user
      /\ stream'[n].server = stream[n].server /\ stream'[n].job = stream[n].job
      /\ stream'[n].cursor = stream[n].cursor /\ stream'[n].up = stream[n].up
      /\ stream'[n].down = Tail(stream[n].down)
  BY <1>1, <1>2, <1>5, <1>6, TookDoes
<1>8. Rested
  BY <1>1, <1>2, SameRests
<1>9. Follows(c)'
  <2>1. ~Watching(c) /\ ~Watching(c)'
    BY <1>2 DEF Watching
  <2> QED
    BY <1>2, <1>8, <2>1, AwayFollows
<1>10. expected' \in [Client -> 0..MaxOutput] /\ typed' \in 0..MaxKeys
  BY <1>1, <1>2 DEF StreamTypes
<1>11. Inv'
  BY <1>2, <1>3, <1>4, <1>5, <1>6, <1>7, <1>9, <1>10, StayInv
<1> QED
  BY <1>1, <1>2, <1>7, <1>11, StayUnfed

\* What a key adds to the input.
LEMMA KeyAdds ==
  ASSUME NEW key \in {"plain", "prefix", "help"}, NEW b \in BOOLEAN, typed \in Nat,
         NEW n, n = Forwarded(key, b), typed + n <= MaxKeys
  PROVE  n \in 0..2 /\ Tokens(n) \in Seq(Token) /\ Len(Tokens(n)) = n /\ \A k \in 1..n : Tokens(n)[k] = typed + k
<1>1. n \in 0..2
  BY DEF Forwarded
<1>2. \A k \in 1..n : typed + k \in Token
  BY <1>1, JobSets DEF Token
<1>3. Tokens(n) = [k \in 1..n |-> typed + k]
  BY DEF Tokens
<1>4. Tokens(n) \in [1..n -> Token]
  BY <1>2, <1>3
<1>5. n \in Nat
  BY <1>1
<1> QED
  BY <1>1, <1>3, <1>4, <1>5

\* A key is typed.
LEMMA RelayKeyKeeps ==
  ASSUME Inv, NEW c \in Client, NEW key \in {"plain", "prefix", "help"}, RelayKey(c, key)
  PROVE  /\ Inv' /\ UNCHANGED jobVars /\ client[c].conn \in Stream /\ stream[client[c].conn].server # "claim"
         /\ \E n \in 0..2, t \in Seq(Token) :
              /\ typed' = typed + n /\ Len(t) = n /\ \A k \in 1..n : t[k] = typed + k
              /\ \/ stream' = stream
                 \/ /\ OthersKeep(client[c].conn)
                    /\ stream'[client[c].conn].server = stream[client[c].conn].server
                    /\ stream'[client[c].conn].up = Append(stream[client[c].conn].up, [kind |-> "input", bytes |-> t])
<1>1. Jobs /\ StreamTypes /\ Visits
  BY DEF Inv
<1> DEFINE i == Forwarded(key, client[c].pending)
<1>2. /\ client[c].pc = "relay" /\ UNCHANGED jobVars /\ owner' = owner /\ expected' = expected
      /\ typed + i <= MaxKeys /\ typed' = typed + i
      /\ stream' = IF i = 0 \/ stream[client[c].conn].server = "gone" THEN stream
               ELSE [stream EXCEPT ![client[c].conn].up = Append(@, [kind |-> "input", bytes |-> Tokens(i)])]
  BY DEF RelayKey
<1>3. PICK b \in BOOLEAN : b = (key = "prefix" /\ ~client[c].pending)
  OBVIOUS
<1>4. /\ client' \in [Client -> ClientState] /\ OthersStay(c)
      /\ ClientIs(c, client[c].pc, client[c].conn, client[c].cursor, client[c].saved, client[c].seen)
  BY <1>1, <1>3, RelayKeyClient
<1>5. Busy(c) /\ Watching(c)
  BY <1>2 DEF Busy, Watching
<1>6. PICK n \in Stream : n = client[c].conn /\ stream[n].server # "claim"
  BY <1>2, <1>5, AtStream
<1>7. client[c].pending \in BOOLEAN /\ typed \in Nat
  BY <1>1, ClientFields, JobSets DEF StreamTypes
<1>8. i \in 0..2 /\ Tokens(i) \in Seq(Token) /\ Len(Tokens(i)) = i /\ \A k \in 1..i : Tokens(i)[k] = typed + k
  BY <1>2, <1>7, KeyAdds
<1> HIDE DEF i
<1>9. PICK t \in Seq(Token) : t = Tokens(i) /\ Len(t) = i /\ \A k \in 1..i : t[k] = typed + k
  BY <1>8
<1>10. PICK f \in UpFrame : f = [kind |-> "input", bytes |-> t]
  BY UpFrames
<1>11. \/ stream' = stream
       \/ stream' = [stream EXCEPT ![n].up = Append(@, f)]
  BY <1>2, <1>6, <1>9, <1>10
<1>12. /\ stream' \in [Stream -> Conn] /\ OthersKeep(n) /\ stream'[n].user = stream[n].user
       /\ stream'[n].server = stream[n].server /\ stream'[n].job = stream[n].job
       /\ stream'[n].cursor = stream[n].cursor
       /\ stream' = stream \/ stream'[n].up = Append(stream[n].up, f)
       /\ stream'[n].down = stream[n].down
  <2>1. CASE stream' = stream
    BY <1>1, <2>1 DEF StreamTypes, OthersKeep
  <2>2. CASE stream' = [stream EXCEPT ![n].up = Append(@, f)]
    BY <1>1, <2>2, SentDoes
  <2> QED
    BY <1>11, <2>1, <2>2
<1>13. job' = job /\ listed' = listed
  BY <1>1, <1>2, JobsStay
<1>14. Follows(c)'
  <2>1. Follows(c)
    BY <1>5, AtStream
  <2>2. /\ client'[c].pc = client[c].pc /\ client'[c].conn = client[c].conn /\ client'[c].cursor = client[c].cursor
        /\ client'[c].saved = client[c].saved /\ client'[c].seen = client[c].seen
    BY <1>4 DEF ClientIs
  <2>3. Watching(c)'
    BY <1>5, <2>2 DEF Watching
  <2> QED
    BY <1>2, <1>5, <1>6, <1>12, <1>13, <2>1, <2>2, <2>3 DEF Follows
<1>15. expected' \in [Client -> 0..MaxOutput] /\ typed' \in 0..MaxKeys
  BY <1>1, <1>2, <1>7, <1>8, JobSets DEF StreamTypes
<1>16. Inv'
  BY <1>2, <1>4, <1>5, <1>6, <1>12, <1>14, <1>15, StayInv DEF ClientIs
<1> QED
  BY <1>2, <1>6, <1>8, <1>9, <1>10, <1>12, <1>16

\* A client gets a stream.
LEMMA OpenInv ==
  ASSUME Inv, NEW c \in Client, client[c].pc = "prompt", NEW n \in Stream, \A j \in JobId : job[j].claimed # n,
         client' \in [Client -> ClientState], OthersStay(c), owner' = owner,
         client'[c].pc = "open", client'[c].conn = n, client'[c].seen = listed',
         Rested, listed' \in JobId, job'[listed'].ticket = n, job'[listed'].claimed = None,
         job'[listed'].worker # "none", \A j \in JobId : j # listed' => job'[j] = job[j],
         stream' \in [Stream -> Conn], OthersKeep(n), stream'[n].user, stream'[n].server = "claim",
         stream'[n].up = <<>>, stream'[n].down = <<>>,
         expected' \in [Client -> 0..MaxOutput], typed' = typed,
         \A b \in Client : b # c => expected'[b] = expected[b],
         client'[c].cursor = job'[listed'].from,
         Gap(expected'[c], job'[listed'].from, job'[listed'].replay_start)
  PROVE  Inv' /\ Unfed
<1>1. Jobs /\ StreamTypes /\ Visits /\ Jobs'
  BY DEF Inv, Rested
<1>2. /\ \A m \in Stream : ~stream[m].user
      /\ \A b \in Client : b # c => client[b].pc = "away"
  BY NoStreams
<1>3. Visits'
  BY <1>1, OpenKeeps
<1>4. StreamTypes'
  BY <1>1 DEF StreamTypes
<1>5. ASSUME NEW m \in Stream PROVE Ends(m)'
  <2>1. CASE m = n
    BY <2>1 DEF Ends, Without
  <2>2. CASE m # n
    BY <1>2, <2>2 DEF Ends, OthersKeep
  <2> QED
    BY <2>1, <2>2
<1>6. ASSUME NEW b \in Client, b # c PROVE Follows(b)'
  <2>1. client'[b] = client[b] /\ client[b].pc = "away" /\ expected'[b] = expected[b]
    BY <1>2, <1>6 DEF OthersStay
  <2>2. ~Watching(b) /\ ~Watching(b)'
    BY <2>1 DEF Watching
  <2> QED
    BY <2>1, <2>2, AwayFollows
<1>7. Follows(c)'
  <2>1. Watching(c)'
    BY DEF Watching
  <2> QED
    BY <2>1 DEF Follows
<1>8. Shows'
  BY <1>5, <1>6, <1>7 DEF Shows
<1>9. Unfed
  <2>1. \A m \in Stream : UpKept(m)
    BY DEF UpKept, OthersKeep
  <2>2. \A j \in JobId : job'[j].claimed \in {job[j].claimed, None}
    OBVIOUS
  <2> QED
    BY <1>1, <2>1, <2>2, RestedUnfed
<1> QED
  BY <1>1, <1>3, <1>4, <1>8, <1>9 DEF Inv

\* A client starts a job.
LEMMA PtyStartKeeps ==
  ASSUME Inv, NEW c \in Client, PtyStart(c), typed' = typed
  PROVE  Inv' /\ Unfed
<1>1. Jobs /\ StreamTypes /\ Visits
  BY DEF Inv
<1>2. client[c].pc = "prompt" /\ Unused # {} /\ start(NewStream) /\ Connect(NewStream) /\ owner' = owner
  BY DEF PtyStart
<1>3. PICK n \in Stream : n = NewStream /\ \A j \in JobId : job[j].claimed # n
  BY <1>2, NewStreamIsNew
<1>4. start(n) /\ Connect(n)
  BY <1>2, <1>3
<1>5. /\ Jobs' /\ listed' \in JobId /\ job[listed'] = NoJob
      /\ job'[listed'].ticket = n /\ job'[listed'].claimed = None /\ job'[listed'].from = 0
      /\ job'[listed'].worker = "copy"
      /\ \A j \in JobId : Kept(j) /\ (j # listed' => job'[j] = job[j])
  BY <1>1, <1>4, StartKeeps
<1>6. /\ stream' \in [Stream -> Conn] /\ OthersKeep(n) /\ stream'[n].user
      /\ stream'[n].server = "claim" /\ stream'[n].up = <<>> /\ stream'[n].down = <<>>
  BY <1>1, <1>4, ConnectDoes
<1>7. /\ client' \in [Client -> ClientState] /\ OthersStay(c)
      /\ ClientIs(c, "open", n, 0, client[c].saved, listed')
      /\ expected' \in [Client -> 0..MaxOutput] /\ expected'[c] = 0
      /\ \A b \in Client : b # c => expected'[b] = expected[b]
  BY <1>1, <1>3, <1>5, PtyStartClient
<1>8. Rested
  BY <1>5 DEF Rested
<1>9. Gap(expected'[c], job'[listed'].from, job'[listed'].replay_start)
  BY <1>5, <1>7 DEF Gap
<1> QED
  BY <1>2, <1>3, <1>5, <1>6, <1>7, <1>8, <1>9, OpenInv DEF ClientIs

\* A client attaches to the listed job, at the cursor it remembers.
LEMMA PtyAttachKeeps ==
  ASSUME Inv, NEW c \in Client, PtyAttach(c), typed' = typed
  PROVE  Inv' /\ Unfed
<1>1. Jobs /\ StreamTypes /\ Visits /\ JobTypes /\ client[c] \in ClientState
  BY DEF Inv, Jobs, StreamTypes
<1>2. client[c].pc = "prompt" /\ Unused # {} /\ attach(NewStream, client[c].saved) /\ Connect(NewStream) /\ owner' = owner
  BY DEF PtyAttach
<1>3. PICK n \in Stream : n = NewStream /\ \A j \in JobId : job[j].claimed # n
  BY <1>2, NewStreamIsNew
<1>4. PICK s \in 0..MaxOutput \cup {None} : s = client[c].saved
  BY <1>1, ClientFields
<1>5. attach(n, s) /\ Connect(n)
  BY <1>2, <1>3, <1>4
<1>6. /\ Jobs' /\ listed \in JobId /\ listed' = listed
      /\ job'[listed].claimed = None
      /\ job'[listed].ticket = n /\ job'[listed].from = ReplayFrom(listed, s)
      /\ job'[listed].worker = job[listed].worker
      /\ \A j \in JobId : Kept(j) /\ (j # listed => job'[j] = job[j])
  BY <1>1, <1>5, AttachKeeps
<1>7. /\ stream' \in [Stream -> Conn] /\ OthersKeep(n) /\ stream'[n].user
      /\ stream'[n].server = "claim" /\ stream'[n].up = <<>> /\ stream'[n].down = <<>>
  BY <1>1, <1>5, ConnectDoes
<1>8. /\ ReplayFrom(listed, s) \in 0..MaxOutput
      /\ s = None => ReplayFrom(listed, s) = job[listed].replay_start
      /\ s # None /\ s <= job[listed].replay_end =>
           s <= ReplayFrom(listed, s) /\ (s = ReplayFrom(listed, s) \/ ReplayFrom(listed, s) = job[listed].replay_start)
  BY <1>1, <1>6, ReplayFromFacts
<1>9. PICK f \in 0..MaxOutput : f = ReplayFrom(listed, s) /\ f = job'[listed].from
  BY <1>6, <1>8
<1>10. /\ client' \in [Client -> ClientState] /\ OthersStay(c)
       /\ ClientIs(c, "open", n, f, client[c].saved, listed)
       /\ expected' \in [Client -> 0..MaxOutput]
       /\ client[c].saved = None => expected'[c] = 0
       /\ client[c].saved # None /\ client[c].seen = listed => expected'[c] = expected[c]
       /\ client[c].saved # None /\ client[c].seen # listed => expected'[c] = f
       /\ \A b \in Client : b # c => expected'[b] = expected[b]
  BY <1>1, <1>3, <1>6, <1>9, PtyAttachClient
<1>11. Rested
  BY <1>6 DEF Rested
<1>12. Gap(expected'[c], f, job'[listed].replay_start)
  <2>1. PICK lo \in Nat, hi \in Nat : lo = job[listed].replay_start /\ hi = job[listed].replay_end /\ lo = job'[listed].replay_start
    BY <1>1, <1>6, JobFields DEF Kept
  <2>2. CASE s = None
    <3>1. expected'[c] = 0 /\ f = lo
      BY <1>4, <1>8, <1>9, <1>10, <2>1, <2>2
    <3> QED
      BY <2>1, <3>1 DEF Gap
  <2>3. CASE s # None /\ client[c].seen = listed
    <3>1. Follows(c) /\ ~Watching(c) /\ listed # None /\ expected[c] \in Nat
      BY <1>1, <1>2, <1>6, JobSets DEF Inv, Shows, Watching, StreamTypes
    <3>2. Gap(expected[c], s, lo) /\ s <= hi
      BY <1>4, <2>1, <2>3, <3>1 DEF Follows
    <3>3. s <= f /\ (s = f \/ f = lo)
      BY <1>8, <1>9, <2>1, <2>3, <3>2
    <3>4. expected'[c] = expected[c]
      BY <1>4, <1>10, <2>3
    <3>5. s \in Nat /\ f \in Nat
      BY <2>3, JobSets
    <3>6. PICK e \in Nat : e = expected[c]
      BY <3>1
    <3>7. Gap(e, f, lo)
      BY <3>2, <3>3, <3>5, <3>6 DEF Gap
    <3> QED
      BY <2>1, <3>4, <3>6, <3>7
  <2>4. CASE s # None /\ client[c].seen # listed
    <3>1. expected'[c] = f /\ f \in Nat
      BY <1>4, <1>10, <2>4, JobSets
    <3> QED
      BY <3>1 DEF Gap
  <2> QED
    BY <2>2, <2>3, <2>4
<1>13. job'[listed].worker # "none"
  BY <1>1, <1>6, JobSets DEF Visits
<1> QED
  BY <1>2, <1>3, <1>6, <1>7, <1>9, <1>10, <1>11, <1>12, <1>13, OpenInv DEF ClientIs

\* The client at an open stream.
LEMMA UserAt ==
  ASSUME Inv, NEW n \in Stream, stream[n].user
  PROVE  owner \in Client /\ Busy(owner) /\ client[owner].conn = n /\ listed \in JobId
<1>1. Held(n)
  BY DEF Inv, Visits
<1>2. owner \in Client /\ client[owner].conn = n
  BY <1>1 DEF Held
<1>3. Placed(owner)
  BY <1>2 DEF Inv, Visits
<1> QED
  BY <1>2, <1>3, JobSets DEF Placed

\* A handler's step shows what it should if its own stream does.
LEMMA ServedShows ==
  ASSUME Inv, NEW n \in Stream, Served(n), Ends(n)',
         \A c \in Client : Watching(c) /\ client[c].conn = n =>
           Led(stream'[n].down, client[c].cursor, stream'[n].cursor, job[listed].replay_start, job[listed].replay_end)
  PROVE  Shows'
<1>1. /\ client' = client /\ expected' = expected /\ listed' = listed /\ stream'[n].server # "claim"
      /\ \A j \in JobId : /\ job'[j].replay_start = job[j].replay_start /\ job'[j].replay_end = job[j].replay_end
                          /\ job'[j].exit_status = job[j].exit_status /\ job'[j].from = job[j].from
  BY DEF Served
<1>2. ASSUME NEW m \in Stream, m # n PROVE Ends(m)'
  <2>1. stream'[m] = stream[m] /\ Ends(m)
    BY <1>2 DEF Served, OthersKeep, Inv, Shows
  <2>2. CASE stream[m].user
    <3>1. listed \in JobId
      BY <2>2, UserAt
    <3> QED
      BY <1>1, <2>1, <3>1 DEF Ends, Without
  <2>3. CASE ~stream[m].user
    BY <2>1, <2>3 DEF Ends
  <2> QED
    BY <2>2, <2>3
<1>3. ASSUME NEW c \in Client PROVE Follows(c)'
  <2>1. Follows(c) /\ Watching(c)' = Watching(c) /\ client'[c] = client[c]
    BY <1>1 DEF Inv, Shows, Watching
  <2>2. CASE Watching(c)
    <3>1. Busy(c)
      BY <2>2 DEF Busy, Watching
    <3>2. listed \in JobId /\ client[c].conn \in Stream
      BY <3>1, AtStream
    <3>3. CASE client[c].conn = n
      BY <1>1, <2>1, <2>2, <3>2, <3>3 DEF Follows
    <3>4. CASE client[c].conn # n
      <4>1. stream'[client[c].conn] = stream[client[c].conn]
        BY <3>2, <3>4 DEF Served, OthersKeep
      <4> QED
        BY <1>1, <2>1, <2>2, <3>2, <4>1 DEF Follows
    <3> QED
      BY <3>3, <3>4
  <2>3. CASE ~Watching(c)
    <3>1. listed \in JobId \cup {None}
      BY DEF Inv, Jobs, JobTypes
    <3> QED
      BY <1>1, <2>1, <2>3, <3>1 DEF Follows
  <2> QED
    BY <2>2, <2>3
<1> QED
  BY <1>2, <1>3 DEF Shows

\* While the handler goes on it has not sent the exit.
LEMMA NoExitYet ==
  ASSUME Inv, NEW n \in Stream, stream[n].user, stream[n].server \in {"poll", "read"}
  PROVE  Without(stream[n].down, "exit") /\ Without(stream[n].down, "refused")
BY DEF Inv, Shows, Ends, Without

\* A queue without the exit ends as it should.
LEMMA EndsOpen ==
  ASSUME NEW n \in Stream, Without(stream'[n].down, "exit"), Without(stream'[n].down, "refused")
  PROVE  Ends(n)'
BY DEF Ends, Without

\* The frames in flight of a watching client.
LEMMA WatchedLed ==
  ASSUME Inv, NEW c \in Client, Watching(c), stream[client[c].conn].server # "claim"
  PROVE  Led(stream[client[c].conn].down, client[c].cursor, stream[client[c].conn].cursor,
             job[listed].replay_start, job[listed].replay_end)
BY DEF Inv, Shows, Follows

\* A stream without a client shows nothing.
LEMMA NobodyShows ==
  ASSUME Inv, NEW n \in Stream, Served(n), ~stream[n].user
  PROVE  Shows'
<1>1. Ends(n)'
  BY DEF Ends, Served
<1>2. \A c \in Client : Watching(c) => client[c].conn # n
  BY AtStream DEF Watching, Busy
<1> QED
  BY <1>1, <1>2, ServedShows

\* The claim is granted.
LEMMA GrantShows ==
  ASSUME Inv, NEW n \in Stream, Served(n), ServeClaim(n), Claimable(n)
  PROVE  Shows'
<1>1. /\ claim(n) /\ listed \in JobId /\ stream[n].server = "claim"
      /\ stream'[n].cursor = job[listed].from /\ stream'[n].down = <<[kind |-> "claimed"]>>
  BY GrantDoes DEF Inv
<1>2. Ends(n)'
  <2>1. Without(stream'[n].down, "exit") /\ Without(stream'[n].down, "refused")
    BY <1>1 DEF Without
  <2> QED
    BY <2>1, EndsOpen
<1>3. ASSUME NEW c \in Client, Watching(c), client[c].conn = n
      PROVE  Led(stream'[n].down, client[c].cursor, stream'[n].cursor, job[listed].replay_start, job[listed].replay_end)
  <2>1. client[c].cursor = job[listed].from
    BY <1>1, <1>3 DEF Inv, Shows, Follows
  <2>2. JobTypes /\ Sound(listed)
    BY <1>1 DEF Inv, Jobs
  <2>3. PICK f \in DownFrame : f = [kind |-> "claimed"]
    BY DownFrames
  <2>4. PICK lo \in Nat, hi \in Nat, a \in Nat :
          lo = job[listed].replay_start /\ hi = job[listed].replay_end /\ a = job[listed].from /\ a <= hi
    BY <1>1, <2>2, JobFields DEF Sound
  <2>5. f.kind # "output" /\ a \in 0..hi
    BY <2>3, <2>4
  <2>6. Led(<<f>>, a, a, lo, hi)
    BY <2>5, LedNowhere
  <2> QED
    BY <1>1, <2>1, <2>3, <2>4, <2>6
<1> QED
  BY <1>2, <1>3, ServedShows

\* The queue and the cursor are as they were.
LEMMA SameShows ==
  ASSUME Inv, NEW n \in Stream, Served(n), stream[n].server # "claim", stream'[n].down = stream[n].down,
         stream'[n].cursor = stream[n].cursor, stream[n].user,
         stream[n].server \in {"poll", "read"} \/ stream'[n].server = "gone"
  PROVE  Shows'
<1>1. ASSUME NEW c \in Client, Watching(c), client[c].conn = n
      PROVE  Led(stream'[n].down, client[c].cursor, stream'[n].cursor, job[listed].replay_start, job[listed].replay_end)
  BY <1>1, WatchedLed
<1>2. Ends(n)'
  <2>1. CASE stream[n].server \in {"poll", "read"}
    BY <2>1, NoExitYet, EndsOpen
  <2>2. CASE stream'[n].server = "gone"
    <3>1. listed \in JobId /\ Ends(n)
      BY UserAt DEF Inv, Shows
    <3>2. /\ listed' = listed /\ job'[listed].replay_end = job[listed].replay_end
          /\ job'[listed].exit_status = job[listed].exit_status
      BY <3>1 DEF Served
    <3> QED
      BY <2>2, <3>1, <3>2 DEF Ends, Without
  <2> QED
    BY <2>1, <2>2
<1> QED
  BY <1>1, <1>2, ServedShows

\* The close is acknowledged.
LEMMA CloseShows ==
  ASSUME Inv, NEW n \in Stream, Served(n), ServeClose(n), stream[n].user
  PROVE  Shows'
<1>1. /\ stream[n].server = "poll" /\ stream'[n].cursor = stream[n].cursor
      /\ stream'[n].down = Append(stream[n].down, [kind |-> "detached"])
  BY CloseDoes DEF Inv
<1>2. PICK d \in Seq(DownFrame), f \in DownFrame : d = stream[n].down /\ f = [kind |-> "detached"]
  BY DownFrames, ConnFields DEF Inv, StreamTypes
<1>3. f.kind = "detached" /\ stream'[n].down = Append(d, f)
  BY <1>1, <1>2
<1>4. Without(d, "exit") /\ Without(d, "refused")
  BY <1>1, <1>2, NoExitYet
<1>5. Without(Append(d, f), "exit")
  BY <1>3, <1>4, WithoutFacts
<1>6. Without(Append(d, f), "refused")
  BY <1>3, <1>4, WithoutFacts
<1>7. Ends(n)'
  BY <1>3, <1>5, <1>6, EndsOpen
<1>8. ASSUME NEW c \in Client, Watching(c), client[c].conn = n
      PROVE  Led(stream'[n].down, client[c].cursor, stream'[n].cursor, job[listed].replay_start, job[listed].replay_end)
  <2>1. Busy(c)
    BY <1>8 DEF Watching, Busy
  <2>2. PICK lo \in Nat, hi \in Nat, a \in {client[c].cursor}, z \in {stream[n].cursor} :
          lo = job[listed].replay_start /\ hi = job[listed].replay_end /\ a = client[c].cursor /\ z = stream[n].cursor
    BY <2>1, AtStream
  <2>3. Led(d, a, z, lo, hi)
    BY <1>1, <1>2, <1>8, <2>2, WatchedLed
  <2>4. z \in 0..hi
    BY <2>3, LedWithin
  <2>5. Leads(f, z, z, lo)
    BY <1>3 DEF Leads
  <2>6. Led(Append(d, f), a, z, lo, hi)
    BY <2>3, <2>4, <2>5, LedOn
  <2> QED
    BY <1>1, <1>3, <2>2, <2>6
<1> QED
  BY <1>7, <1>8, ServedShows

\* The frames w lead every client that watches through a stream to y.
AllLed(n, w, y, lo, hi) ==
  \A c \in Client : Watching(c) /\ client[c].conn = n => Led(w, client[c].cursor, y, lo, hi) /\ y \in 0..hi

\* The chunk was read; with the last one comes the exit.
LEMMA ReadEnds ==
  ASSUME Inv, NEW n \in Stream, Served(n), listed \in JobId,
         NEW lo \in Nat, NEW hi \in Nat, lo = job[listed].replay_start, hi = job[listed].replay_end,
         NEW w \in Seq(DownFrame), NEW x \in DownFrame, x.kind = "exit",
         Without(w, "exit"), Without(w, "refused"), NEW y \in Nat, stream'[n].cursor = y,
         \/ stream'[n].down = w
         \/ /\ stream'[n].down = Append(w, x) /\ stream'[n].server = "release"
            /\ job[listed].exit_status # None /\ y = hi,
         AllLed(n, w, y, lo, hi)
  PROVE  Shows'
<1>1. CASE stream'[n].down = w
  <2>1. Ends(n)'
    BY <1>1, EndsOpen
  <2> QED
    BY <1>1, <2>1, ServedShows DEF AllLed
<1>2. CASE /\ stream'[n].down = Append(w, x) /\ stream'[n].server = "release"
           /\ job[listed].exit_status # None /\ y = hi
  <2>1. Without(Append(w, x), "refused")
    BY WithoutFacts
  <2>2. /\ listed' = listed /\ job'[listed].replay_end = hi
        /\ job'[listed].exit_status = job[listed].exit_status
    BY DEF Served
  <2>3. PICK e \in Seq(DownFrame) : e = Append(w, x)
    BY AppendDown
  <2>4. Len(w) \in Nat /\ DOMAIN w = 1..Len(w) /\ Len(e) = Len(w) + 1 /\ DOMAIN e = 1..Len(e) /\ \A k \in 1..Len(w) : e[k] = w[k]
    BY <2>3
  <2>5. ASSUME NEW k \in DOMAIN e, e[k].kind = "exit" PROVE k = Len(e)
    <3>1. k \in Nat /\ k <= Len(w) + 1 /\ 1 <= k
      BY <2>4
    <3>2. ASSUME k # Len(w) + 1 PROVE FALSE
      <4>1. k \in 1..Len(w)
        BY <2>4, <3>1, <3>2
      <4> QED
        BY <2>4, <2>5, <4>1 DEF Without
    <3> QED
      BY <2>4, <3>2
  <2>6. Ends(n)'
    BY <1>2, <2>1, <2>2, <2>3, <2>5 DEF Ends
  <2>7. ASSUME NEW c \in Client, Watching(c), client[c].conn = n
        PROVE  Led(stream'[n].down, client[c].cursor, y, lo, hi)
    <3>1. PICK a : a = client[c].cursor
      OBVIOUS
    <3>2. Led(w, a, y, lo, hi) /\ y \in 0..hi
      BY <2>7, <3>1 DEF AllLed
    <3>3. Leads(x, y, y, lo)
      BY DEF Leads
    <3>4. Led(Append(w, x), a, y, lo, hi)
      BY <3>2, <3>3, LedOn
    <3> QED
      BY <1>2, <3>1, <3>4
  <2> QED
    BY <2>6, <2>7, ServedShows
<1> QED
  BY <1>1, <1>2

\* The ring is read for a client.
LEMMA ReadShows ==
  ASSUME Inv, NEW n \in Stream, Served(n), ServeRead(n), stream[n].user, stream[n].job \in JobId
  PROVE  Shows'
<1>1. Jobs /\ StreamTypes /\ Held(n) /\ stream[n].server \in {"poll", "read"}
  BY DEF Inv, Visits, ServeRead
<1>2. stream[n].job = listed /\ Claims(n, listed) /\ listed \in JobId
  BY <1>1 DEF Held, Claims, Serving
<1>3. PICK lo \in Nat, hi \in Nat, d \in Seq(DownFrame), z \in Nat :
        lo = job[listed].replay_start /\ hi = job[listed].replay_end /\ d = stream[n].down /\ z = stream[n].cursor
  <2>1. job[listed].replay_start \in Nat /\ job[listed].replay_end \in Nat
    BY <1>1, <1>2, JobFields DEF Jobs
  <2>2. stream[n].down \in Seq(DownFrame) /\ stream[n].cursor \in Nat
    BY <1>1, ConnFields, JobSets DEF StreamTypes
  <2> QED
    BY <2>1, <2>2
<1>4. PICK o \in 0..MaxOutput, l \in 0..MaxRead :
                /\ o + l <= hi /\ stream'[n].cursor = o + l
                /\ z <= hi => Gap(z, o, lo) /\ (l = 0 => z = o)
                /\ WithChunk(d, o, l) \in Seq(DownFrame)
                /\ \/ stream'[n].down = WithChunk(d, o, l)
                   \/ /\ stream'[n].down = Append(WithChunk(d, o, l), [kind |-> "exit"])
                      /\ stream'[n].server = "release" /\ job[listed].exit_status # None
                      /\ o + l = hi
  BY <1>1, <1>2, <1>3, ReadDoes
<1>5. PICK w \in Seq(DownFrame), x \in DownFrame : w = WithChunk(d, o, l) /\ x = [kind |-> "exit"]
  BY <1>4, DownFrames
<1>6. x.kind = "exit" /\ Without(d, "exit") /\ Without(d, "refused")
  BY <1>1, <1>3, <1>5, NoExitYet
<1>7. PICK y \in Nat : y = o + l /\ o \in Nat /\ l \in Nat
  BY JobSets
<1>10. /\ stream'[n].cursor = y
       /\ \/ stream'[n].down = w
          \/ /\ stream'[n].down = Append(w, x) /\ stream'[n].server = "release"
             /\ job[listed].exit_status # None /\ y = hi
  BY <1>4, <1>5, <1>7
<1>8. CASE l = 0
  <2>1. w = d
    BY <1>5, <1>8 DEF WithChunk
  <2>2. Without(w, "exit") /\ Without(w, "refused")
    BY <1>6, <2>1
  <2> QED
    <3>1. ASSUME NEW c \in Client, Watching(c), client[c].conn = n
          PROVE  /\ Led(w, client[c].cursor, y, lo, hi) /\ y \in 0..hi
      <4>1. PICK a : a = client[c].cursor
        OBVIOUS
      <4>2. Led(d, a, z, lo, hi)
        BY <1>1, <1>3, <3>1, <4>1, WatchedLed
      <4>3. z \in 0..hi
        BY <4>2, LedWithin
      <4>4. z = o /\ y = o
        BY <1>4, <1>7, <1>8, <4>3
      <4> QED
        BY <2>1, <4>1, <4>2, <4>3, <4>4
    <3>2. AllLed(n, w, y, lo, hi)
      BY <3>1 DEF AllLed
    <3>3. /\ listed \in JobId /\ lo = job[listed].replay_start /\ hi = job[listed].replay_end
          /\ x.kind = "exit" /\ Without(w, "exit") /\ Without(w, "refused")
      BY <1>2, <1>3, <1>6, <2>2
    <3> QED
      BY <1>10, <3>2, <3>3, ReadEnds
<1>9. CASE l # 0
  <2>1. l \in 1..MaxRead
    BY <1>9, JobSets
  <2>2. PICK g \in DownFrame : g = [kind |-> "output", offset |-> o, len |-> l]
    BY <2>1, DownFrames
  <2>3. g.kind = "output" /\ g.offset = o /\ g.len = l /\ w = Append(d, g)
    BY <1>5, <1>9, <2>2 DEF WithChunk
  <2>4. Without(w, "exit")
    BY <1>6, <2>3, WithoutFacts
  <2>5. Without(w, "refused")
    BY <1>6, <2>3, WithoutFacts
  <2> QED
    <3>1. ASSUME NEW c \in Client, Watching(c), client[c].conn = n
          PROVE  /\ Led(w, client[c].cursor, y, lo, hi) /\ y \in 0..hi
      <4>1. PICK a : a = client[c].cursor
        OBVIOUS
      <4>2. Led(d, a, z, lo, hi)
        BY <1>1, <1>3, <3>1, <4>1, WatchedLed
      <4>3. z \in 0..hi
        BY <4>2, LedWithin
      <4>4. Gap(z, o, lo) /\ y \in 0..hi
        BY <1>4, <1>7, <4>3
      <4>5. Leads(g, z, y, lo)
        BY <1>7, <2>3, <4>4 DEF Leads
      <4>6. Led(Append(d, g), a, y, lo, hi)
        BY <4>2, <4>4, <4>5, LedOn
      <4> QED
        BY <2>3, <4>1, <4>4, <4>6
    <3>2. AllLed(n, w, y, lo, hi)
      BY <3>1 DEF AllLed
    <3>3. /\ listed \in JobId /\ lo = job[listed].replay_start /\ hi = job[listed].replay_end
          /\ x.kind = "exit" /\ Without(w, "exit") /\ Without(w, "refused")
      BY <1>2, <1>3, <1>6, <2>4, <2>5
    <3> QED
      BY <1>10, <3>2, <3>3, ReadEnds
<1> QED
  BY <1>8, <1>9

\* So the daemon's end keeps the invariant.
LEMMA ServerInv ==
  ASSUME Inv, NEW n \in Stream, ServerStep(n)
  PROVE  Inv' /\ Served(n)
<1>1. Jobs /\ StreamTypes /\ Visits /\ Shows /\ UNCHANGED typed
  BY DEF Inv, ServerStep
<1>2. Served(n) /\ Visits'
  BY <1>1, ServerVisits
<1>3. Jobs'
  BY <1>2 DEF Served
<1>4. StreamTypes'
  BY <1>1, <1>2 DEF Served, StreamTypes
<1>5. Shows'
  <2>0. CASE ~stream[n].user
    BY <1>2, <2>0, NobodyShows
  <2>1. CASE ServeClaim(n) /\ stream[n].user
    <3>1. Claimable(n)
      BY <1>1, <2>1, RefuseServes
    <3> QED
      BY <1>2, <2>1, <3>1, GrantShows
  <2>2. CASE ServeInput(n) /\ stream[n].user
    <3>1. /\ stream[n].server = "poll" /\ stream'[n].cursor = stream[n].cursor /\ stream'[n].down = stream[n].down
      BY <1>1, <2>2, InputDoes
    <3> QED
      BY <1>2, <2>2, <3>1, SameShows
  <2>3. CASE ServeClose(n) /\ stream[n].user
    BY <1>2, <2>3, CloseShows
  <2>4. CASE ServeRead(n) /\ stream[n].user
    <3>1. stream[n].job \in JobId
      BY <1>1, <2>4, ReadServes
    <3> QED
      BY <1>2, <2>4, <3>1, ReadShows
  <2>5. CASE ServeHangup(n) /\ stream[n].user
    BY <2>5 DEF ServeHangup
  <2>6. CASE ServeRelease(n) /\ stream[n].user
    <3>1. /\ stream[n].server = "release" /\ stream'[n].cursor = stream[n].cursor /\ stream'[n].down = stream[n].down
          /\ stream'[n].server = "gone"
      BY <1>1, <2>6, ReleaseDoes
    <3> QED
      BY <1>2, <2>6, <3>1, SameShows
  <2> QED
    BY <2>0, <2>1, <2>2, <2>3, <2>4, <2>5, <2>6 DEF ServerStep
<1> QED
  BY <1>2, <1>3, <1>4, <1>5 DEF Inv

\* A gap stays one when the ring turns over.
LEMMA GapLater ==
  ASSUME NEW a \in Nat, NEW b \in Nat, NEW lo \in Nat, NEW hi \in Nat, Gap(a, b, lo), lo <= hi
  PROVE  Gap(a, b, hi)
BY DEF Gap

\* And the workers keep it.
LEMMA WorkerInv ==
  ASSUME Inv, NEW j \in JobId, JobStep(j)
  PROVE  Inv' /\ Unfed
<1>1. Jobs /\ StreamTypes /\ Visits /\ Shows /\ JobTypes
  BY DEF Inv, Jobs
<1>2. Jobs' /\ Worked(j) /\ StreamTypes' /\ Visits' /\ JobTypes'
  BY <1>1, WorkerVisits DEF Jobs
<1>3. owner' = owner /\ stream' = stream /\ client' = client /\ typed' = typed /\ expected' = expected
  BY DEF JobStep
<1>4. ASSUME NEW i \in JobId
      PROVE  /\ job'[i].from = job[i].from /\ job'[i].claimed = job[i].claimed /\ written'[i] = written[i]
             /\ job[i].replay_start <= job'[i].replay_start /\ job[i].replay_end <= job'[i].replay_end
             /\ job[i].exit_status # None => job'[i].exit_status # None /\ job'[i].replay_end = job[i].replay_end
  <2>1. job[i].replay_start \in Nat /\ job[i].replay_end \in Nat
    BY <1>1, JobFields
  <2>2. CASE i = j
    BY <1>2, <2>2 DEF Worked
  <2>3. CASE i # j
    <3>1. job'[i] = job[i] /\ written' = written
      BY <1>2, <2>3 DEF Worked
    <3> QED
      BY <2>1, <3>1
  <2> QED
    BY <2>2, <2>3
<1>5. listed' = listed
  BY <1>2 DEF Worked
<1>6. ASSUME NEW n \in Stream PROVE Ends(n)'
  <2>1. Ends(n)
    BY <1>1 DEF Shows
  <2>2. CASE stream[n].user
    <3>1. listed \in JobId
      BY <2>2, UserAt
    <3>2. job[listed].exit_status # None =>
            job'[listed].exit_status # None /\ job'[listed].replay_end = job[listed].replay_end
      BY <1>4, <3>1
    <3> QED
      BY <1>3, <1>5, <2>1, <3>2 DEF Ends, Without
  <2>3. CASE ~stream[n].user
    BY <1>3, <2>3 DEF Ends
  <2> QED
    BY <2>2, <2>3
<1>7. ASSUME NEW c \in Client PROVE Follows(c)'
  <2>1. Follows(c) /\ client'[c] = client[c] /\ expected'[c] = expected[c] /\ expected[c] \in Nat
    BY <1>1, <1>3, JobSets DEF Shows, StreamTypes
  <2>2. CASE Watching(c)
    <3>1. Busy(c) /\ Watching(c)'
      BY <1>3, <2>2 DEF Busy, Watching
    <3>2. /\ listed \in JobId /\ stream[client[c].conn].down \in Seq(DownFrame) /\ client[c].cursor \in Nat
      BY <3>1, AtStream, JobSets
    <3>10. expected[c] \in Nat
      BY <2>1
    <3>9. PICK d \in Seq(DownFrame), a \in Nat, z \in {stream[client[c].conn].cursor}, e \in Nat :
            /\ d = stream[client[c].conn].down /\ a = client[c].cursor /\ z = stream[client[c].conn].cursor
            /\ e = expected[c]
      BY <3>2, <3>10
    <3>3. PICK lo \in Nat, hi \in Nat, lo2 \in Nat, hi2 \in Nat :
            /\ lo = job[listed].replay_start /\ hi = job[listed].replay_end
            /\ lo2 = job'[listed].replay_start /\ hi2 = job'[listed].replay_end
      <4>1. job[listed].replay_start \in Nat /\ job[listed].replay_end \in Nat
        BY <1>1, <3>2, JobFields
      <4>2. job'[listed].replay_start \in Nat /\ job'[listed].replay_end \in Nat
        <5>1. job' \in [JobId -> Job]
          BY <1>2 DEF JobTypes
        <5>2. job'[listed] \in Job
          BY <3>2, <5>1
        <5>3. job'[listed].replay_start \in 0..MaxOutput /\ job'[listed].replay_end \in 0..MaxOutput
          BY <5>2 DEF Job
        <5> QED
          BY <5>3, JobSets
      <4> QED
        BY <4>1, <4>2
    <3>4. lo <= lo2 /\ hi <= hi2 /\ job'[listed].from = job[listed].from
      BY <1>4, <3>2, <3>3
    <3>5. Gap(e, a, lo)
      BY <2>1, <2>2, <3>3, <3>9 DEF Follows
    <3>6. Gap(e, a, lo2)
      BY <3>4, <3>5, GapLater
    <3>7. ASSUME stream[client[c].conn].server # "claim" PROVE Led(d, a, z, lo2, hi2)
      <4>1. Led(d, a, z, lo, hi)
        BY <2>1, <2>2, <3>3, <3>9, <3>7 DEF Follows
      <4> QED
        BY <3>4, <4>1, LedStill
    <3>8. stream[client[c].conn].server = "claim" => a = job[listed].from
      BY <2>1, <2>2, <3>3, <3>9 DEF Follows
    <3> QED
      BY <1>3, <1>5, <2>1, <3>1, <3>3, <3>9, <3>4, <3>6, <3>7, <3>8 DEF Follows
  <2>3. CASE ~Watching(c)
    <3>1. ~Watching(c)'
      BY <1>3, <2>3 DEF Watching
    <3>2. SUFFICES ASSUME client[c].saved # None, listed # None, client[c].seen = listed
                   PROVE  /\ Gap(expected[c], client[c].saved, job'[listed].replay_start)
                          /\ client[c].saved <= job'[listed].replay_end
      BY <1>3, <1>5, <3>1 DEF Follows
    <3>3. listed \in JobId /\ client[c].saved \in Nat
      BY <1>1, <3>2, ClientFields, JobSets DEF StreamTypes, JobTypes
    <3>4. PICK lo \in Nat, hi \in Nat, lo2 \in Nat, hi2 \in Nat, a \in Nat, e \in Nat :
            /\ lo = job[listed].replay_start /\ hi = job[listed].replay_end
            /\ lo2 = job'[listed].replay_start /\ hi2 = job'[listed].replay_end
            /\ a = client[c].saved /\ e = expected[c]
      <4>1. job[listed].replay_start \in Nat /\ job[listed].replay_end \in Nat
        BY <1>1, <3>3, JobFields
      <4>2. job'[listed].replay_start \in Nat /\ job'[listed].replay_end \in Nat
        <5>1. job' \in [JobId -> Job]
          BY <1>2 DEF JobTypes
        <5>2. job'[listed] \in Job
          BY <3>3, <5>1
        <5>3. job'[listed].replay_start \in 0..MaxOutput /\ job'[listed].replay_end \in 0..MaxOutput
          BY <5>2 DEF Job
        <5> QED
          BY <5>3, JobSets
      <4> QED
        BY <2>1, <3>3, <4>1, <4>2
    <3>5. lo <= lo2 /\ hi <= hi2
      BY <1>4, <3>3, <3>4
    <3>6. Gap(e, a, lo) /\ a <= hi
      BY <2>1, <2>3, <3>2, <3>4 DEF Follows
    <3>7. Gap(e, a, lo2)
      BY <3>5, <3>6, GapLater
    <3>8. a <= hi2
      BY <3>5, <3>6
    <3> QED
      BY <3>4, <3>7, <3>8
  <2> QED
    BY <2>2, <2>3
<1>8. Unfed
  <2>1. ASSUME NEW i \in JobId PROVE Fed(i)' = Fed(i)
    <3>1. CASE i = j
      BY <1>2, <3>1 DEF Worked
    <3>2. CASE i # j
      BY <1>2, <3>2 DEF Worked, Fed
    <3> QED
      BY <3>1, <3>2
  <2>2. \A n \in Stream, i \in JobId : Claims(n, i)' => Claims(n, i)
    BY <1>4, <1>5 DEF Claims
  <2>3. \A n \in Stream : UpKept(n)
    BY <1>3 DEF UpKept
  <2> QED
    BY <1>3, <1>4, <2>1, <2>2, <2>3 DEF Unfed
<1> QED
  BY <1>2, <1>6, <1>7, <1>8 DEF Inv, Shows

-----------------------------------------------------------------------------
(* Types, the audit log, detachment and output.                            *)

\* Nothing has happened yet.
LEMMA InitInv ==
  ASSUME StreamInit
  PROVE  Inv /\ (\A j \in JobId : Fed(j) = <<>> /\ written[j] = 0) /\ \A n \in Stream : stream[n].up = <<>>
<1>1. /\ job = [j \in JobId |-> NoJob] /\ listed = None /\ accepted = [j \in JobId |-> <<>>]
      /\ written = [j \in JobId |-> 0] /\ trail = [j \in JobId |-> NoTrail]
      /\ owner = None /\ stream = [n \in Stream |-> NoConn] /\ client = [c \in Client |-> NoClient]
      /\ expected = [c \in Client |-> 0] /\ typed = 0
  BY DEF StreamInit, JobInit
<1>2. NoJob \in Job /\ NoTrail \in Trail /\ NoConn \in Conn /\ NoClient \in ClientState
  <2>1. NoCapture \in Capture
    BY DEF NoCapture, Capture
  <2>2. NoJob \in Job
    BY <2>1, JobSets DEF NoJob, Job
  <2>3. NoTrail \in Trail
    BY DEF NoTrail, Trail
  <2>4. NoConn \in Conn
    BY JobSets DEF NoConn, Conn
  <2>5. NoClient \in ClientState
    BY JobSets DEF NoClient, ClientState
  <2> QED
    BY <2>2, <2>3, <2>4, <2>5
<1>3. JobTypes
  <2>1. job \in [JobId -> Job]
    BY <1>1, <1>2
  <2>2. accepted \in [JobId -> Seq(Token)]
    BY <1>1
  <2>3. written \in [JobId -> Nat] /\ trail \in [JobId -> Trail] /\ listed \in JobId \cup {None}
    BY <1>1, <1>2
  <2> QED
    BY <2>1, <2>2, <2>3 DEF JobTypes
<1>4. ASSUME NEW j \in JobId PROVE Sound(j) /\ Traced(j)
  <2>1. job[j] = NoJob /\ accepted[j] = <<>> /\ trail[j] = NoTrail
    BY <1>1
  <2>2. Sound(j)
    BY <2>1, JobSets DEF Sound, NoJob
  <2>3. Traced(j)
    BY <2>1, JobSets DEF Traced, NoJob, NoCapture, NoTrail
  <2> QED
    BY <2>2, <2>3
<1>5. StreamTypes
  <2>1. owner \in Client \cup {None} /\ stream \in [Stream -> Conn] /\ client \in [Client -> ClientState]
    BY <1>1, <1>2
  <2>2. expected \in [Client -> 0..MaxOutput] /\ typed \in 0..MaxKeys
    BY <1>1, JobSets
  <2> QED
    BY <2>1, <2>2 DEF StreamTypes
<1>6. ASSUME NEW c \in Client PROVE Placed(c) /\ Follows(c)
  <2>1. client[c] = NoClient
    BY <1>1
  <2> QED
    BY <1>1, <2>1 DEF NoClient, Placed, Follows, Busy, Watching
<1>7. ASSUME NEW n \in Stream PROVE Held(n) /\ Ends(n) /\ stream[n].up = <<>>
  <2>1. stream[n] = NoConn
    BY <1>1
  <2> QED
    BY <2>1 DEF NoConn, Held, Ends, Serving, Without
<1>8. ASSUME NEW j \in JobId PROVE Fed(j) = <<>> /\ written[j] = 0
  <2>1. job[j].input = <<>> /\ accepted[j] = <<>> /\ written[j] = 0
    BY <1>1 DEF NoJob
  <2> QED
    BY <2>1 DEF Fed
<1>9. Inv
  BY <1>1, <1>3, <1>4, <1>5, <1>6, <1>7 DEF Inv, Jobs, Visits, Shows
<1> QED
  BY <1>7, <1>8, <1>9

\* Every step of a client but a key keeps the invariant and feeds nothing.
LEMMA ClientInv ==
  ASSUME Inv, NEW c \in Client, ClientStep(c), \A key \in {"plain", "prefix", "help"} : ~RelayKey(c, key)
  PROVE  Inv' /\ Unfed
<1>1. typed' = typed
  BY DEF ClientStep
<1>2. CASE AttachSession(c) \/ PtyStart(c) \/ PtyAttach(c) \/ ClaimGranted(c) \/ ClaimFailed(c)
  BY <1>1, <1>2, AttachSessionKeeps, PtyStartKeeps, PtyAttachKeeps, ClaimGrantedKeeps, NotRefused
<1>3. CASE RelayOutput(c) \/ RelayEnds(c)
  BY <1>1, <1>3, RelayOutputKeeps, RelayEndsKeeps
<1>4. CASE \E after \in {"prompt", "terminate", "away"} : RelayAction(c, after)
  BY <1>1, <1>4, RelayActionKeeps
<1>5. CASE DetachSkips(c) \/ DetachEnds(c) \/ DetachFails(c)
  BY <1>1, <1>5, DetachSkipsKeeps, DetachEndsKeeps, DetachFailsKeeps
<1>6. CASE StopCommand(c) \/ LeaveSession(c) \/ ClientDies(c)
  BY <1>1, <1>6, StopCommandKeeps, LeaveSessionKeeps, ClientDiesKeeps
<1> QED
  BY <1>2, <1>3, <1>4, <1>5, <1>6 DEF ClientStep

\* A step that changes nothing keeps the invariant.
LEMMA StutterInv ==
  ASSUME Inv, UNCHANGED vars
  PROVE  Inv'
<1>1. /\ job' = job /\ listed' = listed /\ accepted' = accepted /\ written' = written /\ trail' = trail
      /\ owner' = owner /\ stream' = stream /\ client' = client /\ typed' = typed /\ expected' = expected
  BY DEF vars, jobVars
<1>2. Jobs'
  BY <1>1 DEF Inv, Jobs, JobTypes, Sound, Traced
<1>3. StreamTypes'
  BY <1>1 DEF Inv, StreamTypes
<1>4. Visits'
  BY <1>1 DEF Inv, Visits, Placed, Held, Busy, Serving, Claimable, Without
<1>5. Shows'
  BY <1>1 DEF Inv, Shows, Follows, Ends, Watching, Without
<1> QED
  BY <1>2, <1>3, <1>4, <1>5 DEF Inv

\* The invariant holds throughout.
THEOREM TerminalInvariant == StreamSpec => []Inv
<1>1. StreamInit => Inv
  BY InitInv
<1>2. Inv /\ [StreamNext]_vars => Inv'
  <2>1. SUFFICES ASSUME Inv, [StreamNext]_vars PROVE Inv'
    OBVIOUS
  <2>2. ASSUME NEW j \in JobId, JobStep(j) PROVE Inv'
    BY <2>1, <2>2, WorkerInv
  <2>3. ASSUME NEW n \in Stream, ServerStep(n) PROVE Inv'
    BY <2>1, <2>3, ServerInv
  <2>4. ASSUME NEW c \in Client, ClientStep(c) PROVE Inv'
    BY <2>1, <2>4, ClientInv, RelayKeyKeeps
  <2>5. CASE UNCHANGED vars
    BY <2>1, <2>5, StutterInv
  <2> QED
    BY <2>1, <2>2, <2>3, <2>4, <2>5 DEF StreamNext
<1> QED
  BY <1>1, <1>2, PTL DEF StreamSpec

\* The variables keep their types, the input queue of a job its limit and the
\* ring its size (MAX_INPUT_BYTES and REPLAY_BYTES in pty.rs), whatever the
\* clients send and the process prints.
THEOREM StreamTypesHold == StreamSpec => []StreamTypeOK
<1>1. Inv => StreamTypeOK
  <2>1. SUFFICES ASSUME Inv PROVE StreamTypeOK
    OBVIOUS
  <2>2. Jobs /\ JobTypes /\ StreamTypes
    BY <2>1 DEF Inv, Jobs
  <2>3. ASSUME NEW j \in JobId
        PROVE  Len(job[j].input) <= MaxInputBytes /\ job[j].replay_end - job[j].replay_start <= ReplayBytes
    <3>1. /\ Len(job[j].input) <= MaxInputBytes /\ job[j].replay_end <= job[j].replay_start + ReplayBytes
      BY <2>2 DEF Jobs, Sound
    <3>2. job[j].replay_start \in Nat /\ job[j].replay_end \in Nat /\ ReplayBytes \in Nat
      BY <2>2, JobFields, JobSets
    <3>3. PICK lo \in Nat, hi \in Nat, r \in Nat :
            lo = job[j].replay_start /\ hi = job[j].replay_end /\ r = ReplayBytes /\ hi <= lo + r
      BY <3>1, <3>2
    <3>4. hi - lo <= r
      BY <3>3
    <3> QED
      BY <3>1, <3>3, <3>4
  <2>4. JobTypeOK
    BY <2>2, <2>3 DEF JobTypeOK, JobTypes
  <2> QED
    BY <2>2, <2>4 DEF StreamTypeOK, StreamTypes
<1> QED
  BY <1>1, TerminalInvariant, PTL

\* The audit log of a job holds a prefix of each direction's bytes and, unless
\* recording failed, the summary that record_stream_summary writes at the end
\* counts exactly the bytes that are missing from it.
THEOREM TrailStaysExact == StreamSpec => []TrailIsExact
<1>1. Inv => TrailIsExact
  <2>1. SUFFICES ASSUME Inv, NEW j \in JobId
                 PROVE  /\ ~trail[j].torn
                        /\ trail[j].finished /\ ~job[j].capture.failed =>
                             Len(accepted[j]) + job[j].replay_end = trail[j].input + trail[j].output + trail[j].summary
    BY DEF TrailIsExact
  <2>2. Traced(j) /\ JobTypes
    BY <2>1 DEF Inv, Jobs
  <2>3. /\ trail[j].input \in Nat /\ trail[j].output \in Nat /\ trail[j].summary \in Nat
    <3>1. trail[j] \in Trail
      BY <2>2, JobFields
    <3> QED
      BY <3>1 DEF Trail
  <2>4. /\ job[j].capture.recorded \in Nat /\ job[j].capture.dropped \in Nat
        /\ job[j].capture.input \in Nat /\ job[j].capture.output \in Nat
    <3>1. job[j].capture \in Capture
      BY <2>2, JobFields
    <3> QED
      BY <3>1 DEF Capture
  <2>5. ASSUME trail[j].finished, ~job[j].capture.failed
        PROVE  Len(accepted[j]) + job[j].replay_end = trail[j].input + trail[j].output + trail[j].summary
    <3>1. /\ job[j].capture.recorded + job[j].capture.dropped = job[j].capture.input + job[j].capture.output
          /\ job[j].capture.input = Len(accepted[j]) /\ job[j].capture.output = job[j].replay_end
          /\ job[j].capture.recorded = trail[j].input + trail[j].output
          /\ trail[j].summary = job[j].capture.dropped
      BY <2>2, <2>5 DEF Traced
    <3> QED
      BY <2>3, <2>4, <3>1
  <2> QED
    BY <2>2, <2>5 DEF Traced
<1> QED
  BY <1>1, TerminalInvariant, PTL

\* A client that reads the Detached frame can attach at once: the handler of
\* Close (serve_claimed_pty) gave the claim back before it sent the frame.
THEOREM DetachmentReleases == StreamSpec => []DetachIsAcknowledged
<1>1. Inv => DetachIsAcknowledged
  <2>1. SUFFICES ASSUME Inv, NEW n \in Stream,
                        \E k \in DOMAIN stream[n].down : stream[n].down[k].kind = "detached",
                        NEW j \in JobId, job[j].claimed = n
                 PROVE  FALSE
    BY DEF DetachIsAcknowledged
  <2>2. Held(n)
    BY <2>1 DEF Inv, Visits
  <2>3. stream[n].server = "gone" /\ stream[n].user
    BY <2>1, <2>2 DEF Held, Without
  <2>4. Serving(n)
    BY <2>1, <2>2, <2>3 DEF Held
  <2> QED
    BY <2>3, <2>4 DEF Serving
<1> QED
  BY <1>1, TerminalInvariant, PTL

\* What a client at the relay reads next.
LEMMA NextFrame ==
  ASSUME Inv, NEW c \in Client, client[c].pc = "relay", Down(c) # <<>>
  PROVE  /\ Head(Down(c)).kind = "output" =>
              /\ Head(Down(c)).offset >= expected[c]
              /\ \A k \in expected[c]..(Head(Down(c)).offset - 1) : k < job[client[c].seen].replay_start
         /\ Head(Down(c)).kind = "exit" => client[c].cursor = job[client[c].seen].replay_end
<1>1. Busy(c) /\ Watching(c)
  BY DEF Busy, Watching
<1>2. /\ client[c].seen = listed /\ listed \in JobId /\ stream[client[c].conn].down \in Seq(DownFrame)
      /\ Ends(client[c].conn) /\ stream[client[c].conn].user
      /\ job[listed].replay_start \in Nat /\ job[listed].replay_end \in Nat /\ client[c].cursor \in Nat
  BY <1>1, AtStream, JobSets
<1>3. expected[c] \in Nat
  BY JobSets DEF Inv, StreamTypes
<1>4. PICK lo \in Nat, hi \in Nat, a \in Nat, e \in Nat, d \in Seq(DownFrame), z \in {stream[client[c].conn].cursor} :
        /\ lo = job[listed].replay_start /\ hi = job[listed].replay_end /\ a = client[c].cursor
        /\ e = expected[c] /\ d = Down(c)
  BY <1>2, <1>3 DEF Down
<1>5. PICK y \in 0..hi : Leads(Head(d), a, y, lo) /\ Led(Tail(d), y, z, lo, hi)
  BY <1>1, <1>4, HeadLeads
<1>6. Head(d) \in DownFrame /\ d # <<>>
  BY <1>4
<1>7. Gap(e, a, lo)
  BY <1>4, WatchesWithin
<1>8. ASSUME Head(d).kind = "output"
      PROVE  Head(d).offset >= e /\ \A k \in e..(Head(d).offset - 1) : k < lo
  <2>1. Head(d).offset \in Nat
    BY <1>6, <1>8, DownFrames, JobSets
  <2>2. PICK o \in Nat : o = Head(d).offset
    BY <2>1
  <2>3. Gap(a, o, lo)
    BY <1>5, <1>8, <2>2 DEF Leads
  <2>4. Gap(e, o, lo)
    BY <1>7, <2>3, GapTwice
  <2>5. o >= e /\ \A k \in e..(o - 1) : k < lo
    BY <2>4 DEF Gap
  <2> QED
    BY <2>2, <2>5
<1>9. ASSUME Head(d).kind = "exit" PROVE a = hi
  <2>1. 1 \in DOMAIN d /\ Head(d) = d[1] /\ Len(d) \in Nat
    BY <1>6
  <2>2. d = stream[client[c].conn].down
    BY <1>4 DEF Down
  <2>3. 1 = Len(d) /\ stream[client[c].conn].cursor = hi
    BY <1>2, <1>4, <1>9, <2>1, <2>2 DEF Ends
  <2>4. z = hi /\ y = a
    BY <1>4, <1>5, <1>9, <2>3 DEF Leads
  <2>9. d # <<>>
    BY <1>6
  <2>5. Tail(d) \in Seq(DownFrame) /\ Len(Tail(d)) = Len(d) - 1
    BY <2>9
  <2>6. PICK t \in Seq(DownFrame) : t = Tail(d) /\ Len(t) = 0
    <3>1. PICK t \in Seq(DownFrame), l \in Nat : t = Tail(d) /\ l = Len(d) /\ Len(t) = l - 1
      BY <2>1, <2>5
    <3>2. l = 1
      BY <2>3, <3>1
    <3> QED
      BY <3>1, <3>2
  <2>8. PICK p \in [0..Len(t) -> 0..hi] : Path(p, t, y, z, lo)
    BY <1>5, <2>6 DEF Led
  <2>7. p[0] = y /\ p[0] = z
    BY <2>6, <2>8 DEF Path
  <2> QED
    BY <2>4, <2>7
<1> QED
  BY <1>2, <1>4, <1>8, <1>9

\* A client that leaves a job and returns is shown its output in order, nothing
\* twice and nothing left out that the ring (append_output, read_claimed) still
\* held, and reads of the exit when it has read all the output.
THEOREM OutputStaysContiguous == StreamSpec => OutputIsContiguous
<1> DEFINE Body ==
      \A c \in Client :
       client[c].pc = "relay" /\ client'[c].pc \in {"relay", "prompt"} /\ Down(c) # <<>>
         /\ stream'[client[c].conn].down # Down(c) =>
       LET frame == Head(Down(c)) IN
       /\ frame.kind = "output" =>
            /\ frame.offset >= expected[c]
            /\ \A k \in expected[c]..(frame.offset - 1) : k < job[client[c].seen].replay_start
       /\ frame.kind = "exit" => client[c].cursor = job[client[c].seen].replay_end
<1>1. Inv => Body
  BY NextFrame
<1>2. Inv => [Body]_vars
  BY <1>1
<1> QED
  BY <1>2, TerminalInvariant, PTL DEF OutputIsContiguous

-----------------------------------------------------------------------------
(* The order of the input.                                                 *)

Rising(s)   == \A a, b \in DOMAIN s : a < b => s[a] < s[b]
UpTo(s, t)  == \A a \in DOMAIN s : s[a] <= t
Below(s, r) == \A a \in DOMAIN s, b \in DOMAIN r : s[a] < r[b]

\* The input frames of a queue: each in order and typed by t, all of one
\* before all of the next, and all after what is in s.
NoInput(u)   == \A k \in DOMAIN u : u[k].kind # "input"
Frames(u, t) == \A k \in DOMAIN u : u[k].kind = "input" => Rising(u[k].bytes) /\ UpTo(u[k].bytes, t)
Ordered(u)   == \A k, l \in DOMAIN u : k < l /\ u[k].kind = "input" /\ u[l].kind = "input" =>
                                         Below(u[k].bytes, u[l].bytes)
After(s, u)  == \A k \in DOMAIN u : u[k].kind = "input" => Below(s, u[k].bytes)

\* Two rising sequences, one below the other.
LEMMA ConcatRises ==
  ASSUME NEW s \in Seq(Token), NEW b \in Seq(Token), NEW t \in Nat,
         Rising(s), Rising(b), Below(s, b), UpTo(s, t), UpTo(b, t)
  PROVE  /\ Rising(s \o b) /\ UpTo(s \o b, t) /\ Len(s \o b) = Len(s) + Len(b)
         /\ \A r \in Seq(Token) : Below(s, r) /\ Below(b, r) => Below(s \o b, r)
<1>0. Len(s) \in Nat /\ Len(b) \in Nat
  BY LenProperties
<1>1. PICK m \in Nat, l \in Nat : m = Len(s) /\ l = Len(b)
  BY <1>0
<1>12. s \o b \in Seq(Token)
  BY ConcatProperties
<1>2. PICK w \in Seq(Token) : w = s \o b
  BY <1>12
<1>3. Len(w) = m + l /\ DOMAIN w = 1..(m + l) /\ DOMAIN s = 1..m /\ DOMAIN b = 1..l
  BY <1>1, <1>2
<1>4. \A k \in 1..m : w[k] = s[k]
  BY <1>1, <1>2
<1>5. \A k \in 1..(m + l) : k > m => k - m \in 1..l /\ w[k] = b[k - m]
  BY <1>1, <1>2
<1>6. \A k \in 1..(m + l) : k <= m => k \in 1..m
  OBVIOUS
<1>7. ASSUME NEW k \in 1..(m + l), NEW i \in 1..(m + l), k < i PROVE w[k] < w[i]
  <2>1. CASE i <= m
    <3>1. k \in 1..m /\ i \in 1..m
      BY <1>7, <2>1
    <3> QED
      BY <1>3, <1>4, <1>7, <3>1 DEF Rising
  <2>2. CASE k > m
    <3>1. /\ k - m \in 1..l /\ w[k] = b[k - m] /\ i - m \in 1..l /\ w[i] = b[i - m] /\ k - m < i - m
      BY <1>5, <1>7, <2>2
    <3> QED
      BY <1>3, <3>1 DEF Rising
  <2>3. CASE k <= m /\ i > m
    BY <1>3, <1>4, <1>5, <1>6, <2>3 DEF Below
  <2> QED
    BY <2>1, <2>2, <2>3
<1>8. Rising(w)
  BY <1>3, <1>7 DEF Rising
<1>9. ASSUME NEW k \in 1..(m + l) PROVE w[k] <= t
  <2>1. CASE k <= m
    BY <1>3, <1>4, <1>6, <2>1 DEF UpTo
  <2>2. CASE k > m
    BY <1>3, <1>5, <2>2 DEF UpTo
  <2> QED
    BY <2>1, <2>2
<1>10. UpTo(w, t)
  BY <1>3, <1>9 DEF UpTo
<1>11. ASSUME NEW r \in Seq(Token), Below(s, r), Below(b, r) PROVE Below(w, r)
  <2>1. ASSUME NEW k \in 1..(m + l), NEW i \in DOMAIN r PROVE w[k] < r[i]
    <3>1. CASE k <= m
      BY <1>3, <1>4, <1>6, <1>11, <3>1 DEF Below
    <3>2. CASE k > m
      BY <1>3, <1>5, <1>11, <3>2 DEF Below
    <3> QED
      BY <3>1, <3>2
  <2> QED
    BY <1>3, <2>1 DEF Below
<1> QED
  BY <1>1, <1>2, <1>3, <1>8, <1>10, <1>11

\* A later time.
LEMMA FramesLater ==
  ASSUME NEW t \in Nat, NEW v \in Nat, t <= v
  PROVE  /\ \A s \in Seq(Token) : UpTo(s, t) => UpTo(s, v)
         /\ \A u \in Seq(UpFrame) : Frames(u, t) => Frames(u, v)
<1>1. ASSUME NEW s \in Seq(Token), UpTo(s, t) PROVE UpTo(s, v)
  <2>1. ASSUME NEW k \in DOMAIN s PROVE s[k] <= v
    <3>0. s[k] \in Token /\ s[k] <= t
      BY <1>1 DEF UpTo
    <3>1. s[k] \in Nat /\ s[k] <= t
      BY <3>0, JobSets
    <3> QED
      BY <3>1
  <2> QED
    BY <2>1 DEF UpTo
<1>2. ASSUME NEW u \in Seq(UpFrame), Frames(u, t) PROVE Frames(u, v)
  <2>1. ASSUME NEW k \in DOMAIN u, u[k].kind = "input" PROVE Rising(u[k].bytes) /\ UpTo(u[k].bytes, v)
    <3>0. u[k] \in UpFrame
      BY <2>1
    <3>1. u[k].bytes \in Seq(Token)
      BY <2>1, <3>0, UpFrames
    <3> QED
      BY <1>1, <1>2, <2>1, <3>1 DEF Frames
  <2> QED
    BY <2>1 DEF Frames
<1> QED
  BY <1>1, <1>2

\* The rest of a queue.
LEMMA TailFrames ==
  ASSUME NEW u \in Seq(UpFrame), u # <<>>
  PROVE  /\ Tail(u) \in Seq(UpFrame) /\ Head(u) \in UpFrame
         /\ \A t \in Nat : Frames(u, t) => Frames(Tail(u), t)
         /\ \A t \in Nat : Frames(u, t) /\ Head(u).kind = "input" => Rising(Head(u).bytes) /\ UpTo(Head(u).bytes, t)
         /\ Ordered(u) => Ordered(Tail(u))
         /\ Ordered(u) /\ Head(u).kind = "input" => After(Head(u).bytes, Tail(u))
         /\ NoInput(u) => NoInput(Tail(u))
         /\ \A s \in Seq(Token) : After(s, u) => After(s, Tail(u))
         /\ \A s \in Seq(Token) : After(s, u) /\ Head(u).kind = "input" => Below(s, Head(u).bytes)
<1>0. Tail(u) \in Seq(UpFrame) /\ Len(u) \in Nat
  BY LenProperties
<1>1. PICK v \in Seq(UpFrame), m \in Nat : v = Tail(u) /\ m = Len(u)
  BY <1>0
<1>2. /\ DOMAIN u = 1..m /\ DOMAIN v = 1..(m - 1) /\ m >= 1 /\ Head(u) = u[1]
      /\ \A k \in 1..(m - 1) : v[k] = u[k + 1]
  BY <1>1
<1>3. \A k \in DOMAIN v : k \in Nat /\ k + 1 \in DOMAIN u /\ 1 < k + 1 /\ v[k] = u[k + 1]
  BY <1>2
<1>4. 1 \in DOMAIN u /\ Head(u) \in UpFrame
  BY <1>2
<1>5. ASSUME NEW t \in Nat, Frames(u, t) PROVE Frames(v, t)
  BY <1>3, <1>5 DEF Frames
<1>6. ASSUME NEW t \in Nat, Frames(u, t), Head(u).kind = "input"
      PROVE  Rising(Head(u).bytes) /\ UpTo(Head(u).bytes, t)
  BY <1>2, <1>4, <1>6 DEF Frames
<1>7. ASSUME Ordered(u) PROVE Ordered(v)
  <2>1. ASSUME NEW k \in DOMAIN v, NEW l \in DOMAIN v, k < l, v[k].kind = "input", v[l].kind = "input"
        PROVE  Below(v[k].bytes, v[l].bytes)
    <3>1. /\ k + 1 \in DOMAIN u /\ l + 1 \in DOMAIN u /\ k + 1 < l + 1 /\ v[k] = u[k + 1] /\ v[l] = u[l + 1]
      BY <1>3, <2>1
    <3> QED
      BY <1>7, <2>1, <3>1 DEF Ordered
  <2> QED
    BY <2>1 DEF Ordered
<1>8. ASSUME Ordered(u), Head(u).kind = "input" PROVE After(Head(u).bytes, v)
  BY <1>2, <1>3, <1>4, <1>8 DEF Ordered, After
<1>9. NoInput(u) => NoInput(v)
  BY <1>3 DEF NoInput
<1>10. \A s \in Seq(Token) : After(s, u) => After(s, v)
  BY <1>3 DEF After
<1>11. \A s \in Seq(Token) : After(s, u) /\ Head(u).kind = "input" => Below(s, Head(u).bytes)
  BY <1>2, <1>4 DEF After
<1> QED
  BY <1>1, <1>4, <1>5, <1>6, <1>7, <1>8, <1>9, <1>10, <1>11

\* One frame more, which is no input or comes after all the others.
LEMMA MoreFrames ==
  ASSUME NEW u \in Seq(UpFrame), NEW f \in UpFrame, NEW t \in Nat, Frames(u, t), Ordered(u)
  PROVE  /\ f.kind # "input" =>
              /\ Frames(Append(u, f), t) /\ Ordered(Append(u, f)) /\ (NoInput(u) => NoInput(Append(u, f)))
              /\ \A s \in Seq(Token) : After(s, u) => After(s, Append(u, f))
         /\ f.kind = "input" /\ Rising(f.bytes) /\ UpTo(f.bytes, t)
              /\ (\A k \in DOMAIN u : u[k].kind = "input" => Below(u[k].bytes, f.bytes)) =>
              /\ Frames(Append(u, f), t) /\ Ordered(Append(u, f))
              /\ \A s \in Seq(Token) : After(s, u) /\ Below(s, f.bytes) => After(s, Append(u, f))
<1>0. Append(u, f) \in Seq(UpFrame) /\ Len(u) \in Nat
  BY LenProperties, AppendProperties
<1>1. PICK v \in Seq(UpFrame), m \in Nat : v = Append(u, f) /\ m = Len(u)
  BY <1>0
<1>2. DOMAIN u = 1..m /\ DOMAIN v = 1..(m + 1) /\ v[m + 1] = f /\ \A k \in 1..m : v[k] = u[k]
  BY <1>1
<1>3. \A k \in DOMAIN v : k = m + 1 \/ (k \in DOMAIN u /\ v[k] = u[k])
  BY <1>2
<1>4. \A k, l \in DOMAIN v : k < l => k \in DOMAIN u /\ v[k] = u[k]
  BY <1>2
<1>5. v[m + 1] = f
  BY <1>2
<1>6. ASSUME f.kind # "input"
      PROVE  /\ Frames(v, t) /\ Ordered(v) /\ (NoInput(u) => NoInput(v))
             /\ \A s \in Seq(Token) : After(s, u) => After(s, v)
  <2>1. Frames(v, t)
    BY <1>3, <1>5, <1>6 DEF Frames
  <2>2. Ordered(v)
    BY <1>3, <1>4, <1>5, <1>6 DEF Ordered
  <2>3. NoInput(u) => NoInput(v)
    BY <1>3, <1>5, <1>6 DEF NoInput
  <2>4. \A s \in Seq(Token) : After(s, u) => After(s, v)
    BY <1>3, <1>5, <1>6 DEF After
  <2> QED
    BY <2>1, <2>2, <2>3, <2>4
<1>7. ASSUME f.kind = "input", Rising(f.bytes), UpTo(f.bytes, t),
             \A k \in DOMAIN u : u[k].kind = "input" => Below(u[k].bytes, f.bytes)
      PROVE  /\ Frames(v, t) /\ Ordered(v)
             /\ \A s \in Seq(Token) : After(s, u) /\ Below(s, f.bytes) => After(s, v)
  <2>1. Frames(v, t)
    BY <1>3, <1>5, <1>7 DEF Frames
  <2>2. Ordered(v)
    <3>1. ASSUME NEW k \in DOMAIN v, NEW l \in DOMAIN v, k < l, v[k].kind = "input", v[l].kind = "input"
          PROVE  Below(v[k].bytes, v[l].bytes)
      <4>1. k \in DOMAIN u /\ v[k] = u[k]
        BY <1>4, <3>1
      <4>2. CASE l = m + 1
        BY <1>5, <1>7, <3>1, <4>1, <4>2
      <4>3. CASE l # m + 1
        BY <1>3, <3>1, <4>1, <4>3 DEF Ordered
      <4> QED
        BY <4>2, <4>3
    <3> QED
      BY <3>1 DEF Ordered
  <2>3. \A s \in Seq(Token) : After(s, u) /\ Below(s, f.bytes) => After(s, v)
    BY <1>3, <1>5, <1>7 DEF After
  <2> QED
    BY <2>1, <2>2, <2>3
<1> QED
  BY <1>1, <1>6, <1>7

\* The process has taken, and the job has queued, what was written to it, in
\* the order it was typed.
Feeding(j) == Len(Fed(j)) = written[j] /\ Rising(Fed(j)) /\ UpTo(Fed(j), typed)

\* What is still in flight comes in order after it.
Queued(n) ==
  /\ Frames(stream[n].up, typed) /\ Ordered(stream[n].up)
  /\ stream[n].server = "claim" => NoInput(stream[n].up)
  /\ \A j \in JobId : Claims(n, j) => After(Fed(j), stream[n].up)

Feeds == (\A j \in JobId : Feeding(j)) /\ (\A n \in Stream : Queued(n))

\* The types of what is fed.
LEMMA FedTypes ==
  ASSUME Inv
  PROVE  /\ typed \in Nat /\ \A j \in JobId : Fed(j) \in Seq(Token) /\ Len(Fed(j)) \in Nat
         /\ \A n \in Stream : stream[n].up \in Seq(UpFrame)
<1>1. JobTypes /\ StreamTypes
  BY DEF Inv, Jobs
<1>2. typed \in Nat
  BY <1>1, JobSets DEF StreamTypes
<1>3. ASSUME NEW j \in JobId PROVE Fed(j) \in Seq(Token) /\ Len(Fed(j)) \in Nat
  <2>1. accepted[j] \in Seq(Token) /\ job[j].input \in Seq(Token)
    BY <1>1, JobFields
  <2>2. Fed(j) \in Seq(Token)
    BY <2>1, ConcatProperties DEF Fed
  <2> QED
    BY <2>2, LenProperties
<1>4. ASSUME NEW n \in Stream PROVE stream[n].up \in Seq(UpFrame)
  BY <1>1, ConnFields DEF StreamTypes
<1> QED
  BY <1>2, <1>3, <1>4

\* A queue without frames.
LEMMA EmptyFrames ==
  /\ \A t : Frames(<<>>, t)
  /\ Ordered(<<>>) /\ NoInput(<<>>) /\ \A s : After(s, <<>>)
BY DEF Frames, Ordered, NoInput, After

\* A step that feeds nothing keeps the order.
LEMMA UnfedKeeps ==
  ASSUME Inv, Feeds, Unfed
  PROVE  Feeds'
<1>1. /\ typed \in Nat /\ \A j \in JobId : Fed(j) \in Seq(Token)
      /\ \A n \in Stream : stream[n].up \in Seq(UpFrame)
  BY FedTypes
<1>2. typed' = typed /\ \A j \in JobId : Fed(j)' = Fed(j) /\ written'[j] = written[j]
  BY DEF Unfed
<1>3. ASSUME NEW j \in JobId PROVE Feeding(j)'
  <2>1. Feeding(j)
    BY DEF Feeds
  <2> QED
    BY <1>2, <2>1 DEF Feeding
<1>4. ASSUME NEW n \in Stream PROVE Queued(n)'
  <2>1. Queued(n) /\ UpKept(n) /\ \A j \in JobId : Claims(n, j)' => Claims(n, j)
    BY DEF Feeds, Unfed
  <2>2. PICK u \in Seq(UpFrame), t \in Nat, f \in UpFrame :
          u = stream[n].up /\ t = typed /\ f = [kind |-> "close"]
    BY <1>1, UpFrames
  <2>3. Frames(u, t) /\ Ordered(u) /\ \A j \in JobId : Claims(n, j) => After(Fed(j), u)
    BY <2>1, <2>2 DEF Queued
  <2>4. CASE stream'[n].up = <<>>
    BY <2>4, EmptyFrames DEF Queued
  <2>5. CASE /\ stream'[n].server = "claim" => stream[n].server = "claim"
             /\ stream'[n].up = u \/ stream'[n].up = Append(u, f)
    <3>1. f.kind # "input"
      BY <2>2
    <3>2. /\ Frames(Append(u, f), t) /\ Ordered(Append(u, f)) /\ (NoInput(u) => NoInput(Append(u, f)))
          /\ \A s \in Seq(Token) : After(s, u) => After(s, Append(u, f))
      BY <2>3, <3>1, MoreFrames
    <3>3. PICK v : v = stream'[n].up
      OBVIOUS
    <3>4. /\ Frames(v, t) /\ Ordered(v) /\ (NoInput(u) => NoInput(v))
          /\ \A s \in Seq(Token) : After(s, u) => After(s, v)
      BY <2>3, <2>5, <3>2, <3>3
    <3>5. stream[n].server = "claim" => NoInput(u)
      BY <2>1, <2>2 DEF Queued
    <3>6. stream'[n].server = "claim" => NoInput(v)
      BY <2>5, <3>4, <3>5
    <3>7. ASSUME NEW j \in JobId, Claims(n, j)' PROVE After(Fed(j)', v)
      BY <1>1, <1>2, <2>1, <2>3, <3>4, <3>7
    <3> QED
      BY <1>2, <2>2, <3>3, <3>4, <3>6, <3>7 DEF Queued
  <2> QED
    BY <2>1, <2>2, <2>4, <2>5 DEF UpKept
<1> QED
  BY <1>3, <1>4 DEF Feeds

\* A handler that writes nothing and claims nothing feeds nothing.
LEMMA ServedUnfed ==
  ASSUME Inv, NEW n \in Stream, Served(n), stream'[n].up = stream[n].up \/ stream'[n].up = <<>>,
         \A j \in JobId : Kept(j) /\ job'[j].claimed \in {job[j].claimed, None}
  PROVE  Unfed
<1>1. Jobs' /\ listed' = listed /\ typed' = typed /\ OthersKeep(n) /\ stream'[n].server # "claim"
  BY DEF Served
<1>2. Rested
  BY <1>1 DEF Rested
<1>3. ASSUME NEW m \in Stream PROVE UpKept(m)
  BY <1>1 DEF UpKept, OthersKeep
<1> QED
  BY <1>1, <1>2, <1>3, RestedUnfed DEF Inv

\* A claim is granted before there is any input.
LEMMA GrantFeeds ==
  ASSUME Inv, Feeds, NEW n \in Stream, Served(n), ServeClaim(n), Claimable(n)
  PROVE  Feeds'
<1>1. Jobs /\ StreamTypes
  BY DEF Inv
<1>2. /\ claim(n) /\ stream[n].server = "claim" /\ OthersKeep(n) /\ stream'[n].up = stream[n].up
      /\ stream'[n].server # "claim" /\ typed' = typed
  BY <1>1, GrantDoes DEF Served
<1>3. /\ listed \in JobId /\ listed' = listed /\ job'[listed].claimed = n
      /\ \A j \in JobId : Kept(j) /\ (j # listed => job'[j] = job[j])
  BY <1>1, <1>2, ClaimKeeps
<1>4. \A j \in JobId : Fed(j)' = Fed(j) /\ written'[j] = written[j]
  BY <1>3 DEF Kept, Fed
<1>5. ASSUME NEW j \in JobId PROVE Feeding(j)'
  <2>1. Feeding(j)
    BY DEF Feeds
  <2> QED
    BY <1>2, <1>4, <2>1 DEF Feeding
<1>6. ASSUME NEW m \in Stream PROVE Queued(m)'
  <2>1. Queued(m)
    BY DEF Feeds
  <2>2. CASE m = n
    <3>1. NoInput(stream[n].up)
      BY <1>2, <2>1, <2>2 DEF Queued
    <3>2. \A s : After(s, stream[n].up)
      BY <3>1 DEF NoInput, After
    <3> QED
      BY <1>2, <2>1, <2>2, <3>2 DEF Queued
  <2>3. CASE m # n
    <3>1. stream'[m] = stream[m]
      BY <1>2, <2>3 DEF OthersKeep
    <3>2. ASSUME NEW j \in JobId PROVE ~Claims(m, j)'
      BY <1>3, <2>3 DEF Claims
    <3> QED
      BY <1>2, <2>1, <3>1, <3>2 DEF Queued
  <2> QED
    BY <2>2, <2>3
<1> QED
  BY <1>5, <1>6 DEF Feeds

\* Frames after one sequence and after another are after both.
LEMMA AfterBoth ==
  ASSUME NEW s \in Seq(Token), NEW b \in Seq(Token), NEW t \in Nat, NEW u \in Seq(UpFrame),
         Rising(s), Rising(b), Below(s, b), UpTo(s, t), UpTo(b, t), After(s, u), After(b, u)
  PROVE  After(s \o b, u)
<1>1. ASSUME NEW k \in DOMAIN u, u[k].kind = "input" PROVE Below(s \o b, u[k].bytes)
  <2>1. u[k] \in UpFrame
    BY <1>1
  <2>2. u[k].bytes \in Seq(Token)
    BY <1>1, <2>1, UpFrames
  <2>3. Below(s, u[k].bytes) /\ Below(b, u[k].bytes)
    BY <1>1 DEF After
  <2> QED
    BY <2>2, <2>3, ConcatRises
<1> QED
  BY <1>1 DEF After

\* A frame of input is queued for the job or refused.
LEMMA InputFeeds ==
  ASSUME Inv, Feeds, NEW n \in Stream, Served(n), ServeInput(n)
  PROVE  Feeds'
<1>1. Jobs /\ StreamTypes /\ JobTypes /\ Held(n)
  BY DEF Inv, Visits, Jobs
<1>2. /\ stream[n].server = "poll" /\ stream[n].up # <<>> /\ Head(stream[n].up).kind = "input"
      /\ Head(stream[n].up).bytes \in Seq(Token) /\ OthersKeep(n) /\ stream'[n].server # "claim"
      /\ stream'[n].up = Tail(stream[n].up) /\ typed' = typed
      /\ write_claimed(n, stream[n].job, Head(stream[n].up).bytes) \/ UNCHANGED jobVars
  BY <1>1, InputDoes DEF Served
<1>3. stream[n].job \in JobId
  BY <1>1, <1>2 DEF Held, Serving
<1>4. typed \in Nat /\ stream[n].up \in Seq(UpFrame) /\ \A j \in JobId : Fed(j) \in Seq(Token) /\ Len(Fed(j)) \in Nat
  BY FedTypes
<1>5. PICK u \in Seq(UpFrame), t \in Nat, b \in Seq(Token), i \in JobId :
        u = stream[n].up /\ t = typed /\ b = Head(u).bytes /\ i = stream[n].job
  BY <1>2, <1>3, <1>4
<1>6. u # <<>> /\ Head(u).kind = "input" /\ Frames(u, t) /\ Ordered(u)
  <2>1. Queued(n)
    BY DEF Feeds
  <2> QED
    BY <1>2, <1>5, <2>1 DEF Queued
<1>7. PICK v \in Seq(UpFrame) : v = Tail(u)
  BY <1>6, TailFrames
<1>8. /\ Frames(v, t) /\ Ordered(v) /\ Rising(b) /\ UpTo(b, t) /\ After(b, v)
      /\ \A s \in Seq(Token) : After(s, u) => After(s, v) /\ Below(s, b)
  BY <1>5, <1>6, <1>7, TailFrames
<1>9. stream'[n].up = v /\ typed' = t
  BY <1>2, <1>5, <1>7
<1>10. \A j \in JobId : Claims(n, j) => After(Fed(j), u)
  BY <1>5 DEF Feeds, Queued
<1>11. CASE UNCHANGED jobVars
  <2>1. job' = job /\ listed' = listed /\ accepted' = accepted /\ written' = written
    BY <1>1, <1>11, JobsStay
  <2>2. \A j \in JobId : Fed(j)' = Fed(j)
    BY <2>1 DEF Fed
  <2>3. ASSUME NEW j \in JobId PROVE Feeding(j)'
    <3>1. Feeding(j)
      BY DEF Feeds
    <3> QED
      BY <1>2, <2>1, <2>2, <3>1 DEF Feeding
  <2>4. ASSUME NEW m \in Stream PROVE Queued(m)'
    <3>1. \A j \in JobId : Claims(m, j)' => Claims(m, j)
      BY <2>1 DEF Claims
    <3>2. CASE m = n
      <4>1. ASSUME NEW j \in JobId, Claims(n, j)' PROVE After(Fed(j), v)
        BY <1>4, <1>8, <1>10, <3>1, <3>2, <4>1
      <4> QED
        BY <1>2, <1>8, <1>9, <2>2, <3>2, <4>1 DEF Queued
    <3>3. CASE m # n
      <4>1. Queued(m) /\ stream'[m] = stream[m]
        BY <1>2, <3>3 DEF Feeds, OthersKeep
      <4> QED
        BY <1>2, <2>2, <3>1, <4>1 DEF Queued
    <3> QED
      BY <3>2, <3>3
  <2> QED
    BY <2>3, <2>4 DEF Feeds
<1>12. CASE write_claimed(n, i, b)
  <2>1. /\ Claims(n, i) /\ listed' = listed
        /\ job'[i].input = job[i].input \o b /\ written'[i] = written[i] + Len(b)
        /\ accepted' = accepted
        /\ \A j \in JobId : /\ j # i => job'[j] = job[j] /\ written'[j] = written[j]
                            /\ job'[j].claimed = job[j].claimed
    BY <1>1, <1>12, WriteKeeps
  <2>2. PICK a \in Seq(Token), q \in Seq(Token) : a = accepted[i] /\ q = job[i].input
    BY <1>1, JobFields
  <2>3. (a \o q) \o b = a \o (q \o b)
    BY ConcatAssociative
  <2>4. PICK s \in Seq(Token) : s = Fed(i)
    BY <1>4
  <2>5. Fed(i)' = s \o b
    BY <2>1, <2>2, <2>3, <2>4 DEF Fed
  <2>6. \A j \in JobId : j # i => Fed(j)' = Fed(j)
    BY <2>1 DEF Fed
  <2>7. After(s, u) /\ After(s, v) /\ Below(s, b)
    BY <1>8, <1>10, <2>1, <2>4
  <2>8. Feeding(i)
    BY DEF Feeds
  <2>9. Rising(s) /\ UpTo(s, t) /\ Len(s) = written[i]
    BY <1>5, <2>4, <2>8 DEF Feeding
  <2>10. Rising(s \o b) /\ UpTo(s \o b, t) /\ Len(s \o b) = Len(s) + Len(b)
    BY <1>8, <2>7, <2>9, ConcatRises
  <2>11. After(s \o b, v)
    BY <1>8, <2>7, <2>9, AfterBoth
  <2>12. ASSUME NEW j \in JobId PROVE Feeding(j)'
    <3>1. CASE j = i
      BY <1>9, <2>1, <2>5, <2>9, <2>10, <3>1 DEF Feeding
    <3>2. CASE j # i
      <4>1. Feeding(j)
        BY DEF Feeds
      <4>2. Fed(j)' = Fed(j) /\ written'[j] = written[j]
        BY <2>1, <2>6, <3>2
      <4> QED
        BY <1>2, <4>1, <4>2 DEF Feeding
    <3> QED
      BY <3>1, <3>2
  <2>13. \A m \in Stream, j \in JobId : Claims(m, j)' => m = n /\ j = i
    BY <2>1 DEF Claims
  <2>14. ASSUME NEW m \in Stream PROVE Queued(m)'
    <3>1. CASE m = n
      <4>1. ASSUME NEW j \in JobId, Claims(n, j)' PROVE After(Fed(j)', v)
        BY <2>5, <2>11, <2>13, <4>1
      <4> QED
        BY <1>2, <1>8, <1>9, <3>1, <4>1 DEF Queued
    <3>2. CASE m # n
      <4>1. Queued(m) /\ stream'[m] = stream[m]
        BY <1>2, <3>2 DEF Feeds, OthersKeep
      <4>2. \A j \in JobId : ~Claims(m, j)'
        BY <2>13, <3>2
      <4> QED
        BY <1>2, <4>1, <4>2 DEF Queued
    <3> QED
      BY <3>1, <3>2
  <2> QED
    BY <2>12, <2>14 DEF Feeds
<1> QED
  BY <1>2, <1>5, <1>11, <1>12

\* What was typed before is below what is typed now.
LEMMA TypedBelow ==
  ASSUME NEW s \in Seq(Token), NEW t \in Nat, NEW b \in Seq(Token), NEW n \in Nat,
         Len(b) = n, \A k \in 1..n : b[k] = t + k
  PROVE  /\ UpTo(s, t) => Below(s, b)
         /\ Rising(b) /\ UpTo(b, t + n)
<1>1. DOMAIN b = 1..n
  BY LenProperties
<1>2. \A k \in DOMAIN b : k \in Nat /\ 1 <= k /\ k <= n /\ b[k] = t + k
  BY <1>1
<1>3. Rising(b) /\ UpTo(b, t + n)
  BY <1>2 DEF Rising, UpTo
<1>4. ASSUME UpTo(s, t), NEW k \in DOMAIN s, NEW i \in DOMAIN b PROVE s[k] < b[i]
  <2>0. s[k] \in Token
    OBVIOUS
  <2>1. s[k] \in Nat /\ s[k] <= t
    BY <1>4, <2>0, JobSets DEF UpTo
  <2> QED
    BY <1>2, <2>1
<1> QED
  BY <1>3, <1>4 DEF Below

\* A key adds frames after all the others.
LEMMA KeyFeeds ==
  ASSUME Inv, Feeds, NEW c \in Client, NEW key \in {"plain", "prefix", "help"}, RelayKey(c, key)
  PROVE  Feeds'
<1>1. PICK n \in Stream : n = client[c].conn /\ stream[n].server # "claim"
  BY RelayKeyKeeps
<1>2. PICK l \in 0..2, b \in Seq(Token) :
        /\ typed' = typed + l /\ Len(b) = l /\ \A k \in 1..l : b[k] = typed + k
        /\ \/ stream' = stream
           \/ /\ OthersKeep(n) /\ stream'[n].server = stream[n].server
              /\ stream'[n].up = Append(stream[n].up, [kind |-> "input", bytes |-> b])
  BY <1>1, RelayKeyKeeps
<1>3. job' = job /\ listed' = listed /\ accepted' = accepted /\ written' = written
  BY RelayKeyKeeps, JobsStay DEF Inv
<1>4. /\ typed \in Nat /\ \A j \in JobId : Fed(j) \in Seq(Token)
      /\ \A m \in Stream : stream[m].up \in Seq(UpFrame)
  BY FedTypes
<1>5. PICK t \in Nat, v \in Nat : t = typed /\ v = t + l /\ t <= v /\ typed' = v /\ l \in Nat
  BY <1>2, <1>4
<1>6. Rising(b) /\ UpTo(b, v) /\ \A s \in Seq(Token) : UpTo(s, t) => Below(s, b)
  BY <1>2, <1>5, TypedBelow
<1>7. \A j \in JobId : Fed(j)' = Fed(j)
  BY <1>3 DEF Fed
<1>8. ASSUME NEW j \in JobId PROVE Feeding(j)' /\ UpTo(Fed(j), t)
  <2>1. Feeding(j)
    BY DEF Feeds
  <2>2. UpTo(Fed(j), t)
    BY <1>5, <2>1 DEF Feeding
  <2>3. UpTo(Fed(j), v)
    BY <1>4, <1>5, <2>2, FramesLater
  <2> QED
    BY <1>3, <1>5, <1>7, <2>1, <2>2, <2>3 DEF Feeding
<1>9. \A m \in Stream, j \in JobId : Claims(m, j)' => Claims(m, j)
  BY <1>3 DEF Claims
<1>10. ASSUME NEW m \in Stream, stream'[m] = stream[m] PROVE Queued(m)'
  <2>1. Queued(m)
    BY DEF Feeds
  <2>2. Frames(stream[m].up, t)
    BY <1>5, <2>1 DEF Queued
  <2>3. Frames(stream[m].up, v)
    BY <1>4, <1>5, <2>2, FramesLater
  <2> QED
    BY <1>5, <1>7, <1>9, <1>10, <2>1, <2>3 DEF Queued
<1>11. CASE stream' = stream
  BY <1>8, <1>10, <1>11 DEF Feeds
<1>12. CASE /\ OthersKeep(n) /\ stream'[n].server = stream[n].server
            /\ stream'[n].up = Append(stream[n].up, [kind |-> "input", bytes |-> b])
  <2>1. PICK u \in Seq(UpFrame), f \in UpFrame : u = stream[n].up /\ f = [kind |-> "input", bytes |-> b]
    BY <1>4, UpFrames
  <2>2. Queued(n)
    BY DEF Feeds
  <2>3. Frames(u, t) /\ Ordered(u) /\ \A j \in JobId : Claims(n, j) => After(Fed(j), u)
    BY <1>5, <2>1, <2>2 DEF Queued
  <2>4. Frames(u, v)
    BY <1>5, <2>3, FramesLater
  <2>5. f.kind = "input" /\ f.bytes = b
    BY <2>1
  <2>6. ASSUME NEW k \in DOMAIN u, u[k].kind = "input" PROVE Below(u[k].bytes, b)
    <3>1. u[k] \in UpFrame
      BY <2>6
    <3>2. u[k].bytes \in Seq(Token)
      BY <2>6, <3>1, UpFrames
    <3>3. UpTo(u[k].bytes, t)
      BY <2>3, <2>6 DEF Frames
    <3> QED
      BY <1>6, <3>2, <3>3
  <2>7. /\ Frames(Append(u, f), v) /\ Ordered(Append(u, f))
        /\ \A s \in Seq(Token) : After(s, u) /\ Below(s, b) => After(s, Append(u, f))
    BY <1>6, <2>3, <2>4, <2>5, <2>6, MoreFrames
  <2>8. ASSUME NEW j \in JobId, Claims(n, j)' PROVE After(Fed(j), Append(u, f))
    <3>1. After(Fed(j), u)
      BY <1>9, <2>3, <2>8
    <3>2. Below(Fed(j), b)
      BY <1>4, <1>6, <1>8
    <3> QED
      BY <1>4, <2>7, <3>1, <3>2
  <2>9. stream'[n].up = Append(u, f) /\ stream'[n].server # "claim"
    BY <1>1, <1>12, <2>1
  <2>10. Queued(n)'
    BY <1>5, <1>7, <2>7, <2>8, <2>9 DEF Queued
  <2>11. \A m \in Stream : m # n => stream'[m] = stream[m]
    BY <1>12 DEF OthersKeep
  <2> QED
    BY <1>8, <1>10, <2>10, <2>11 DEF Feeds
<1> QED
  BY <1>2, <1>11, <1>12

\* The daemon's end keeps the order.
LEMMA ServerFeeds ==
  ASSUME Inv, Feeds, NEW n \in Stream, ServerStep(n)
  PROVE  Feeds'
<1>1. Served(n) /\ Jobs /\ StreamTypes /\ Visits /\ Held(n) /\ UNCHANGED typed
  BY ServerInv DEF Inv, Visits, ServerStep
<1>2. ASSUME UNCHANGED jobVars PROVE \A j \in JobId : Kept(j) /\ job'[j].claimed \in {job[j].claimed, None}
  BY <1>1, <1>2, JobsStay DEF Kept
<1>3. ASSUME job' = Released(n, stream[n].job), stream[n].job \in JobId, UNCHANGED <<listed, accepted, written, trail>>
      PROVE  \A j \in JobId : Kept(j) /\ job'[j].claimed \in {job[j].claimed, None}
  <2>1. PICK i \in JobId : i = stream[n].job
    BY <1>3
  <2>2. /\ Claims(n, i) => job'[i].claimed = None
        /\ ~Claims(n, i) => job'[i] = job[i]
        /\ \A j \in JobId : Kept(j) /\ (j # i => job'[j] = job[j])
    BY <1>1, <1>3, <2>1, ReleaseKeeps
  <2> QED
    BY <2>2
<1>4. NoConn.up = <<>>
  BY DEF NoConn
<1>5. CASE ServeClaim(n)
  <2>1. CASE Claimable(n)
    BY <1>1, <1>5, <2>1, GrantFeeds
  <2>2. CASE ~Claimable(n)
    <3>1. stream'[n] = NoConn /\ UNCHANGED jobVars
      BY <1>1, <1>5, <2>2, RefuseServes
    <3> QED
      BY <1>1, <1>2, <1>4, <3>1, ServedUnfed, UnfedKeeps
  <2> QED
    BY <2>1, <2>2
<1>6. CASE ServeInput(n)
  BY <1>1, <1>6, InputFeeds
<1>7. CASE ServeClose(n)
  <2>1. stream[n].server = "poll" /\ (stream'[n].up = stream[n].up \/ stream'[n].up = <<>>)
    BY <1>1, <1>4, <1>7, CloseDoes
  <2>2. stream[n].job \in JobId
    BY <1>1, <2>1 DEF Held, Serving
  <2>3. job' = Released(n, stream[n].job) /\ UNCHANGED <<listed, accepted, written, trail>>
    BY <1>7 DEF ServeClose
  <2> QED
    BY <1>1, <1>3, <2>1, <2>2, <2>3, ServedUnfed, UnfedKeeps
<1>8. CASE ServeRead(n)
  <2>1. stream[n].job \in JobId
    BY <1>1, <1>8, ReadServes
  <2>2. UNCHANGED jobVars /\ stream'[n].up = stream[n].up
    BY <1>1, <1>8, <2>1, ReadDoes
  <2> QED
    BY <1>1, <1>2, <2>2, ServedUnfed, UnfedKeeps
<1>9. CASE ServeHangup(n)
  <2>1. stream'[n].up = stream[n].up
    BY <1>1, <1>9, HangupDoes
  <2>2. UNCHANGED jobVars
    BY <1>9 DEF ServeHangup
  <2> QED
    BY <1>1, <1>2, <2>1, <2>2, ServedUnfed, UnfedKeeps
<1>10. CASE ServeRelease(n)
  <2>1. stream[n].server = "release" /\ (stream'[n].up = stream[n].up \/ stream'[n].up = <<>>)
    BY <1>1, <1>4, <1>10, ReleaseDoes
  <2>2. stream[n].job \in JobId
    BY <1>1, <2>1 DEF Held, Serving
  <2>3. job' = Released(n, stream[n].job) /\ UNCHANGED <<listed, accepted, written, trail>>
    BY <1>10 DEF ServeRelease
  <2> QED
    BY <1>1, <1>3, <2>1, <2>2, <2>3, ServedUnfed, UnfedKeeps
<1> QED
  BY <1>5, <1>6, <1>7, <1>8, <1>9, <1>10 DEF ServerStep

\* The process of a job reads each byte that write_claimed queued for it once,
\* and in the order typed, while clients come and go and the worker takes bytes
\* off a queue it has copied before (exchange in pty.rs).
THEOREM InputStaysInOrder == StreamSpec => []InputArrivesOnce
<1>1. StreamInit => Inv /\ Feeds
  <2>1. SUFFICES ASSUME StreamInit PROVE Inv /\ Feeds
    OBVIOUS
  <2>2. Inv /\ (\A j \in JobId : Fed(j) = <<>> /\ written[j] = 0) /\ \A n \in Stream : stream[n].up = <<>>
    BY <2>1, InitInv
  <2>3. ASSUME NEW j \in JobId PROVE Feeding(j)
    <3>1. Fed(j) = <<>> /\ written[j] = 0
      BY <2>2
    <3> QED
      BY <3>1 DEF Feeding, Rising, UpTo
  <2>4. ASSUME NEW n \in Stream PROVE Queued(n)
    BY <2>2, EmptyFrames DEF Queued
  <2> QED
    BY <2>2, <2>3, <2>4 DEF Feeds
<1>2. Inv /\ Feeds /\ [StreamNext]_vars => Feeds'
  <2>1. SUFFICES ASSUME Inv, Feeds, [StreamNext]_vars PROVE Feeds'
    OBVIOUS
  <2>2. ASSUME NEW j \in JobId, JobStep(j) PROVE Feeds'
    BY <2>1, <2>2, WorkerInv, UnfedKeeps
  <2>3. ASSUME NEW n \in Stream, ServerStep(n) PROVE Feeds'
    BY <2>1, <2>3, ServerFeeds
  <2>4. ASSUME NEW c \in Client, ClientStep(c) PROVE Feeds'
    <3>1. CASE \E key \in {"plain", "prefix", "help"} : RelayKey(c, key)
      BY <2>1, <3>1, KeyFeeds
    <3>2. CASE \A key \in {"plain", "prefix", "help"} : ~RelayKey(c, key)
      BY <2>1, <2>4, <3>2, ClientInv, UnfedKeeps
    <3> QED
      BY <3>1, <3>2
  <2>5. CASE UNCHANGED vars
    <3>1. job' = job /\ listed' = listed /\ accepted' = accepted /\ written' = written /\ stream' = stream /\ typed' = typed
      BY <2>5 DEF vars, jobVars
    <3>2. \A j \in JobId : Fed(j)' = Fed(j)
      BY <3>1 DEF Fed
    <3>3. \A n \in Stream, j \in JobId : Claims(n, j)' => Claims(n, j)
      BY <3>1 DEF Claims
    <3>4. Unfed
      BY <3>1, <3>2, <3>3 DEF Unfed, UpKept
    <3> QED
      BY <2>1, <3>4, UnfedKeeps
  <2> QED
    BY <2>1, <2>2, <2>3, <2>4, <2>5 DEF StreamNext
<1>3. Feeds => InputArrivesOnce
  BY DEF Feeds, Feeding, Fed, Rising, InputArrivesOnce
<1> QED
  BY <1>1, <1>2, <1>3, TerminalInvariant, PTL DEF StreamSpec

=============================================================================

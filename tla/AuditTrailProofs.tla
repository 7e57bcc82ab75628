-------------------------- MODULE AuditTrailProofs --------------------------
(***************************************************************************)
(* What the audit trail promises, for any number of actions, connections   *)
(* and faults and any checkpoint interval: the verifier accepts every log, *)
(* an acknowledged record is in one, and under required auditing nothing   *)
(* is done that is not on record.                                          *)
(*                                                                         *)
(* Three parts carry the proof.  LogsInv: while a handler may still write, *)
(* its writer stands where the verifier stands after the log's last line,  *)
(* and nothing is written after a failure.  LinkInv: a client has at most  *)
(* one request under way, so an "ack" that it reads is the answer to the   *)
(* record it waits for, which is in the log.  ActorInv: between its record *)
(* and its action the thread is cancelled, or the record is in a log.      *)
(*                                                                         *)
(* verify_log is a recursive function.  That it is defined, and what one   *)
(* more line does to it, is proved by looking at a least counterexample.   *)
(***************************************************************************)
EXTENDS AuditTrail, WellFoundedInduction, TLAPS

Recorded == UNION {EventsOf(log[l]) : l \in Conn}

Entry ==
  [kind: {"record"}, sequence: Nat, previous: Hash, event: Event]
    \cup [kind: {"checkpoint"}, number: Nat, previous: Nat, sequence: Nat, head: Hash, final: BOOLEAN]
    \cup {Torn}

TrailTypes == TrailTypeOK /\ log \in [Conn -> Seq(Entry)]

\* The body of LogsVerify, of one log.
Verifies(s) ==
  LET whole == IF s # <<>> /\ s[Len(s)] = Torn THEN SubSeq(s, 1, Len(s) - 1) ELSE s
  IN /\ verify_log(whole).ok
     /\ \A k \in DOMAIN s : s[k].kind = "checkpoint" /\ s[k].final => k = Len(s)

Verifier == [ok: BOOLEAN, sequence: Nat, chain_head: Hash, checkpoints: Nat, checkpoint_head: Nat,
             final: BOOLEAN]

\* A verifier in state v has accepted everything, and stands where the writer w does.
Level(v, w) ==
  /\ v \in Verifier
  /\ v.ok
  /\ v.sequence = w.sequence + 1
  /\ v.chain_head = w.chain_head
  /\ v.checkpoints = w.checkpoint_sequence
  /\ v.checkpoint_head = w.checkpoint_head

\* The writer w of the log s stands where the verifier does, and s is not closed.
Sound(s, w) ==
  /\ Level(verify_log(s), w)
  /\ \A k \in DOMAIN s : s[k].kind = "record" \/ (s[k].kind = "checkpoint" /\ ~s[k].final)

MayWrite(h) == h.pc = "serve" \/ h.answer \in {"opened", "ack"}

\* A handler and its log.
LogInv(h, s) ==
  /\ h.pc = "none" => h = NoHandler /\ s = <<>>
  /\ h.up = <<>> \/ \E r \in Request : h.up = <<r>>
  /\ h.pc # "serve" => h.up = <<>>
  /\ h.pc = "reply" <=> h.answer # None
  /\ h.up # <<>> /\ Head(h.up).kind = "open" => s = <<>>
  /\ MayWrite(h) => Sound(s, h.writer)
  /\ Verifies(s)

LogsInv == \A l \in Conn : LogInv(server[l], log[l])

\* The request that a stage of a call waits for an answer to.
Asked(stage, event) ==
  CASE stage = "opening"   -> [kind |-> "open"]
    [] stage = "attaching" -> AppendRequest(Attached)
    [] stage = "recording" -> AppendRequest(event)
    [] stage = "ending"    -> AppendRequest(Ended)
    [] stage = "closing"   -> [kind |-> "close"]

Tells(answer, request, s) ==
  answer = "ack" => request.kind = "append" /\ request.event \in EventsOf(s)

\* One request is under way: not served, served, answered, or lost.
Exchange(h, s, request) ==
  \/ h.pc = "serve" /\ h.up = <<request>> /\ h.down = <<>>
  \/ h.pc = "reply" /\ h.down = <<>> /\ Tells(h.answer, request, s)
  \/ /\ h.pc \in {"serve", "gone"} /\ h.up = <<>>
     /\ \E a \in Response : h.down = <<a>> /\ Tells(a, request, s)
  \/ h.pc = "gone" /\ h.down = <<>>

Quiet(h) == h.pc \in {"serve", "gone"} /\ h.up = <<>> /\ h.down = <<>>

CallInv ==
  /\ \/ op = NoOp
     \/ /\ op.by = "actor" /\ op.stage \in {"connect", "opening", "attaching", "recording"}
        /\ op.event = actor.next /\ actor.pc = "wait"
     \/ /\ op.by = "closer" /\ op.stage \in {"ending", "closing"}
        /\ op.event = Ended /\ cancelled
  /\ actor.pc = "wait" => op.by = "actor"
  /\ op.stage \in {"connect", "opening", "attaching"} => state \in {"unopened", "failed"}
  /\ op.stage \in {"recording", "ending", "closing"} => state = "open"
  /\ state = "closed" => cancelled

LinkInv ==
  /\ link = None <=> (op.stage = "connect" \/ (op = NoOp /\ state # "open"))
  /\ link # None => server[link].open
  /\ InExchange => Exchange(server[link], log[link], Asked(op.stage, op.event))
  /\ op = NoOp /\ state = "open" => Quiet(server[link])

ActorInv ==
  /\ actor.pc \in {"append", "wait", "check", "act"} => actor.next <= MaxActions
  /\ actor.pc = "check" => cancelled \/ ~required \/ actor.next \in Recorded
  /\ actor.pc = "act" => ~required \/ actor.next \in Recorded

TrailInv ==
  /\ TrailTypes /\ LogsInv /\ CallInv /\ LinkInv /\ ActorInv
  /\ AcknowledgedIsDurable /\ ActedIsRecorded

-----------------------------------------------------------------------------
(* What verify_log computes.                                               *)

\* A non-empty set of naturals has a least element.
LEMMA LeastNat ==
  ASSUME NEW S, S \subseteq Nat, S # {}
  PROVE  \E n \in S : \A m \in S : n <= m
<1>0. IsWellFoundedOn(OpToRel(<, Nat), Nat)
  BY NatLessThanWellFounded
<1>1. PICK n \in S : \A m \in S : ~(<<m, n>> \in OpToRel(<, Nat))
  BY <1>0, WFMin, Zenon
<1>2. \A m \in S : ~(m < n)
  BY <1>1 DEF OpToRel
<1>3. \A m \in S : n <= m
  BY <1>2
<1> QED
  BY <1>3

\* f holds the states of the verifier before and after each of the first n lines.
Trace(s, f, n) == f = [k \in 0..n |-> IF k = 0 THEN Start ELSE Verified1(f[k - 1], s[k])]

\* The verifier has a state after every line.
LEMMA TraceExists ==
  ASSUME NEW s, NEW N \in Nat
  PROVE  \E f : Trace(s, f, N)
<1> DEFINE Bad == {n \in Nat : ~ \E f : Trace(s, f, n)}
<1> SUFFICES ASSUME Bad # {} PROVE FALSE
  OBVIOUS
<1>1. PICK n \in Bad : \A m \in Bad : n <= m
  BY LeastNat
<1>2. n # 0
  <2> DEFINE f == [k \in 0..0 |-> Start]
  <2>1. Trace(s, f, 0)
    BY DEF Trace
  <2> QED
    BY <2>1, <1>1
<1>3. n \in Nat /\ n - 1 \in Nat /\ n - 1 \notin Bad
  BY <1>1, <1>2
<1>4. PICK g : Trace(s, g, n - 1)
  BY <1>3
<1> DEFINE f == [k \in 0..n |-> IF k = n THEN Verified1(g[n - 1], s[n]) ELSE g[k]]
<1>5. ASSUME NEW k \in 0..n
      PROVE  f[k] = IF k = 0 THEN Start ELSE Verified1(f[k - 1], s[k])
  <2>1. CASE k = n
    BY <2>1, <1>2, <1>3
  <2>2. CASE k # n
    <3>1. k \in 0..(n - 1)
      BY <2>2, <1>3
    <3>2. g[k] = IF k = 0 THEN Start ELSE Verified1(g[k - 1], s[k])
      BY <3>1, <1>4 DEF Trace
    <3>3. k # 0 => k - 1 \in 0..n /\ k - 1 # n
      BY <3>1, <1>3
    <3> QED
      BY <3>2, <3>3, <2>2
  <2> QED
    BY <2>1, <2>2
<1>6. Trace(s, f, n)
  <2> HIDE DEF f
  <2>1. f = [k \in 0..n |-> f[k]]
    BY DEF f
  <2> QED
    BY <1>5, <2>1 DEF Trace
<1> QED
  BY <1>6, <1>1

\* The state after a line depends on the lines up to it only.
LEMMA TraceUnique ==
  ASSUME NEW s, NEW t, NEW N \in Nat, NEW M \in Nat, N <= M, NEW f, NEW g,
         Trace(s, f, N), Trace(t, g, M), \A k \in 1..N : s[k] = t[k]
  PROVE  f[N] = g[N]
<1> DEFINE Bad == {n \in 0..N : f[n] # g[n]}
<1> SUFFICES ASSUME Bad # {} PROVE FALSE
  OBVIOUS
<1>0. Bad \subseteq Nat
  OBVIOUS
<1>1. PICK n \in Bad : \A m \in Bad : n <= m
  <2> HIDE DEF Bad
  <2> QED
    BY <1>0, LeastNat
<1>2. f[n] = IF n = 0 THEN Start ELSE Verified1(f[n - 1], s[n])
  BY <1>1 DEF Trace
<1>3. g[n] = IF n = 0 THEN Start ELSE Verified1(g[n - 1], t[n])
  BY <1>1 DEF Trace
<1>4. n # 0
  BY <1>1, <1>2, <1>3
<1>5. n - 1 \in 0..N /\ n - 1 \notin Bad
  BY <1>1, <1>4
<1>6. f[n - 1] = g[n - 1] /\ s[n] = t[n]
  BY <1>5, <1>4, <1>1
<1> QED
  BY <1>1, <1>2, <1>3, <1>6

LEMMA VerifyUnrolled ==
  ASSUME NEW s, Len(s) \in Nat
  PROVE  \E f : Trace(s, f, Len(s)) /\ verify_log(s) = f[Len(s)]
<1>1. verify_log(s) =
        (CHOOSE f : f = [n \in 0..Len(s) |-> IF n = 0 THEN Start ELSE Verified1(f[n - 1], s[n])])[Len(s)]
  BY Zenon DEF verify_log
<1>2. \E f : f = [n \in 0..Len(s) |-> IF n = 0 THEN Start ELSE Verified1(f[n - 1], s[n])]
  BY TraceExists, Zenon DEF Trace
<1> QED
  BY <1>1, <1>2, Zenon DEF Trace

LEMMA VerifyEmpty == verify_log(<<>>) = Start
<1>1. PICK f : Trace(<<>>, f, Len(<<>>)) /\ verify_log(<<>>) = f[Len(<<>>)]
  BY VerifyUnrolled
<1> QED
  BY <1>1 DEF Trace

\* One more line is one more step of the verifier.
LEMMA VerifyAppend ==
  ASSUME NEW X, NEW s \in Seq(X), NEW e \in X
  PROVE  verify_log(Append(s, e)) = Verified1(verify_log(s), e)
<1> DEFINE t == Append(s, e)
           n == Len(s)
<1>0. n \in Nat /\ Len(t) = n + 1 /\ t[n + 1] = e /\ \A k \in 1..n : s[k] = t[k]
  OBVIOUS
<1> HIDE DEF t, n
<1>1. PICK f : Trace(s, f, n) /\ verify_log(s) = f[n]
  BY VerifyUnrolled, <1>0 DEF n
<1>2. PICK g : Trace(t, g, n + 1) /\ verify_log(t) = g[n + 1]
  BY VerifyUnrolled, <1>0
<1>3. f[n] = g[n]
  BY TraceUnique, <1>0, <1>1, <1>2
<1>4. g[n + 1] = Verified1(g[n], t[n + 1])
  BY <1>0, <1>2 DEF Trace
<1> QED
  BY <1>0, <1>1, <1>2, <1>3, <1>4 DEF t

-----------------------------------------------------------------------------
(* The lines a writer adds.                                                *)

LEMMA EntriesTyped ==
  ASSUME NEW w \in Writer, NEW e \in Event, NEW final \in BOOLEAN
  PROVE  /\ RecordOf(w, e) \in Entry /\ RecordOf(w, e).kind = "record" /\ RecordOf(w, e).event = e
         /\ CheckpointOf(w, final) \in Entry /\ CheckpointOf(w, final).kind = "checkpoint"
         /\ CheckpointOf(w, final).final = final
         /\ Torn \in Entry
         /\ Counted(w) \in Writer /\ Checkpointed(w) \in Writer /\ Chained(w, e) \in Writer
<1>1. RecordOf(w, e) \in Entry /\ RecordOf(w, e).kind = "record" /\ RecordOf(w, e).event = e
  BY DEF RecordOf, RecordEntry, Entry, Writer
<1>2. CheckpointOf(w, final) \in Entry /\ CheckpointOf(w, final).kind = "checkpoint"
        /\ CheckpointOf(w, final).final = final
  BY DEF CheckpointOf, CheckpointEntry, Entry, Writer
<1>3. Torn \in Entry
  BY DEF Entry
<1>4. Counted(w) \in Writer /\ Checkpointed(w) \in Writer
  <2>1. Counted(w) \in Writer
    BY DEF Counted, Writer
  <2>2. w.checkpoint_sequence + 1 \in Nat
    BY DEF Writer
  <2>3. ASSUME NEW n \in Nat
        PROVE  [w EXCEPT !.checkpoint_sequence = n, !.checkpoint_head = n] \in Writer
    BY DEF Writer
  <2>4. Checkpointed(w) \in Writer
    BY <2>2, <2>3 DEF Checkpointed
  <2> QED
    BY <2>1, <2>4
<1>5. hash_record_body(w.sequence + 1, w.chain_head, e) \in Hash
  BY DEF hash_record_body, Hash, Writer
<1>6. Chained(w, e) \in Writer
  BY <1>4, <1>5 DEF Chained, Writer
<1> QED
  BY <1>1, <1>2, <1>3, <1>4, <1>6

LEMMA CheckpointedTyped ==
  ASSUME NEW w \in Writer
  PROVE  Checkpointed(w) \in Writer
<1>1. ASSUME NEW n \in Nat
      PROVE  [w EXCEPT !.checkpoint_sequence = n, !.checkpoint_head = n] \in Writer
  BY DEF Writer
<1>2. w.checkpoint_sequence + 1 \in Nat
  BY DEF Writer
<1> QED
  BY <1>1, <1>2 DEF Checkpointed

LEMMA SoundStart == Sound(<<>>, NoWriter)
<1>1. Start \in Verifier
  BY DEF Start, Verifier, Hash
<1>2. Start.ok /\ Start.sequence = 1 /\ Start.chain_head = <<>>
        /\ Start.checkpoints = 0 /\ Start.checkpoint_head = 0
  BY DEF Start
<1>3. NoWriter.sequence = 0 /\ NoWriter.chain_head = <<>>
        /\ NoWriter.checkpoint_sequence = 0 /\ NoWriter.checkpoint_head = 0
  BY DEF NoWriter
<1>4. Level(verify_log(<<>>), NoWriter)
  BY <1>1, <1>2, <1>3, VerifyEmpty DEF Level
<1> QED
  BY <1>4 DEF Sound

LEMMA LevelRecord ==
  ASSUME NEW v, NEW w \in Writer, NEW e \in Event, Level(v, w)
  PROVE  Level(Verified1(v, RecordOf(w, e)), Chained(w, e))
<1> DEFINE r == RecordOf(w, e)
           ok == v.ok /\ r.sequence = v.sequence /\ r.previous = v.chain_head
           n == v.sequence + 1
           h == hash_record_body(r.sequence, r.previous, r.event)
<1>1. /\ r.kind = "record" /\ r.sequence = w.sequence + 1
      /\ r.previous = w.chain_head /\ r.event = e
  BY DEF RecordOf, RecordEntry
<1>2. ok = TRUE
  BY <1>1 DEF Level
<1>3. n \in Nat /\ n = w.sequence + 1 + 1
  BY DEF Level, Verifier, Writer
<1>4. h \in Hash
  BY <1>1 DEF hash_record_body, Hash, Writer
<1> HIDE DEF r, ok, n, h
<1>5. Verified1(v, r) = [v EXCEPT !.ok = ok, !.sequence = n, !.chain_head = h]
  BY <1>1 DEF Verified1, ok, n, h
<1>6. ASSUME NEW b \in BOOLEAN
      PROVE  /\ [v EXCEPT !.ok = b, !.sequence = n, !.chain_head = h] \in Verifier
             /\ [v EXCEPT !.ok = b, !.sequence = n, !.chain_head = h].ok = b
             /\ [v EXCEPT !.ok = b, !.sequence = n, !.chain_head = h].sequence = n
             /\ [v EXCEPT !.ok = b, !.sequence = n, !.chain_head = h].chain_head = h
             /\ [v EXCEPT !.ok = b, !.sequence = n, !.chain_head = h].checkpoints = v.checkpoints
             /\ [v EXCEPT !.ok = b, !.sequence = n, !.chain_head = h].checkpoint_head = v.checkpoint_head
  BY <1>3, <1>4 DEF Verifier, Level
<1>7. /\ Chained(w, e).sequence = w.sequence + 1
      /\ Chained(w, e).chain_head = hash_record_body(w.sequence + 1, w.chain_head, e)
      /\ Chained(w, e).checkpoint_sequence = w.checkpoint_sequence
      /\ Chained(w, e).checkpoint_head = w.checkpoint_head
  BY DEF Chained, Counted, Writer
<1>8. h = hash_record_body(w.sequence + 1, w.chain_head, e)
  BY <1>1 DEF h
<1> QED
  BY <1>2, <1>3, <1>5, <1>6, <1>7, <1>8 DEF Level, r

LEMMA LevelCheckpoint ==
  ASSUME NEW v, NEW w \in Writer, NEW final \in BOOLEAN, Level(v, w)
  PROVE  Level(Verified1(v, CheckpointOf(w, final)), Checkpointed(w))
<1> DEFINE c == CheckpointOf(w, final)
           ok == v.ok /\ c.number = v.checkpoints + 1 /\ c.previous = v.checkpoint_head
                   /\ c.sequence = v.sequence - 1 /\ c.head = v.chain_head
           n == v.checkpoints + 1
           p == c.number
           f == c.final
<1>1. /\ c.kind = "checkpoint" /\ c.number = w.checkpoint_sequence + 1
      /\ c.previous = w.checkpoint_head /\ c.sequence = w.sequence /\ c.head = w.chain_head
  BY DEF CheckpointOf, CheckpointEntry
<1>2. c.final \in BOOLEAN
  BY Zenon DEF CheckpointOf, CheckpointEntry
<1>3. v.sequence - 1 = w.sequence
  BY DEF Level, Writer
<1>4. ok = TRUE
  BY <1>1, <1>3 DEF Level
<1>5. n \in Nat /\ n = w.checkpoint_sequence + 1 /\ p = n
  BY <1>1 DEF Level, Verifier, Writer
<1> HIDE DEF c, ok, n, p, f
<1>6. Verified1(v, c) = [v EXCEPT !.ok = ok, !.checkpoints = n, !.checkpoint_head = p, !.final = f]
  BY <1>1 DEF Verified1, ok, n, p, f
<1>7. ASSUME NEW b \in BOOLEAN, NEW g \in BOOLEAN
      PROVE  LET x == [v EXCEPT !.ok = b, !.checkpoints = n, !.checkpoint_head = n, !.final = g]
             IN /\ x \in Verifier
                /\ x.ok = b
                /\ x.sequence = v.sequence
                /\ x.chain_head = v.chain_head
                /\ x.checkpoints = n
                /\ x.checkpoint_head = n
  BY <1>5 DEF Verifier, Level
<1>8. /\ Checkpointed(w).sequence = w.sequence /\ Checkpointed(w).chain_head = w.chain_head
      /\ Checkpointed(w).checkpoint_sequence = w.checkpoint_sequence + 1
      /\ Checkpointed(w).checkpoint_head = w.checkpoint_sequence + 1
  BY DEF Checkpointed, Writer
<1>9. f \in BOOLEAN
  BY <1>2 DEF f
<1> DEFINE x == [v EXCEPT !.ok = ok, !.checkpoints = n, !.checkpoint_head = n, !.final = f]
<1>10. /\ x \in Verifier /\ x.ok = TRUE /\ x.sequence = v.sequence /\ x.chain_head = v.chain_head
       /\ x.checkpoints = n /\ x.checkpoint_head = n
  BY <1>4, <1>7, <1>9, Zenon
<1>11. Verified1(v, c) = x
  BY <1>5, <1>6
<1> HIDE DEF x
<1>12. Level(x, Checkpointed(w))
  BY <1>5, <1>8, <1>10 DEF Level
<1> QED
  BY <1>11, <1>12 DEF c

LEMMA SoundRecord ==
  ASSUME NEW s \in Seq(Entry), NEW w \in Writer, NEW e \in Event, Sound(s, w)
  PROVE  Sound(Append(s, RecordOf(w, e)), Chained(w, e))
<1> DEFINE r == RecordOf(w, e)
           t == Append(s, r)
<1>1. r \in Entry /\ r.kind = "record"
  BY DEF RecordOf, RecordEntry, Entry, Writer
<1>2. Level(verify_log(t), Chained(w, e))
  BY <1>1, VerifyAppend, LevelRecord DEF Sound
<1>3. \A k \in DOMAIN t : t[k].kind = "record" \/ (t[k].kind = "checkpoint" /\ ~t[k].final)
  <2> HIDE DEF r
  <2> QED
    BY <1>1 DEF Sound
<1> QED
  BY <1>2, <1>3 DEF Sound

LEMMA SoundCheckpoint ==
  ASSUME NEW s \in Seq(Entry), NEW w \in Writer, Sound(s, w)
  PROVE  Sound(Append(s, CheckpointOf(w, FALSE)), Checkpointed(w))
<1> DEFINE c == CheckpointOf(w, FALSE)
           t == Append(s, c)
<1>1. c \in Entry /\ c.kind = "checkpoint" /\ ~c.final
  BY DEF CheckpointOf, CheckpointEntry, Entry, Writer
<1>2. Level(verify_log(t), Checkpointed(w))
  BY <1>1, VerifyAppend, LevelCheckpoint DEF Sound
<1>3. \A k \in DOMAIN t : t[k].kind = "record" \/ (t[k].kind = "checkpoint" /\ ~t[k].final)
  <2> HIDE DEF c
  <2> QED
    BY <1>1 DEF Sound
<1> QED
  BY <1>2, <1>3 DEF Sound

\* Until it is closed a log has no last line to exempt.
LEMMA SoundVerifies ==
  ASSUME NEW s \in Seq(Entry), NEW w, Sound(s, w)
  PROVE  Verifies(s)
<1>1. s = <<>> \/ s[Len(s)] # Torn
  BY DEF Sound, Torn
<1> QED
  BY <1>1 DEF Sound, Level, Verifies

\* A torn line, and a final checkpoint, may be the last line.
LEMMA SoundTorn ==
  ASSUME NEW s \in Seq(Entry), NEW w, Sound(s, w)
  PROVE  Verifies(Append(s, Torn))
<1> DEFINE t == Append(s, Torn)
<1>0. Torn \in Entry
  BY DEF Entry
<1>1. t # <<>> /\ t[Len(t)] = Torn /\ SubSeq(t, 1, Len(t) - 1) = s
  BY <1>0
<1>2. \A k \in DOMAIN t : k # Len(t) => t[k] = s[k] /\ k \in DOMAIN s
  BY <1>0
<1>3. verify_log(s).ok
  BY DEF Sound, Level
<1>4. \A k \in DOMAIN t : t[k].kind = "checkpoint" /\ t[k].final => k = Len(t)
  BY <1>2 DEF Sound
<1>5. Verifies(t)
  <2> HIDE DEF t
  <2> QED
    BY <1>1, <1>3, <1>4 DEF Verifies
<1> QED
  BY <1>5

LEMMA SoundFinal ==
  ASSUME NEW s \in Seq(Entry), NEW w \in Writer, Sound(s, w)
  PROVE  Verifies(Append(s, CheckpointOf(w, TRUE)))
<1> DEFINE c == CheckpointOf(w, TRUE)
           t == Append(s, c)
<1>0. c \in Entry /\ c.kind = "checkpoint" /\ c # Torn
  BY DEF CheckpointOf, CheckpointEntry, Entry, Writer, Torn
<1> HIDE DEF c
<1>1. t # <<>> /\ t[Len(t)] # Torn
  BY <1>0
<1>2. \A k \in DOMAIN t : k # Len(t) => t[k] = s[k] /\ k \in DOMAIN s
  BY <1>0
<1>3. verify_log(t).ok
  <2>1. verify_log(t) = Verified1(verify_log(s), c)
    BY <1>0, VerifyAppend
  <2>2. Level(verify_log(s), w)
    BY DEF Sound
  <2>3. Level(Verified1(verify_log(s), c), Checkpointed(w))
    BY <2>2, LevelCheckpoint, Zenon DEF c
  <2> QED
    BY <2>1, <2>3 DEF Level
<1>4. \A k \in DOMAIN t : t[k].kind = "checkpoint" /\ t[k].final => k = Len(t)
  BY <1>2 DEF Sound
<1>5. Verifies(t)
  <2> HIDE DEF t
  <2> QED
    BY <1>1, <1>3, <1>4 DEF Verifies
<1> QED
  BY <1>5 DEF c

LEMMA AppendTyped ==
  ASSUME NEW S, NEW s \in Seq(S), NEW e \in S
  PROVE  Append(s, e) \in Seq(S)
OBVIOUS

LEMMA EventsGrow ==
  ASSUME NEW s \in Seq(Entry), NEW e \in Entry
  PROVE  /\ EventsOf(s) \subseteq EventsOf(Append(s, e))
         /\ e.kind = "record" => e.event \in EventsOf(Append(s, e))
BY DEF EventsOf

-----------------------------------------------------------------------------
(* The steps of the service.                                               *)

LEMMA RequestsTyped ==
  /\ [kind |-> "open"] \in Request
  /\ [kind |-> "close"] \in Request
  /\ \A e \in Event : AppendRequest(e) \in Request /\ AppendRequest(e).kind = "append" /\ AppendRequest(e).event = e
  /\ \A r \in Request : r.kind = "append" => r.event \in Event
<1>1. \A e \in Event : AppendRequest(e) \in Request /\ AppendRequest(e).kind = "append" /\ AppendRequest(e).event = e
  BY DEF AppendRequest, Request
<1>2. \A r \in Request : r.kind = "append" => r.event \in Event
  BY DEF Request
<1> QED
  BY <1>1, <1>2 DEF Request

\* A record stays on record.
LEMMA RecordedGrows ==
  ASSUME \A l \in Conn : EventsOf(log[l]) \subseteq EventsOf(log'[l])
  PROVE  Recorded \subseteq Recorded'
BY DEF Recorded

\* What a step of the service has to keep.
LEMMA ServiceFrame ==
  ASSUME TrailInv,
         server' \in [Conn -> Handler],
         log' \in [Conn -> Seq(Entry)],
         faults' \in 0..MaxFaults,
         service' \in BOOLEAN,
         UNCHANGED <<trail, client, thread, acked>>,
         \A l \in Conn :
           /\ EventsOf(log[l]) \subseteq EventsOf(log'[l])
           /\ LogInv(server'[l], log'[l])
           /\ server'[l].open = server[l].open
           /\ \A r \in Request : Exchange(server[l], log[l], r) => Exchange(server'[l], log'[l], r)
           /\ Quiet(server[l]) => Quiet(server'[l])
  PROVE  TrailInv'
<1>2. TrailTypes'
  BY DEF TrailInv, TrailTypes, TrailTypeOK, trail, client, thread
<1>3. LogsInv'
  BY DEF LogsInv
<1>4. CallInv'
  BY DEF TrailInv, CallInv, client, thread
<1>5. Recorded \subseteq Recorded'
  BY RecordedGrows
<1>6. ActorInv' /\ AcknowledgedIsDurable' /\ ActedIsRecorded'
  <2>1. AcknowledgedIsDurable'
    BY <1>5 DEF TrailInv, AcknowledgedIsDurable, Recorded
  <2>2. ActedIsRecorded'
    BY <1>5 DEF TrailInv, ActedIsRecorded, Recorded, trail, thread
  <2>3. ActorInv'
    BY <1>5 DEF TrailInv, ActorInv, trail, thread
  <2> QED
    BY <2>1, <2>2, <2>3
<1>7. LinkInv'
  <2>0. link' = link /\ op' = op /\ state' = state
    BY DEF client
  <2>1. link # None => link \in Conn
    BY DEF TrailInv, TrailTypes, TrailTypeOK
  <2>2. (link = None <=> (op.stage = "connect" \/ (op = NoOp /\ state # "open")))'
    BY <2>0 DEF TrailInv, LinkInv
  <2>3. (link # None => server[link].open)'
    BY <2>0, <2>1 DEF TrailInv, LinkInv
  <2>4. ASSUME InExchange' PROVE (Exchange(server[link], log[link], Asked(op.stage, op.event)))'
    <3>1. InExchange /\ link \in Conn
      <4>1. InExchange
        BY <2>4, <2>0 DEF InExchange
      <4>2. op # NoOp /\ op.stage # "connect"
        BY <4>1, TrailAssumption DEF InExchange, NoOp
      <4> QED
        BY <4>1, <4>2, <2>1 DEF TrailInv, LinkInv
    <3>2. Exchange(server[link], log[link], Asked(op.stage, op.event))
      BY <3>1 DEF TrailInv, LinkInv
    <3>3. Asked(op.stage, op.event) \in Request
      <4>1. op.event \in Event /\ Attached \in Event /\ Ended \in Event
        BY TrailAssumption DEF TrailInv, TrailTypes, TrailTypeOK, Op, Event, Attached, Ended
      <4> QED
        BY <3>1, <4>1, RequestsTyped DEF Asked, InExchange
    <3>4. Exchange(server'[link], log'[link], Asked(op.stage, op.event))
      BY <3>1, <3>2, <3>3
    <3> QED
      BY <3>4, <2>0
  <2>5. ASSUME (op = NoOp /\ state = "open")' PROVE Quiet(server[link])'
    <3>1. Quiet(server[link]) /\ link \in Conn
      BY <2>0, <2>1, <2>5, TrailAssumption DEF TrailInv, LinkInv, NoOp
    <3>2. Quiet(server'[link])
      BY <3>1
    <3> QED
      BY <3>2, <2>0 DEF Quiet
  <2> QED
    BY <2>2, <2>3, <2>4, <2>5 DEF LinkInv
<1> QED
  BY <1>2, <1>3, <1>4, <1>6, <1>7 DEF TrailInv

\* What a step of the handler of connection m has to keep.
LEMMA ServerFrame ==
  ASSUME TrailInv, NEW m \in Conn, NEW h \in Handler, NEW s \in Seq(Entry),
         server' = [server EXCEPT ![m] = h],
         log' = [log EXCEPT ![m] = s],
         faults' \in 0..MaxFaults,
         UNCHANGED <<trail, client, service, thread, acked>>,
         EventsOf(log[m]) \subseteq EventsOf(s),
         LogInv(h, s),
         h.open = server[m].open,
         \A r \in Request : Exchange(server[m], log[m], r) => Exchange(h, s, r),
         Quiet(server[m]) => Quiet(h)
  PROVE  TrailInv'
<1>0. server \in [Conn -> Handler] /\ log \in [Conn -> Seq(Entry)] /\ service' \in BOOLEAN
  BY DEF TrailInv, TrailTypes, TrailTypeOK
<1>1. \A l \in Conn : server'[l] = (IF l = m THEN h ELSE server[l]) /\ log'[l] = (IF l = m THEN s ELSE log[l])
  BY <1>0
<1>2. server' \in [Conn -> Handler] /\ log' \in [Conn -> Seq(Entry)]
  BY <1>0
<1>3. ASSUME NEW l \in Conn
      PROVE  /\ EventsOf(log[l]) \subseteq EventsOf(log'[l])
             /\ LogInv(server'[l], log'[l])
             /\ server'[l].open = server[l].open
             /\ \A r \in Request : Exchange(server[l], log[l], r) => Exchange(server'[l], log'[l], r)
             /\ Quiet(server[l]) => Quiet(server'[l])
  <2>1. CASE l = m
    BY <1>1, <2>1
  <2>2. CASE l # m
    <3>1. server'[l] = server[l] /\ log'[l] = log[l] /\ LogInv(server[l], log[l])
      BY <1>1, <2>2 DEF TrailInv, LogsInv
    <3> QED
      BY <3>1
  <2> QED
    BY <2>1, <2>2
<1> QED
  BY <1>0, <1>2, <1>3, ServiceFrame

\* A request that is served is the only one, and the log is as its writer says.
LEMMA ServedRequest ==
  ASSUME TrailInv, NEW m \in Conn, NEW kind, HasRequest(m, kind)
  PROVE  /\ server[m] \in Handler /\ log[m] \in Seq(Entry)
         /\ server[m].pc = "serve" /\ server[m].answer = None
         /\ \E r \in Request : server[m].up = <<r>> /\ Head(server[m].up) = r /\ r.kind = kind
         /\ Tail(server[m].up) = <<>>
         /\ Sound(log[m], server[m].writer) /\ Verifies(log[m])
         /\ server[m].writer \in Writer
         /\ kind = "append" => Head(server[m].up).event \in Event
<1>1. server[m] \in Handler /\ log[m] \in Seq(Entry) /\ server[m].writer \in Writer
  BY DEF TrailInv, TrailTypes, TrailTypeOK, Handler
<1>2. LogInv(server[m], log[m])
  BY DEF TrailInv, LogsInv
<1>3. server[m].pc = "serve" /\ server[m].up # <<>> /\ Head(server[m].up).kind = kind
  BY DEF HasRequest
<1>4. PICK r \in Request : server[m].up = <<r>>
  BY <1>2, <1>3 DEF LogInv
<1>5. Head(server[m].up) = r /\ r.kind = kind /\ Tail(server[m].up) = <<>>
  BY <1>3, <1>4
<1>6. Sound(log[m], server[m].writer) /\ Verifies(log[m]) /\ server[m].answer = None
  BY <1>2, <1>3 DEF LogInv, MayWrite
<1> QED
  BY <1>1, <1>3, <1>4, <1>5, <1>6, RequestsTyped

\* A request is served and its answer prepared.
LEMMA ReplyFrame ==
  ASSUME TrailInv, NEW m \in Conn, NEW kind, HasRequest(m, kind),
         NEW answer \in Response, NEW w \in Writer, NEW s \in Seq(Entry),
         server' = [server EXCEPT ![m] = Reply(m, answer, w)],
         log' = [log EXCEPT ![m] = s],
         faults' \in 0..MaxFaults,
         UNCHANGED <<trail, client, service, thread, acked>>,
         EventsOf(log[m]) \subseteq EventsOf(s),
         answer = "ack" => kind = "append" /\ Head(server[m].up).event \in EventsOf(s),
         answer \in {"opened", "ack"} => Sound(s, w),
         Verifies(s)
  PROVE  TrailInv'
<1> DEFINE h == Reply(m, answer, w)
<1>1. PICK r \in Request : server[m].up = <<r>> /\ Head(server[m].up) = r /\ r.kind = kind
  BY ServedRequest
<1>2. server[m] \in Handler /\ server[m].pc = "serve" /\ Tail(server[m].up) = <<>>
  BY ServedRequest
<1>3. h = [server[m] EXCEPT !.pc = "reply", !.up = <<>>, !.answer = answer, !.writer = w]
  BY <1>2 DEF Reply
<1>4. /\ h \in Handler /\ h.pc = "reply" /\ h.up = <<>> /\ h.answer = answer /\ h.writer = w
      /\ h.open = server[m].open /\ h.down = server[m].down
  <2> HIDE DEF h
  <2>1. <<>> \in Seq(Request) /\ answer \in Response \cup {None}
    OBVIOUS
  <2>2. h \in Handler
    BY <1>2, <1>3, <2>1 DEF Handler
  <2> QED
    BY <1>2, <1>3, <2>2 DEF Handler
<1> HIDE DEF h
<1>5. LogInv(h, s)
  <2>1. answer # None
    BY TrailAssumption DEF Response
  <2> QED
    BY <1>4, <2>1 DEF LogInv, MayWrite
<1>6. ASSUME NEW q \in Request, Exchange(server[m], log[m], q) PROVE Exchange(h, s, q)
  <2>1. server[m].up # <<>> /\ server[m].pc = "serve"
    BY <1>1, <1>2
  <2>2. server[m].up = <<q>> /\ server[m].down = <<>>
    BY <1>6, <2>1 DEF Exchange
  <2>3. q = r
    BY <2>2, <1>1
  <2>4. Tells(answer, q, s)
    BY <2>3, <1>1 DEF Tells
  <2> QED
    BY <1>4, <2>2, <2>4 DEF Exchange
<1>7. ~Quiet(server[m])
  BY <1>1 DEF Quiet
<1>8. server' = [server EXCEPT ![m] = h]
  BY DEF h
<1> QED
  BY <1>4, <1>5, <1>6, <1>7, <1>8, ServerFrame

LEMMA ServeOpenStep ==
  ASSUME TrailInv, NEW m \in Conn, ServeOpen(m)
  PROVE  TrailInv'
<1>1. HasRequest(m, "open") /\ "opened" \in Response /\ NoWriter \in Writer
  BY DEF ServeOpen, Response, NoWriter, Writer, Hash
<1>2. log[m] \in Seq(Entry) /\ Verifies(log[m])
  BY <1>1, ServedRequest
<1>3. log[m] = <<>>
  BY <1>1 DEF TrailInv, LogsInv, LogInv, HasRequest
<1>4. log' = [log EXCEPT ![m] = log[m]]
  BY DEF ServeOpen, TrailInv, TrailTypes
<1>5. Sound(log[m], NoWriter)
  BY <1>3, SoundStart
<1>6. faults' \in 0..MaxFaults
  BY DEF ServeOpen, TrailInv, TrailTypes, TrailTypeOK
<1>7. UNCHANGED <<trail, client, service, thread, acked>> /\ server' = [server EXCEPT ![m] = Reply(m, "opened", NoWriter)]
  BY DEF ServeOpen
<1> QED
  BY <1>1, <1>2, <1>4, <1>5, <1>6, <1>7, ReplyFrame

LEMMA ServeAppendStep ==
  ASSUME TrailInv, NEW m \in Conn, ServeAppend(m)
  PROVE  TrailInv'
<1> DEFINE v == server[m].writer
           e == Head(server[m].up).event
           w == Chained(v, e)
           line == Append(log[m], RecordOf(v, e))
           s == IF CheckpointDue(w) THEN Append(line, CheckpointOf(w, FALSE)) ELSE line
           x == IF CheckpointDue(w) THEN Checkpointed(w) ELSE w
<1>1. HasRequest(m, "append") /\ "ack" \in Response
  BY DEF ServeAppend, Response
<1>2. /\ log[m] \in Seq(Entry) /\ Sound(log[m], v) /\ v \in Writer /\ e \in Event
  BY <1>1, ServedRequest
<1>3. /\ server' = [server EXCEPT ![m] = Reply(m, "ack", x)] /\ log' = [log EXCEPT ![m] = s]
      /\ UNCHANGED <<trail, client, service, thread, acked>>
  BY DEF ServeAppend
<1> HIDE DEF v, e
<1>4. /\ RecordOf(v, e) \in Entry /\ RecordOf(v, e).kind = "record" /\ RecordOf(v, e).event = e
      /\ w \in Writer
  BY <1>2, EntriesTyped
<1>5. line \in Seq(Entry) /\ Sound(line, w)
  BY <1>2, <1>4, SoundRecord
<1>6. EventsOf(log[m]) \subseteq EventsOf(line) /\ e \in EventsOf(line)
  BY <1>2, <1>4, EventsGrow
<1> HIDE DEF w, line
<1>7. CheckpointOf(w, FALSE) \in Entry /\ Checkpointed(w) \in Writer
  BY <1>2, <1>4, EntriesTyped
<1>8. Sound(s, x) /\ s \in Seq(Entry) /\ x \in Writer
  <2>1. CASE CheckpointDue(w)
    <3>1. Sound(Append(line, CheckpointOf(w, FALSE)), Checkpointed(w))
      BY <1>4, <1>5, SoundCheckpoint
    <3>2. Append(line, CheckpointOf(w, FALSE)) \in Seq(Entry)
      BY <1>5, <1>7, AppendTyped, Zenon
    <3> QED
      BY <2>1, <3>1, <3>2, <1>7, Zenon
  <2>2. CASE ~CheckpointDue(w)
    BY <2>2, <1>4, <1>5
  <2> QED
    BY <2>1, <2>2
<1>9. EventsOf(log[m]) \subseteq EventsOf(s) /\ e \in EventsOf(s)
  BY <1>5, <1>6, <1>7, EventsGrow
<1>10. faults' \in 0..MaxFaults
  BY DEF ServeAppend, TrailInv, TrailTypes, TrailTypeOK
<1> HIDE DEF s, x
<1>11. Verifies(s)
  BY <1>8, SoundVerifies
<1> QED
  BY <1>1, <1>3, <1>8, <1>9, <1>10, <1>11, ReplyFrame DEF e

LEMMA AppendFailsStep ==
  ASSUME TrailInv, NEW m \in Conn, AppendFails(m)
  PROVE  TrailInv'
<1> DEFINE v == server[m].writer
           e == Head(server[m].up).event
           w == Chained(v, e)
           line == Append(log[m], RecordOf(v, e))
<1>1. HasRequest(m, "append") /\ "error" \in Response
  BY DEF AppendFails, Response
<1>2. /\ log[m] \in Seq(Entry) /\ Sound(log[m], v) /\ v \in Writer /\ e \in Event
  BY <1>1, ServedRequest
<1>3. /\ server' = [server EXCEPT ![m] = Reply(m, "error", Counted(v))]
      /\ UNCHANGED <<trail, client, service, thread, acked>>
  BY DEF AppendFails, TrailInv, TrailTypes, TrailTypeOK
<1>4. faults' \in 0..MaxFaults
  BY TrailAssumption DEF AppendFails, TrailInv, TrailTypes, TrailTypeOK
<1>5. PICK s \in {line, Append(log[m], Torn), log[m], Append(line, Torn)} : log' = [log EXCEPT ![m] = s]
  BY DEF AppendFails, Written
<1> HIDE DEF v, e
<1>6. /\ RecordOf(v, e) \in Entry /\ Torn \in Entry /\ w \in Writer /\ Counted(v) \in Writer
  BY <1>2, EntriesTyped
<1>7. line \in Seq(Entry) /\ Sound(line, w)
  BY <1>2, <1>6, SoundRecord
<1>8. EventsOf(log[m]) \subseteq EventsOf(line) /\ EventsOf(log[m]) \subseteq EventsOf(Append(log[m], Torn))
  BY <1>2, <1>6, EventsGrow
<1> HIDE DEF w, line
<1>9. EventsOf(line) \subseteq EventsOf(Append(line, Torn))
  BY <1>6, <1>7, EventsGrow
<1>10. Verifies(line) /\ Verifies(Append(line, Torn))
  BY <1>7, SoundVerifies, SoundTorn
<1>11. Verifies(log[m]) /\ Verifies(Append(log[m], Torn))
  BY <1>2, SoundVerifies, SoundTorn
<1>12. s \in Seq(Entry) /\ EventsOf(log[m]) \subseteq EventsOf(s) /\ Verifies(s)
  <2>1. CASE s = line
    BY <2>1, <1>7, <1>8, <1>10
  <2>2. CASE s = Append(log[m], Torn)
    BY <2>2, <1>2, <1>6, <1>8, <1>11
  <2>3. CASE s = log[m]
    BY <2>3, <1>2, <1>11
  <2>4. CASE s = Append(line, Torn)
    BY <2>4, <1>6, <1>7, <1>8, <1>9, <1>10
  <2> QED
    BY <1>5, <2>1, <2>2, <2>3, <2>4
<1> QED
  BY <1>1, <1>3, <1>4, <1>5, <1>6, <1>12, ReplyFrame

LEMMA ServeCloseStep ==
  ASSUME TrailInv, NEW m \in Conn, ServeClose(m)
  PROVE  TrailInv'
<1> DEFINE v == server[m].writer
           s == Append(log[m], CheckpointOf(v, TRUE))
<1>1. HasRequest(m, "close") /\ "closed" \in Response
  BY DEF ServeClose, Response
<1>2. log[m] \in Seq(Entry) /\ Sound(log[m], v) /\ v \in Writer
  BY <1>1, ServedRequest
<1>3. /\ server' = [server EXCEPT ![m] = Reply(m, "closed", Checkpointed(v))]
      /\ log' = [log EXCEPT ![m] = s]
      /\ UNCHANGED <<trail, client, service, thread, acked>>
  BY DEF ServeClose, TrailInv, TrailTypes, TrailTypeOK
<1>4. faults' \in 0..MaxFaults
  BY DEF ServeClose, TrailInv, TrailTypes, TrailTypeOK
<1> HIDE DEF v
<1>5. CheckpointOf(v, TRUE) \in Entry
  BY <1>2 DEF CheckpointOf, CheckpointEntry, Entry, Writer
<1>6. Checkpointed(v) \in Writer
  BY <1>2, CheckpointedTyped
<1>7. s \in Seq(Entry) /\ EventsOf(log[m]) \subseteq EventsOf(s) /\ Verifies(s)
  <2>1. EventsOf(log[m]) \subseteq EventsOf(s)
    BY <1>2, <1>5, EventsGrow
  <2>2. Verifies(s)
    BY <1>2, SoundFinal
  <2>3. s \in Seq(Entry)
    BY <1>2, <1>5, AppendTyped, Zenon
  <2> QED
    BY <2>1, <2>2, <2>3, Zenon
<1> QED
  BY <1>1, <1>3, <1>4, <1>6, <1>7, ReplyFrame

LEMMA CloseFailsStep ==
  ASSUME TrailInv, NEW m \in Conn, CloseFails(m)
  PROVE  TrailInv'
<1> DEFINE v == server[m].writer
           h == [server[m] EXCEPT !.pc = "gone", !.up = <<>>]
           c == CheckpointOf(v, TRUE)
<1>1. HasRequest(m, "close")
  BY DEF CloseFails
<1>2. /\ log[m] \in Seq(Entry) /\ Sound(log[m], v) /\ v \in Writer
      /\ server[m] \in Handler /\ server[m].pc = "serve" /\ server[m].answer = None /\ server[m].up # <<>>
  BY <1>1, ServedRequest DEF HasRequest
<1>3. server' = [server EXCEPT ![m] = h] /\ UNCHANGED <<trail, client, service, thread, acked>>
  BY DEF CloseFails, TrailInv, TrailTypes, TrailTypeOK
<1>4. faults' \in 0..MaxFaults
  BY TrailAssumption DEF CloseFails, TrailInv, TrailTypes, TrailTypeOK
<1>5. PICK s \in {Append(log[m], c), Append(log[m], Torn), log[m]} : log' = [log EXCEPT ![m] = s]
  BY DEF CloseFails, Written
<1>6. /\ h \in Handler /\ h.pc = "gone" /\ h.up = <<>> /\ h.answer = None
      /\ h.open = server[m].open /\ h.down = server[m].down
  <2>1. <<>> \in Seq(Request)
    OBVIOUS
  <2>2. h \in Handler
    BY <1>2, <2>1 DEF Handler
  <2> QED
    BY <1>2, <2>2 DEF Handler
<1> HIDE DEF v, h
<1>7. c \in Entry /\ Torn \in Entry
  BY <1>2 DEF CheckpointOf, CheckpointEntry, Entry, Writer
<1>8. Verifies(log[m]) /\ Verifies(Append(log[m], Torn)) /\ Verifies(Append(log[m], c))
  BY <1>2, SoundVerifies, SoundTorn, SoundFinal
<1> HIDE DEF c
<1>9. s \in Seq(Entry) /\ EventsOf(log[m]) \subseteq EventsOf(s) /\ Verifies(s)
  <2>1. CASE s = log[m]
    BY <2>1, <1>2, <1>8
  <2>2. CASE s = Append(log[m], Torn)
    BY <2>2, <1>2, <1>7, <1>8, EventsGrow
  <2>3. CASE s = Append(log[m], c)
    BY <2>3, <1>2, <1>7, <1>8, EventsGrow
  <2> QED
    BY <1>5, <2>1, <2>2, <2>3
<1>10. LogInv(h, s)
  BY <1>6, <1>9, TrailAssumption DEF LogInv, MayWrite
<1>11. ASSUME NEW q \in Request, Exchange(server[m], log[m], q) PROVE Exchange(h, s, q)
  BY <1>2, <1>6, <1>11 DEF Exchange
<1>12. ~Quiet(server[m])
  BY <1>2 DEF Quiet
<1> QED
  BY <1>3, <1>4, <1>5, <1>6, <1>9, <1>10, <1>11, <1>12, ServerFrame

LEMMA ServeReplyStep ==
  ASSUME TrailInv, NEW m \in Conn, ServeReply(m)
  PROVE  TrailInv'
<1> DEFINE g == server[m]
           last == g.answer \in {"error", "closed"} \/ ~g.open
           pc == IF last THEN "gone" ELSE "serve"
           down == IF g.open THEN Append(g.down, g.answer) ELSE <<>>
           h == [g EXCEPT !.pc = pc, !.up = <<>>, !.down = down, !.answer = None]
<1>1. g \in Handler /\ log[m] \in Seq(Entry) /\ LogInv(g, log[m]) /\ g.pc = "reply"
  BY DEF TrailInv, TrailTypes, TrailTypeOK, LogsInv, ServeReply
<1>2. g.answer \in Response /\ g.up = <<>>
  BY <1>1 DEF LogInv, Handler
<1>3. server' = [server EXCEPT ![m] = h] /\ UNCHANGED <<trail, client, service, thread, acked>>
  <2> DEFINE up == IF last THEN <<>> ELSE g.up
  <2>1. server' = [server EXCEPT ![m] = [server[m] EXCEPT !.pc = pc, !.up = up, !.down = down, !.answer = None]]
    BY Zenon DEF ServeReply
  <2>2. up = <<>>
    BY <1>2
  <2> HIDE DEF last, pc, down, up
  <2>3. server' = [server EXCEPT ![m] = h]
    BY <2>1, <2>2, Zenon
  <2> QED
    BY <2>3 DEF ServeReply
<1>4. faults' \in 0..MaxFaults /\ log' = [log EXCEPT ![m] = log[m]]
  BY DEF ServeReply, TrailInv, TrailTypes, TrailTypeOK
<1> HIDE DEF g
<1>5. down \in Seq(Response)
  BY <1>1, <1>2 DEF Handler
<1>6. pc \in {"gone", "serve"}
  OBVIOUS
<1>7. ~last => g.answer \in {"opened", "ack"}
  BY <1>2 DEF Response
<1> HIDE DEF pc, down
<1>8. /\ h \in Handler /\ h.pc = pc /\ h.up = <<>> /\ h.answer = None /\ h.writer = g.writer
      /\ h.open = g.open /\ h.down = down
  <2>1. <<>> \in Seq(Request) /\ None \in Response \cup {None} /\ pc \in {"none", "serve", "reply", "gone"}
    BY <1>6
  <2>2. h \in Handler
    BY <1>1, <1>5, <2>1 DEF Handler
  <2> QED
    BY <1>1, <2>2 DEF Handler
<1> HIDE DEF h
<1>9. LogInv(h, log[m])
  <2>1. pc = "serve" => Sound(log[m], g.writer)
    BY <1>1, <1>7 DEF LogInv, MayWrite, pc
  <2> QED
    BY <1>1, <1>6, <1>8, <2>1, TrailAssumption DEF LogInv, MayWrite
<1>10. ASSUME NEW q \in Request, Exchange(g, log[m], q) PROVE Exchange(h, log[m], q)
  <2>1. g.down = <<>> /\ Tells(g.answer, q, log[m])
    BY <1>1, <1>10 DEF Exchange
  <2>2. CASE g.open
    <3>1. down = <<g.answer>>
      BY <2>1, <2>2 DEF down
    <3> QED
      BY <1>2, <1>6, <1>8, <2>1, <3>1 DEF Exchange
  <2>3. CASE ~g.open
    <3>1. down = <<>> /\ pc = "gone"
      BY <2>3 DEF down, pc
    <3> QED
      BY <1>8, <3>1 DEF Exchange
  <2> QED
    BY <2>2, <2>3
<1>11. ~Quiet(g)
  BY <1>1 DEF Quiet
<1> QED
  BY <1>1, <1>3, <1>4, <1>8, <1>9, <1>10, <1>11, ServerFrame DEF g

LEMMA ServeEofStep ==
  ASSUME TrailInv, NEW m \in Conn, ServeEof(m)
  PROVE  TrailInv'
<1> DEFINE g == server[m]
           h == [g EXCEPT !.pc = "gone"]
<1>1. g \in Handler /\ log[m] \in Seq(Entry) /\ LogInv(g, log[m]) /\ g.pc = "serve" /\ g.up = <<>>
  BY DEF TrailInv, TrailTypes, TrailTypeOK, LogsInv, ServeEof
<1>2. server' = [server EXCEPT ![m] = h] /\ UNCHANGED <<trail, client, service, thread, acked>>
  BY DEF ServeEof, TrailInv, TrailTypes, TrailTypeOK
<1>3. faults' \in 0..MaxFaults /\ log' = [log EXCEPT ![m] = log[m]]
  BY DEF ServeEof, TrailInv, TrailTypes, TrailTypeOK
<1> HIDE DEF g
<1>4. /\ h \in Handler /\ h.pc = "gone" /\ h.up = <<>> /\ h.answer = g.answer /\ h.writer = g.writer
      /\ h.open = g.open /\ h.down = g.down
  BY <1>1 DEF Handler
<1> HIDE DEF h
<1>5. LogInv(h, log[m])
  BY <1>1, <1>4, TrailAssumption DEF LogInv, MayWrite
<1>6. ASSUME NEW q \in Request, Exchange(g, log[m], q) PROVE Exchange(h, log[m], q)
  BY <1>1, <1>4, <1>6 DEF Exchange
<1>7. Quiet(g) => Quiet(h)
  BY <1>1, <1>4 DEF Quiet
<1> QED
  BY <1>1, <1>2, <1>3, <1>4, <1>5, <1>6, <1>7, ServerFrame DEF g

\* The service dies: what is under way is lost, and a line may be torn.
LEMMA ServiceDiesStep ==
  ASSUME TrailInv, ServiceDies
  PROVE  TrailInv'
<1>0. server \in [Conn -> Handler] /\ log \in [Conn -> Seq(Entry)] /\ Torn \in Entry
  BY DEF TrailInv, TrailTypes, TrailTypeOK, Entry
<1>1. PICK m \in Conn :
        log' \in {log, [log EXCEPT ![m] = IF HasRequest(m, "append") THEN Append(@, Torn) ELSE @]}
  BY DEF ServiceDies
<1>2. ASSUME NEW l \in Conn
      PROVE  /\ log'[l] \in Seq(Entry)
             /\ EventsOf(log[l]) \subseteq EventsOf(log'[l])
             /\ log'[l] = log[l] \/ (log'[l] = Append(log[l], Torn) /\ HasRequest(l, "append"))
             /\ Verifies(log'[l])
  <2>1. log[l] \in Seq(Entry) /\ Verifies(log[l])
    BY <1>0 DEF TrailInv, LogsInv, LogInv
  <2>2. CASE log'[l] = log[l]
    BY <2>1, <2>2
  <2>3. CASE log'[l] # log[l]
    <3>1. log'[l] = Append(log[l], Torn) /\ HasRequest(l, "append")
      BY <1>0, <1>1, <2>3
    <3>2. Sound(log[l], server[l].writer)
      BY <3>1, ServedRequest
    <3>3. Verifies(Append(log[l], Torn))
      BY <2>1, <3>2, SoundTorn
    <3>4. EventsOf(log[l]) \subseteq EventsOf(Append(log[l], Torn)) /\ Append(log[l], Torn) \in Seq(Entry)
      BY <1>0, <2>1, EventsGrow
    <3> QED
      BY <3>1, <3>3, <3>4
  <2> QED
    BY <2>2, <2>3
<1>3. ASSUME NEW l \in Conn
      PROVE  /\ server'[l] \in Handler
             /\ server[l].pc \in {"none", "gone"} => server'[l] = server[l]
             /\ server[l].pc \in {"serve", "reply"} =>
                  /\ server'[l].pc = "gone" /\ server'[l].up = <<>> /\ server'[l].answer = None
             /\ server'[l].open = server[l].open /\ server'[l].down = server[l].down
  <2>1. server[l] \in Handler
    BY <1>0
  <2>2. server'[l] = IF server[l].pc \in {"serve", "reply"}
                       THEN [server[l] EXCEPT !.pc = "gone", !.up = <<>>, !.answer = None] ELSE server[l]
    BY DEF ServiceDies
  <2>3. CASE server[l].pc \in {"serve", "reply"}
    <3>1. server'[l] = [server[l] EXCEPT !.pc = "gone", !.up = <<>>, !.answer = None]
      BY <2>2, <2>3
    <3>2. <<>> \in Seq(Request) /\ None \in Response \cup {None}
      OBVIOUS
    <3>3. server'[l] \in Handler
      BY <2>1, <3>1, <3>2 DEF Handler
    <3> QED
      BY <2>1, <2>3, <3>1, <3>3 DEF Handler
  <2>4. CASE server[l].pc \notin {"serve", "reply"}
    BY <2>1, <2>2, <2>4
  <2> QED
    BY <2>3, <2>4
<1>4. ASSUME NEW l \in Conn
      PROVE  /\ LogInv(server'[l], log'[l])
             /\ \A r \in Request : Exchange(server[l], log[l], r) => Exchange(server'[l], log'[l], r)
             /\ Quiet(server[l]) => Quiet(server'[l])
  <2>0. server[l] \in Handler /\ LogInv(server[l], log[l])
    BY <1>0 DEF TrailInv, LogsInv
  <2>1. CASE server[l].pc \in {"none", "gone"}
    <3>1. server'[l] = server[l]
      BY <1>3, <2>1
    <3>2. log'[l] = log[l]
      BY <1>2, <2>1 DEF HasRequest
    <3> QED
      BY <2>0, <3>1, <3>2
  <2>2. CASE server[l].pc \in {"serve", "reply"}
    <3>1. /\ server'[l].pc = "gone" /\ server'[l].up = <<>> /\ server'[l].answer = None
          /\ server'[l].down = server[l].down
      BY <1>3, <2>2
    <3>2. LogInv(server'[l], log'[l])
      BY <1>2, <3>1, TrailAssumption DEF LogInv, MayWrite
    <3>3. ASSUME NEW r \in Request, Exchange(server[l], log[l], r)
          PROVE  Exchange(server'[l], log'[l], r)
      <4>1. CASE server[l].down = <<>>
        BY <3>1, <4>1 DEF Exchange
      <4>2. CASE server[l].down # <<>>
        <5>1. PICK a \in Response : server[l].down = <<a>> /\ Tells(a, r, log[l])
          BY <3>3, <4>2 DEF Exchange
        <5>2. Tells(a, r, log'[l])
          BY <1>2, <5>1 DEF Tells
        <5> QED
          BY <3>1, <5>1, <5>2 DEF Exchange
      <4> QED
        BY <4>1, <4>2
    <3>4. Quiet(server[l]) => Quiet(server'[l])
      BY <3>1 DEF Quiet
    <3> QED
      BY <3>2, <3>3, <3>4
  <2> QED
    BY <2>0, <2>1, <2>2 DEF Handler
<1>5. server' \in [Conn -> Handler]
  BY <1>3 DEF ServiceDies
<1>6. log' \in [Conn -> Seq(Entry)]
  <2>1. DOMAIN log' = Conn /\ log' = [l \in DOMAIN log' |-> log'[l]]
    BY <1>0, <1>1
  <2> QED
    BY <1>2, <2>1
<1>7. /\ faults' \in 0..MaxFaults /\ service' \in BOOLEAN
      /\ UNCHANGED <<trail, client, thread, acked>>
  <2>1. faults \in 0..MaxFaults
    BY DEF TrailInv, TrailTypes, TrailTypeOK
  <2>2. faults < MaxFaults /\ faults' = faults + 1 /\ service' = FALSE
    BY DEF ServiceDies
  <2>3. UNCHANGED <<trail, client, thread, acked>>
    BY DEF ServiceDies
  <2>4. faults' \in 0..MaxFaults
    BY <2>1, <2>2, TrailAssumption
  <2> QED
    BY <2>2, <2>3, <2>4
<1> QED
  BY <1>2, <1>3, <1>4, <1>5, <1>6, <1>7, ServiceFrame

LEMMA ServiceStartsStep ==
  ASSUME TrailInv, ServiceStarts
  PROVE  TrailInv'
<1>1. /\ server' \in [Conn -> Handler] /\ log' \in [Conn -> Seq(Entry)]
      /\ faults' \in 0..MaxFaults /\ service' \in BOOLEAN
      /\ UNCHANGED <<trail, client, thread, acked>>
      /\ server' = server /\ log' = log
  BY DEF ServiceStarts, TrailInv, TrailTypes, TrailTypeOK
<1>2. \A l \in Conn : LogInv(server[l], log[l])
  BY DEF TrailInv, LogsInv
<1> QED
  BY <1>1, <1>2, ServiceFrame

LEMMA ServerSteps ==
  ASSUME TrailInv, NEW l \in Conn, ServerStep(l)
  PROVE  TrailInv'
BY ServeOpenStep, ServeAppendStep, AppendFailsStep, ServeCloseStep, CloseFailsStep, ServeReplyStep,
   ServeEofStep DEF ServerStep

-----------------------------------------------------------------------------
(* The steps of the client and of the audited thread.                      *)

\* The state of a call, as the invariant describes it.
LEMMA CallCases ==
  ASSUME TrailInv
  PROVE  /\ op \in Op /\ link \in Conn \cup {None} /\ None \notin Conn
         /\ op.stage = None <=> op = NoOp
         /\ InExchange => link \in Conn
         /\ op.stage \in {"connect", "opening", "attaching", "recording"} =>
              op.by = "actor" /\ op.event = actor.next /\ actor.pc = "wait"
         /\ op.stage \in {"ending", "closing"} => op.by = "closer" /\ op.event = Ended /\ cancelled
         /\ op.by = "actor" <=> actor.pc = "wait"
         /\ op = NoOp => op.by = None /\ op.stage = None
<1>1. op \in Op /\ link \in Conn \cup {None} /\ None \notin Conn
  BY TrailAssumption DEF TrailInv, TrailTypes, TrailTypeOK
<1>2. NoOp.by = None /\ NoOp.stage = None
  BY DEF NoOp
<1>3. CallInv /\ LinkInv
  BY DEF TrailInv
<1>4. op.stage = None <=> op = NoOp
  BY <1>2, <1>3, TrailAssumption DEF CallInv
<1>5. InExchange => link \in Conn
  BY <1>1, <1>2, <1>3, TrailAssumption DEF LinkInv, InExchange
<1>6. /\ op.stage \in {"connect", "opening", "attaching", "recording"} =>
           op.by = "actor" /\ op.event = actor.next /\ actor.pc = "wait"
      /\ op.stage \in {"ending", "closing"} => op.by = "closer" /\ op.event = Ended /\ cancelled
      /\ op.by = "actor" <=> actor.pc = "wait"
  BY <1>2, <1>3, TrailAssumption DEF CallInv
<1> QED
  BY <1>1, <1>2, <1>4, <1>5, <1>6

\* A step that writes no log.
LEMMA ClientFrame ==
  ASSUME TrailInv, NEW m \in Conn, NEW h \in Handler,
         server' = [server EXCEPT ![m] = h], LogInv(h, log[m]),
         UNCHANGED <<trail, log, service, faults>>
  PROVE  /\ LogsInv' /\ Recorded' = Recorded
         /\ server' \in [Conn -> Handler] /\ server'[m] = h
         /\ required' = required
         /\ log' \in [Conn -> Seq(Entry)] /\ log' = log
<1>0. server \in [Conn -> Handler] /\ log \in [Conn -> Seq(Entry)]
  BY DEF TrailInv, TrailTypes, TrailTypeOK
<1>1. \A l \in Conn : server'[l] = IF l = m THEN h ELSE server[l]
  BY <1>0
<1>2. LogsInv'
  BY <1>1 DEF TrailInv, LogsInv
<1>3. Recorded' = Recorded
  BY DEF Recorded
<1>4. required' = required
  BY DEF trail
<1> QED
  BY <1>0, <1>1, <1>2, <1>3, <1>4

\* A connection that is not in use is set down, or given up.
LEMMA TakenKeeps ==
  ASSUME NEW g \in Handler, NEW s, LogInv(g, s), NEW h \in Handler,
         h.pc = g.pc, h.up = g.up, h.answer = g.answer, h.writer = g.writer, g.pc # "none"
  PROVE  LogInv(h, s)
BY DEF LogInv, MayWrite

\* The next request goes out on a connection where none is under way.
LEMMA SendKeeps ==
  ASSUME NEW g \in Handler, NEW s, LogInv(g, s), NEW r \in Request, r.kind # "open",
         g.pc \in {"serve", "gone"}, NEW h \in Handler,
         h.pc = g.pc, h.up = (IF g.pc = "gone" THEN <<>> ELSE <<r>>), h.down = <<>>,
         h.answer = g.answer, h.writer = g.writer
  PROVE  LogInv(h, s) /\ Exchange(h, s, r)
<1>1. CASE g.pc = "gone"
  BY <1>1 DEF LogInv, MayWrite, Exchange
<1>2. CASE g.pc = "serve"
  <2>1. h.up = <<r>> /\ Head(h.up) = r /\ h.up # <<>> /\ h.pc = "serve"
    BY <1>2
  <2> QED
    BY <1>2, <2>1 DEF LogInv, MayWrite, Exchange
<1> QED
  BY <1>1, <1>2

\* What the client finds when it reads an answer.
LEMMA AnswerRead ==
  ASSUME TrailInv, NEW answer \in Response, Answered(answer)
  PROVE  /\ link \in Conn /\ server[link] \in Handler /\ server[link].open
         /\ server[link].pc \in {"serve", "gone"} /\ server[link].up = <<>>
         /\ LogInv(server[link], log[link])
         /\ Tells(answer, Asked(op.stage, op.event), log[link])
<1>1. link \in Conn /\ InExchange /\ server[link].down # <<>> /\ Head(server[link].down) = answer
  BY CallCases DEF Answered
<1>2. server[link] \in Handler /\ server[link].open /\ LogInv(server[link], log[link])
  BY <1>1, CallCases DEF TrailInv, TrailTypes, TrailTypeOK, LogsInv, LinkInv
<1>3. Exchange(server[link], log[link], Asked(op.stage, op.event))
  BY <1>1 DEF TrailInv, LinkInv
<1>4. /\ server[link].pc \in {"serve", "gone"} /\ server[link].up = <<>>
      /\ \E a \in Response : server[link].down = <<a>> /\ Tells(a, Asked(op.stage, op.event), log[link])
  BY <1>1, <1>3 DEF Exchange
<1>5. Tells(answer, Asked(op.stage, op.event), log[link])
  BY <1>1, <1>4
<1> QED
  BY <1>1, <1>2, <1>4, <1>5

LEMMA OpTyped ==
  ASSUME NEW by \in {"actor", "closer", None}, NEW event \in Event,
         NEW stage \in {None, "connect", "opening", "attaching", "recording", "ending", "closing"}
  PROVE  /\ [by |-> by, stage |-> stage, event |-> event] \in Op
         /\ NoOp \in Op
         /\ \A o \in Op : [o EXCEPT !.stage = stage] \in Op
         /\ \A o \in Op : [o EXCEPT !.stage = stage].stage = stage
         /\ \A o \in Op : [o EXCEPT !.stage = stage].by = o.by
         /\ \A o \in Op : [o EXCEPT !.stage = stage].event = o.event
<1>1. 0 \in Event
  BY TrailAssumption DEF Event, Ended
<1> QED
  BY <1>1 DEF Op, NoOp

LEMMA ConnectStep ==
  ASSUME TrailInv, Connect
  PROVE  TrailInv'
<1> DEFINE open == [kind |-> "open"]
           h == [NoHandler EXCEPT !.pc = "serve", !.open = TRUE, !.up = <<open>>]
<1>1. PICK m \in Conn : /\ server[m] = NoHandler
                        /\ server' = [server EXCEPT ![m] = h] /\ link' = m
  <2>1. Unlinked \subseteq Nat /\ Unlinked # {}
    BY TrailAssumption DEF Connect, Unlinked, Conn
  <2>2. \E n \in Unlinked : \A k \in Unlinked : n <= k
    BY <2>1, LeastNat
  <2> DEFINE first == CHOOSE n \in Unlinked : \A k \in Unlinked : n <= k
  <2>3. first \in Unlinked
    BY <2>2
  <2>4. server' = [server EXCEPT ![first] = h] /\ link' = first
    BY DEF Connect
  <2> HIDE DEF first
  <2> QED
    BY <2>3, <2>4 DEF Unlinked
<1>2. h \in Handler /\ h.pc = "serve" /\ h.up = <<open>> /\ h.down = <<>> /\ h.answer = None
      /\ h.writer = NoWriter /\ h.open
  <2>1. NoWriter \in Writer /\ <<open>> \in Seq(Request) /\ <<>> \in Seq(Request) /\ <<>> \in Seq(Response)
    BY RequestsTyped DEF NoWriter, Writer, Hash
  <2>2. NoHandler \in Handler /\ NoHandler.down = <<>> /\ NoHandler.answer = None /\ NoHandler.writer = NoWriter
    BY <2>1 DEF NoHandler, Handler
  <2>3. ASSUME NEW up \in Seq(Request)
        PROVE  LET x == [NoHandler EXCEPT !.pc = "serve", !.open = TRUE, !.up = up]
               IN /\ x \in Handler /\ x.pc = "serve" /\ x.up = up /\ x.down = NoHandler.down
                  /\ x.answer = NoHandler.answer /\ x.writer = NoHandler.writer /\ x.open = TRUE
    BY <2>2 DEF Handler
  <2>4. /\ h \in Handler /\ h.pc = "serve" /\ h.up = <<open>> /\ h.down = NoHandler.down
        /\ h.answer = NoHandler.answer /\ h.writer = NoHandler.writer /\ h.open = TRUE
    BY <2>1, <2>3, Zenon
  <2> HIDE DEF h
  <2> QED
    BY <2>2, <2>4
<1>3. log[m] = <<>> /\ log[m] \in Seq(Entry)
  BY <1>1 DEF TrailInv, TrailTypes, LogsInv, LogInv, NoHandler
<1> HIDE DEF h
<1>4. LogInv(h, log[m])
  <2>1. Sound(log[m], h.writer) /\ Verifies(log[m])
    BY <1>2, <1>3, SoundStart, SoundVerifies
  <2>2. \E r \in Request : h.up = <<r>>
    BY <1>2, RequestsTyped
  <2> QED
    BY <1>2, <1>3, <2>1, <2>2, TrailAssumption DEF LogInv, MayWrite
<1>5. UNCHANGED <<trail, log, service, faults, thread, acked, state>>
  BY DEF Connect
<1>6. /\ LogsInv' /\ Recorded' = Recorded /\ server' \in [Conn -> Handler] /\ server'[m] = h
      /\ required' = required /\ log' \in [Conn -> Seq(Entry)] /\ log' = log
  BY <1>1, <1>2, <1>4, <1>5, ClientFrame
<1>7. op.stage = "connect" /\ op' = [op EXCEPT !.stage = "opening"] /\ op \in Op
  BY CallCases DEF Connect
<1>8. /\ op' \in Op /\ op'.stage = "opening" /\ op'.by = op.by /\ op'.event = op.event
  BY <1>7 DEF Op
<1>9. TrailTypes'
  BY <1>1, <1>5, <1>6, <1>8, TrailAssumption DEF TrailInv, TrailTypes, TrailTypeOK, trail, thread
<1>10. CallInv'
  BY <1>5, <1>7, <1>8, CallCases DEF TrailInv, CallInv, thread
<1>11. LinkInv'
  <2>1. (InExchange /\ link # None /\ op # NoOp /\ op.stage # "connect")'
    BY <1>1, <1>8, TrailAssumption DEF InExchange, NoOp
  <2>2. Exchange(h, log[m], open)
    BY <1>2 DEF Exchange
  <2>3. Asked(op'.stage, op'.event) = open
    BY <1>8 DEF Asked
  <2> QED
    BY <1>1, <1>2, <1>6, <2>1, <2>2, <2>3 DEF LinkInv
<1>12. ActorInv' /\ AcknowledgedIsDurable' /\ ActedIsRecorded'
  BY <1>5, <1>6 DEF TrailInv, ActorInv, AcknowledgedIsDurable, ActedIsRecorded, Recorded, thread
<1> QED
  BY <1>6, <1>9, <1>10, <1>11, <1>12 DEF TrailInv

\* The call ends without a record: it fails if one is required.
LEMMA GiveUpStep ==
  ASSUME TrailInv, op # NoOp, GiveUp
  PROVE  TrailInv'
<1>0. server \in [Conn -> Handler] /\ log \in [Conn -> Seq(Entry)]
  BY DEF TrailInv, TrailTypes, TrailTypeOK
<1>1. UNCHANGED <<trail, log, service, faults, acked>> /\ link' = None /\ op' = NoOp /\ acted' = acted
  BY DEF GiveUp, Returns
<1>2. LogsInv' /\ server' \in [Conn -> Handler]
  <2>1. CASE link = None
    BY <2>1, <1>0, <1>1 DEF GiveUp, TrailInv, LogsInv
  <2>2. CASE link # None
    <3> DEFINE h == [server[link] EXCEPT !.open = FALSE, !.down = <<>>]
    <3>1. link \in Conn /\ server[link] \in Handler /\ LogInv(server[link], log[link])
      BY <1>0, <2>2, CallCases DEF TrailInv, LogsInv
    <3>2. server' = [server EXCEPT ![link] = h]
      BY <1>0, <2>2, <3>1 DEF GiveUp
    <3>3. <<>> \in Seq(Response) /\ FALSE \in BOOLEAN
      OBVIOUS
    <3>4. h \in Handler
      BY <3>1, <3>3 DEF Handler
    <3>5. h.pc = server[link].pc /\ h.up = server[link].up /\ h.answer = server[link].answer /\ h.writer = server[link].writer
      BY <3>1 DEF Handler
    <3>6. server[link].pc # "none"
      <4>1. server[link].open
        BY <2>2 DEF TrailInv, LinkInv
      <4>2. ~NoHandler.open
        BY DEF NoHandler
      <4> QED
        BY <3>1, <4>1, <4>2 DEF LogInv
    <3> HIDE DEF h
    <3>7. LogInv(h, log[link])
      BY <3>1, <3>4, <3>5, <3>6, TakenKeeps
    <3> QED
      BY <1>1, <3>1, <3>2, <3>4, <3>7, ClientFrame
  <2> QED
    BY <2>1, <2>2
<1>3. /\ state' \in {"closed", "failed"}
      /\ state' = "closed" => cancelled /\ cancelled' /\ actor' = actor /\ actor.pc # "wait"
      /\ state' = "failed" => actor' = [actor EXCEPT !.pc = "check"] /\ cancelled' = (cancelled \/ required) /\ actor.pc = "wait"
  <2>1. CASE op.by = "closer"
    <3>1. cancelled /\ actor.pc # "wait"
      BY <2>1, CallCases DEF TrailInv, CallInv
    <3> QED
      BY <2>1, <3>1 DEF GiveUp, Returns
  <2>2. CASE op.by # "closer"
    <3>1. op.by = "actor" /\ actor.pc = "wait"
      BY <2>2, CallCases DEF TrailInv, CallInv
    <3>2. required \in BOOLEAN /\ cancelled \in BOOLEAN
      BY DEF TrailInv, TrailTypes, TrailTypeOK
    <3> QED
      BY <2>2, <3>1, <3>2 DEF GiveUp, Returns, CancelledBy
  <2> QED
    BY <2>1, <2>2
<1>4. /\ actor \in [pc: {"idle", "append", "wait", "check", "act", "done"}, next: Event]
      /\ cancelled \in BOOLEAN /\ required \in BOOLEAN
  BY DEF TrailInv, TrailTypes, TrailTypeOK
<1>5. /\ actor' \in [pc: {"idle", "append", "wait", "check", "act", "done"}, next: Event]
      /\ actor'.pc # "wait" /\ actor'.next = actor.next /\ cancelled' \in BOOLEAN
      /\ actor'.pc = actor.pc \/ (actor'.pc = "check" /\ actor.pc = "wait" /\ cancelled' = (cancelled \/ required))
      /\ cancelled => cancelled'
  BY <1>3, <1>4
<1>6. NoOp \in Op /\ NoOp.stage = None
  <2>1. 0 \in Event
    BY TrailAssumption DEF Event, Ended
  <2> QED
    BY <2>1 DEF Op, NoOp
<1>7. TrailTypes'
  BY <1>0, <1>1, <1>2, <1>3, <1>5, <1>6 DEF TrailInv, TrailTypes, TrailTypeOK, trail
<1>8. CallInv'
  BY <1>1, <1>3, <1>5, <1>6, TrailAssumption DEF CallInv
<1>9. LinkInv'
  BY <1>1, <1>3, <1>6, TrailAssumption DEF LinkInv, InExchange
<1>10. Recorded' = Recorded
  BY <1>1 DEF Recorded
<1>11. ActorInv'
  BY <1>1, <1>5, <1>10 DEF TrailInv, ActorInv, trail
<1>12. AcknowledgedIsDurable' /\ ActedIsRecorded'
  BY <1>1 DEF TrailInv, AcknowledgedIsDurable, ActedIsRecorded, trail
<1> QED
  BY <1>2, <1>7, <1>8, <1>9, <1>11, <1>12 DEF TrailInv

\* A request follows an answer on the same connection.
LEMMA NextRequest ==
  ASSUME TrailInv, NEW answer \in Response, Answered(answer), NEW r \in Request, r.kind # "open",
         server' = [Taken(link) EXCEPT ![link].up = IF server[link].pc = "gone" THEN <<>> ELSE Append(@, r)],
         UNCHANGED <<trail, log, service, faults>>
  PROVE  /\ LogsInv' /\ Recorded' = Recorded /\ required' = required
         /\ server' \in [Conn -> Handler] /\ log' \in [Conn -> Seq(Entry)] /\ log' = log
         /\ server'[link].open /\ Exchange(server'[link], log[link], r)
<1> DEFINE g == server[link]
           up == IF g.pc = "gone" THEN <<>> ELSE <<r>>
           h == [g EXCEPT !.down = <<>>, !.up = up]
<1>0. server \in [Conn -> Handler]
  BY DEF TrailInv, TrailTypes, TrailTypeOK
<1>1. /\ link \in Conn /\ g \in Handler /\ g.open /\ g.pc \in {"serve", "gone"} /\ g.up = <<>>
      /\ LogInv(g, log[link])
  BY AnswerRead
<1>2. server' = [server EXCEPT ![link] = h]
  <2>1. Append(g.up, r) = <<r>>
    BY <1>1
  <2>2. server' = [[server EXCEPT ![link].down = <<>>] EXCEPT
                     ![link].up = IF g.pc = "gone" THEN <<>> ELSE Append(g.up, r)]
    BY <1>0, <1>1 DEF Taken, Handler
  <2>3. server' = [[server EXCEPT ![link].down = <<>>] EXCEPT ![link].up = up]
    BY <2>1, <2>2, Zenon
  <2> HIDE DEF up
  <2> QED
    BY <1>0, <1>1, <2>3
<1>3. up \in Seq(Request) /\ <<>> \in Seq(Response)
  OBVIOUS
<1> HIDE DEF g, up
<1>4. /\ h \in Handler /\ h.pc = g.pc /\ h.up = up /\ h.down = <<>> /\ h.answer = g.answer
      /\ h.writer = g.writer /\ h.open = g.open
  BY <1>1, <1>3 DEF Handler
<1> HIDE DEF h
<1>5. LogInv(h, log[link]) /\ Exchange(h, log[link], r)
  BY <1>1, <1>4, SendKeeps DEF up
<1>6. /\ LogsInv' /\ Recorded' = Recorded /\ required' = required
      /\ server' \in [Conn -> Handler] /\ log' \in [Conn -> Seq(Entry)] /\ log' = log
      /\ server'[link] = h
  BY <1>1, <1>2, <1>4, <1>5, ClientFrame
<1> QED
  BY <1>1, <1>4, <1>5, <1>6

\* An answer is taken, and nothing sent; the connection may be closed.
LEMMA LastAnswer ==
  ASSUME TrailInv, NEW answer \in Response, Answered(answer),
         \/ server' = Taken(link)
         \/ server' = [Taken(link) EXCEPT ![link].open = FALSE],
         UNCHANGED <<trail, log, service, faults>>
  PROVE  /\ LogsInv' /\ Recorded' = Recorded /\ required' = required
         /\ server' \in [Conn -> Handler] /\ log' \in [Conn -> Seq(Entry)] /\ log' = log
         /\ Quiet(server'[link])
         /\ server' = Taken(link) => server'[link].open
<1> DEFINE g == server[link]
           h == [g EXCEPT !.down = <<>>]
           i == [g EXCEPT !.down = <<>>, !.open = FALSE]
<1>0. server \in [Conn -> Handler]
  BY DEF TrailInv, TrailTypes, TrailTypeOK
<1>1. /\ link \in Conn /\ g \in Handler /\ g.open /\ g.pc \in {"serve", "gone"} /\ g.up = <<>>
      /\ LogInv(g, log[link])
  BY AnswerRead
<1>2. <<>> \in Seq(Response) /\ FALSE \in BOOLEAN
  OBVIOUS
<1>3. /\ server' = Taken(link) => server' = [server EXCEPT ![link] = h]
      /\ server' = Taken(link) \/ server' = [server EXCEPT ![link] = i]
  BY <1>0, <1>1 DEF Taken
<1> HIDE DEF g
<1>4. /\ h \in Handler /\ h.pc = g.pc /\ h.up = g.up /\ h.down = <<>> /\ h.answer = g.answer
      /\ h.writer = g.writer /\ h.open = g.open
  BY <1>1, <1>2 DEF Handler
<1>5. /\ i \in Handler /\ i.pc = g.pc /\ i.up = g.up /\ i.down = <<>> /\ i.answer = g.answer
      /\ i.writer = g.writer
  BY <1>1, <1>2 DEF Handler
<1> HIDE DEF h, i
<1>6. LogInv(h, log[link]) /\ LogInv(i, log[link])
  BY <1>1, <1>4, <1>5, TakenKeeps
<1>7. Quiet(h) /\ Quiet(i)
  BY <1>1, <1>4, <1>5 DEF Quiet
<1>8. CASE server' = Taken(link)
  <2>1. server' = [server EXCEPT ![link] = h]
    BY <1>3, <1>8
  <2>2. /\ LogsInv' /\ Recorded' = Recorded /\ required' = required
        /\ server' \in [Conn -> Handler] /\ log' \in [Conn -> Seq(Entry)] /\ log' = log
        /\ server'[link] = h
    BY <1>1, <1>4, <1>6, <2>1, ClientFrame
  <2> QED
    BY <1>1, <1>4, <1>7, <2>2
<1>9. CASE server' # Taken(link)
  <2>1. server' = [server EXCEPT ![link] = i]
    BY <1>3, <1>9
  <2>2. /\ LogsInv' /\ Recorded' = Recorded /\ required' = required
        /\ server' \in [Conn -> Handler] /\ log' \in [Conn -> Seq(Entry)] /\ log' = log
        /\ server'[link] = i
    BY <1>1, <1>5, <1>6, <2>1, ClientFrame
  <2> QED
    BY <1>7, <1>9, <2>2
<1> QED
  BY <1>8, <1>9

LEMMA OpenedStep ==
  ASSUME TrailInv, Opened
  PROVE  TrailInv'
<1> DEFINE r == AppendRequest(Attached)
<1>1. Attached \in Event /\ r \in Request /\ r.kind = "append" /\ "opened" \in Response
  BY RequestsTyped, TrailAssumption DEF Attached, Event, Ended, Response
<1> HIDE DEF r
<1>2. /\ op.stage = "opening" /\ Answered("opened") /\ op' = [op EXCEPT !.stage = "attaching"]
      /\ server' = [Taken(link) EXCEPT ![link].up = IF server[link].pc = "gone" THEN <<>> ELSE Append(@, r)]
      /\ UNCHANGED <<trail, state, link, log, service, faults, thread, acked>>
  BY DEF Opened, r
<1>3. /\ LogsInv' /\ Recorded' = Recorded /\ required' = required
      /\ server' \in [Conn -> Handler] /\ log' \in [Conn -> Seq(Entry)] /\ log' = log
      /\ server'[link].open /\ Exchange(server'[link], log[link], r)
  BY <1>1, <1>2, NextRequest
<1>4. op \in Op /\ link \in Conn
  BY <1>2, CallCases DEF InExchange
<1>5. op' \in Op /\ op'.stage = "attaching" /\ op'.by = op.by /\ op'.event = op.event
  BY <1>2, <1>4 DEF Op
<1>6. TrailTypes'
  BY <1>2, <1>3, <1>5, TrailAssumption DEF TrailInv, TrailTypes, TrailTypeOK, trail, thread
<1>7. CallInv'
  BY <1>2, <1>5, CallCases DEF TrailInv, CallInv, thread
<1>8. LinkInv'
  <2>1. (InExchange /\ link # None /\ op # NoOp /\ op.stage # "connect")'
    BY <1>2, <1>4, <1>5, TrailAssumption DEF InExchange, NoOp
  <2>2. Asked(op'.stage, op'.event) = r
    BY <1>5 DEF Asked, r
  <2> QED
    BY <1>2, <1>3, <2>1, <2>2 DEF LinkInv
<1>9. ActorInv' /\ AcknowledgedIsDurable' /\ ActedIsRecorded'
  BY <1>2, <1>3 DEF TrailInv, ActorInv, AcknowledgedIsDurable, ActedIsRecorded, Recorded, thread
<1> QED
  BY <1>3, <1>6, <1>7, <1>8, <1>9 DEF TrailInv

LEMMA EndAcknowledgedStep ==
  ASSUME TrailInv, EndAcknowledged
  PROVE  TrailInv'
<1> DEFINE r == [kind |-> "close"]
<1>1. r \in Request /\ r.kind = "close" /\ "ack" \in Response /\ Ended \in Event
  BY RequestsTyped, TrailAssumption DEF Ended, Event, Response
<1> HIDE DEF r
<1>2. /\ op.stage = "ending" /\ Answered("ack") /\ op' = [op EXCEPT !.stage = "closing"]
      /\ server' = [Taken(link) EXCEPT ![link].up = IF server[link].pc = "gone" THEN <<>> ELSE Append(@, r)]
      /\ acked' = acked \cup {Ended}
      /\ UNCHANGED <<trail, state, link, log, service, faults, thread>>
  BY DEF EndAcknowledged, r
<1>3. /\ LogsInv' /\ Recorded' = Recorded /\ required' = required
      /\ server' \in [Conn -> Handler] /\ log' \in [Conn -> Seq(Entry)] /\ log' = log
      /\ server'[link].open /\ Exchange(server'[link], log[link], r)
  BY <1>1, <1>2, NextRequest
<1>4. op \in Op /\ link \in Conn
  BY <1>2, CallCases DEF InExchange
<1>5. op' \in Op /\ op'.stage = "closing" /\ op'.by = op.by /\ op'.event = op.event
  BY <1>2, <1>4 DEF Op
<1>6. Ended \in Recorded
  <2>1. Tells("ack", Asked(op.stage, op.event), log[link])
    BY <1>1, <1>2, AnswerRead
  <2>2. Asked(op.stage, op.event).event = Ended
    BY <1>1, <1>2, RequestsTyped DEF Asked
  <2> QED
    BY <1>4, <2>1, <2>2 DEF Tells, Recorded
<1>7. TrailTypes'
  BY <1>1, <1>2, <1>3, <1>5, TrailAssumption DEF TrailInv, TrailTypes, TrailTypeOK, trail, thread
<1>8. CallInv'
  BY <1>2, <1>5, CallCases DEF TrailInv, CallInv, thread
<1>9. LinkInv'
  <2>1. (InExchange /\ link # None /\ op # NoOp /\ op.stage # "connect")'
    BY <1>2, <1>4, <1>5, TrailAssumption DEF InExchange, NoOp
  <2>2. Asked(op'.stage, op'.event) = r
    BY <1>5 DEF Asked, r
  <2> QED
    BY <1>2, <1>3, <2>1, <2>2 DEF LinkInv
<1>10. ActorInv' /\ AcknowledgedIsDurable' /\ ActedIsRecorded'
  BY <1>2, <1>3, <1>6 DEF TrailInv, ActorInv, AcknowledgedIsDurable, ActedIsRecorded, Recorded, thread
<1> QED
  BY <1>3, <1>7, <1>8, <1>9, <1>10 DEF TrailInv

\* The thread has its record, and returns.
LEMMA ReturnsRecorded ==
  ASSUME TrailInv, op.stage \in {"attaching", "recording"}, Answered("ack"),
         op.event \in EventsOf(log[link]),
         server' = Taken(link), state' = "open", link' = link, Returns(TRUE),
         acked' \in {acked \cup {op.event}},
         UNCHANGED <<trail, log, service, faults>>
  PROVE  TrailInv'
<1>1. "ack" \in Response
  BY DEF Response
<1>2. /\ LogsInv' /\ Recorded' = Recorded /\ required' = required
      /\ server' \in [Conn -> Handler] /\ log' \in [Conn -> Seq(Entry)] /\ log' = log
      /\ Quiet(server'[link]) /\ server'[link].open
  BY <1>1, LastAnswer
<1>3. /\ op \in Op /\ link \in Conn /\ None \notin Conn /\ op.by = "actor" /\ op.event = actor.next
      /\ actor.pc = "wait"
  BY CallCases DEF InExchange
<1>4. op' = NoOp /\ actor' = [actor EXCEPT !.pc = "check"] /\ acted' = acted /\ cancelled' = cancelled
  BY <1>3 DEF Returns, CancelledBy, TrailInv, TrailTypes, TrailTypeOK
<1>5. actor \in [pc: {"idle", "append", "wait", "check", "act", "done"}, next: Event]
  BY DEF TrailInv, TrailTypes, TrailTypeOK
<1>6. /\ actor' \in [pc: {"idle", "append", "wait", "check", "act", "done"}, next: Event]
      /\ actor'.pc = "check" /\ actor'.next = actor.next
  BY <1>4, <1>5
<1>7. NoOp \in Op /\ NoOp.stage = None
  <2>1. 0 \in Event
    BY TrailAssumption DEF Event, Ended
  <2> QED
    BY <2>1 DEF Op, NoOp
<1>8. actor.next \in Recorded /\ op.event \in Event
  BY <1>3, <1>5 DEF Recorded
<1>9. TrailTypes'
  BY <1>2, <1>3, <1>4, <1>6, <1>7, <1>8 DEF TrailInv, TrailTypes, TrailTypeOK, trail
<1>10. CallInv'
  BY <1>4, <1>6, <1>7, TrailAssumption DEF TrailInv, CallInv
<1>11. LinkInv'
  BY <1>2, <1>3, <1>4, <1>7, TrailAssumption DEF LinkInv, InExchange
<1>12. ActorInv'
  BY <1>2, <1>3, <1>6, <1>8 DEF TrailInv, ActorInv
<1>13. AcknowledgedIsDurable'
  BY <1>2, <1>3, <1>8 DEF TrailInv, AcknowledgedIsDurable, Recorded
<1>14. ActedIsRecorded'
  BY <1>2, <1>4 DEF TrailInv, ActedIsRecorded, Recorded
<1> QED
  BY <1>2, <1>9, <1>10, <1>11, <1>12, <1>13, <1>14 DEF TrailInv

LEMMA RecordAcknowledgedStep ==
  ASSUME TrailInv, RecordAcknowledged
  PROVE  TrailInv'
<1>1. "ack" \in Response /\ op.stage = "recording" /\ Answered("ack")
  BY DEF Response, RecordAcknowledged
<1>2. op.event \in Event
  BY CallCases DEF Op
<1>3. Tells("ack", Asked(op.stage, op.event), log[link])
  BY <1>1, AnswerRead
<1>4. Asked(op.stage, op.event).event = op.event
  BY <1>1, <1>2, RequestsTyped DEF Asked
<1>5. op.event \in EventsOf(log[link])
  BY <1>3, <1>4 DEF Tells
<1>6. state = "open"
  BY <1>1 DEF TrailInv, CallInv
<1> QED
  BY <1>1, <1>5, <1>6, ReturnsRecorded DEF RecordAcknowledged

LEMMA AttachmentRecordedStep ==
  ASSUME TrailInv, AttachmentRecorded
  PROVE  TrailInv'
<1>1. "ack" \in Response /\ op.stage = "attaching" /\ Answered("ack")
  BY DEF Response, AttachmentRecorded
<1>2. op.event \in Event /\ Attached \in Event /\ op \in Op
  BY CallCases, TrailAssumption DEF Op, Event, Ended, Attached
<1>3. Tells("ack", Asked(op.stage, op.event), log[link])
  BY <1>1, AnswerRead
<1>4. Asked(op.stage, op.event).event = Attached
  BY <1>1, <1>2, RequestsTyped DEF Asked
<1>5. Attached \in EventsOf(log[link])
  BY <1>3, <1>4 DEF Tells
<1>6. CASE op.event = Attached
  BY <1>1, <1>5, <1>6, ReturnsRecorded DEF AttachmentRecorded
<1>7. CASE op.event # Attached
  <2> DEFINE r == AppendRequest(op.event)
  <2>1. r \in Request /\ r.kind = "append"
    BY <1>2, RequestsTyped
  <2> HIDE DEF r
  <2>2. /\ op' = [op EXCEPT !.stage = "recording"] /\ state' = "open"
        /\ server' = [Taken(link) EXCEPT ![link].up = IF server[link].pc = "gone" THEN <<>> ELSE Append(@, r)]
        /\ acked' = acked \cup {Attached}
        /\ UNCHANGED <<trail, link, log, service, faults, thread>>
    BY <1>7 DEF AttachmentRecorded, r
  <2>3. /\ LogsInv' /\ Recorded' = Recorded /\ required' = required
        /\ server' \in [Conn -> Handler] /\ log' \in [Conn -> Seq(Entry)] /\ log' = log
        /\ server'[link].open /\ Exchange(server'[link], log[link], r)
    BY <1>1, <2>1, <2>2, NextRequest
  <2>4. link \in Conn /\ op.by = "actor" /\ op.event = actor.next /\ actor.pc = "wait"
    BY <1>1, CallCases DEF InExchange
  <2>5. op' \in Op /\ op'.stage = "recording" /\ op'.by = op.by /\ op'.event = op.event
    BY <1>2, <2>2 DEF Op
  <2>6. Attached \in Recorded
    BY <1>5, <2>4 DEF Recorded
  <2>7. TrailTypes'
    BY <1>2, <2>2, <2>3, <2>4, <2>5, TrailAssumption DEF TrailInv, TrailTypes, TrailTypeOK, trail, thread
  <2>8. CallInv'
    BY <2>2, <2>4, <2>5 DEF CallInv, thread
  <2>9. LinkInv'
    <3>1. (InExchange /\ link # None /\ op # NoOp /\ op.stage # "connect")'
      BY <2>2, <2>4, <2>5, TrailAssumption DEF InExchange, NoOp
    <3>2. Asked(op'.stage, op'.event) = r
      BY <2>5 DEF Asked, r
    <3> QED
      BY <2>2, <2>3, <3>1, <3>2 DEF LinkInv
  <2>10. ActorInv' /\ AcknowledgedIsDurable' /\ ActedIsRecorded'
    BY <2>2, <2>3, <2>6 DEF TrailInv, ActorInv, AcknowledgedIsDurable, ActedIsRecorded, Recorded, thread
  <2> QED
    BY <2>3, <2>7, <2>8, <2>9, <2>10 DEF TrailInv
<1> QED
  BY <1>6, <1>7

LEMMA CloseAcknowledgedStep ==
  ASSUME TrailInv, CloseAcknowledged
  PROVE  TrailInv'
<1>1. "closed" \in Response /\ op.stage = "closing" /\ Answered("closed")
  BY DEF Response, CloseAcknowledged
<1>2. /\ server' = [Taken(link) EXCEPT ![link].open = FALSE] /\ link' = None /\ state' = "closed"
      /\ Returns(TRUE) /\ UNCHANGED <<trail, log, service, faults, acked>>
  BY DEF CloseAcknowledged
<1>3. /\ LogsInv' /\ Recorded' = Recorded /\ required' = required
      /\ server' \in [Conn -> Handler] /\ log' \in [Conn -> Seq(Entry)] /\ log' = log
  BY <1>1, <1>2, LastAnswer
<1>4. op.by = "closer" /\ cancelled /\ actor.pc # "wait"
  BY <1>1, CallCases
<1>5. op' = NoOp /\ UNCHANGED <<actor, cancelled, acted>>
  BY <1>2, <1>4 DEF Returns
<1>6. NoOp \in Op /\ NoOp.stage = None
  <2>1. 0 \in Event
    BY TrailAssumption DEF Event, Ended
  <2> QED
    BY <2>1 DEF Op, NoOp
<1>7. TrailTypes'
  BY <1>2, <1>3, <1>5, <1>6 DEF TrailInv, TrailTypes, TrailTypeOK, trail
<1>8. CallInv'
  BY <1>2, <1>4, <1>5, <1>6, TrailAssumption DEF CallInv
<1>9. LinkInv'
  BY <1>2, <1>5, <1>6, TrailAssumption DEF LinkInv, InExchange
<1>10. ActorInv' /\ AcknowledgedIsDurable' /\ ActedIsRecorded'
  BY <1>2, <1>3, <1>5 DEF TrailInv, ActorInv, AcknowledgedIsDurable, ActedIsRecorded, Recorded
<1> QED
  BY <1>3, <1>7, <1>8, <1>9, <1>10 DEF TrailInv

LEMMA ClientSteps ==
  ASSUME TrailInv, ClientStep
  PROVE  TrailInv'
<1>1. ASSUME CannotConnect PROVE TrailInv'
  <2>1. op # NoOp
    BY <1>1, TrailAssumption DEF CannotConnect, NoOp
  <2> QED
    BY <1>1, <2>1, GiveUpStep DEF CannotConnect
<1>2. ASSUME ExchangeFails PROVE TrailInv'
  <2>1. op # NoOp
    BY <1>2, TrailAssumption DEF ExchangeFails, InExchange, NoOp
  <2> QED
    BY <1>2, <2>1, GiveUpStep DEF ExchangeFails
<1> QED
  BY <1>1, <1>2, ConnectStep, OpenedStep, AttachmentRecordedStep, RecordAcknowledgedStep,
     EndAcknowledgedStep, CloseAcknowledgedStep DEF ClientStep

\* The first request of a call on an open connection.
LEMMA FirstRequest ==
  ASSUME TrailInv, op = NoOp, state = "open", NEW r \in Request, r.kind # "open",
         server' = Sent(link, r), UNCHANGED <<trail, log, service, faults>>
  PROVE  /\ LogsInv' /\ Recorded' = Recorded /\ required' = required
         /\ server' \in [Conn -> Handler] /\ log' \in [Conn -> Seq(Entry)] /\ log' = log
         /\ link \in Conn /\ server'[link].open /\ Exchange(server'[link], log[link], r)
<1> DEFINE g == server[link]
           up == IF g.pc = "gone" THEN <<>> ELSE <<r>>
           h == [g EXCEPT !.up = up]
<1>0. server \in [Conn -> Handler]
  BY DEF TrailInv, TrailTypes, TrailTypeOK
<1>1. link \in Conn /\ g \in Handler /\ g.open /\ Quiet(g) /\ LogInv(g, log[link])
  <2>1. link # None
    BY CallCases, TrailAssumption DEF TrailInv, LinkInv
  <2>2. link \in Conn
    BY <2>1, CallCases
  <2> QED
    BY <1>0, <2>1, <2>2 DEF TrailInv, LinkInv, LogsInv
<1>2. server' = [server EXCEPT ![link] = h]
  <2>1. Append(g.up, r) = <<r>>
    BY <1>1 DEF Quiet
  <2>2. server' = [server EXCEPT ![link].up = IF g.pc = "gone" THEN <<>> ELSE Append(g.up, r)]
    BY <1>0, <1>1 DEF Sent
  <2>3. server' = [server EXCEPT ![link].up = up]
    BY <2>1, <2>2, Zenon
  <2> HIDE DEF up
  <2> QED
    BY <1>0, <1>1, <2>3
<1>3. up \in Seq(Request)
  OBVIOUS
<1>4. g.pc \in {"serve", "gone"} /\ g.down = <<>>
  BY <1>1 DEF Quiet
<1> HIDE DEF g, up
<1>5. /\ h \in Handler /\ h.pc = g.pc /\ h.up = up /\ h.down = <<>> /\ h.answer = g.answer
      /\ h.writer = g.writer /\ h.open = g.open
  BY <1>1, <1>3, <1>4 DEF Handler
<1> HIDE DEF h
<1>6. LogInv(h, log[link]) /\ Exchange(h, log[link], r)
  BY <1>1, <1>4, <1>5, SendKeeps DEF up
<1>7. /\ LogsInv' /\ Recorded' = Recorded /\ required' = required
      /\ server' \in [Conn -> Handler] /\ log' \in [Conn -> Seq(Entry)] /\ log' = log
      /\ server'[link] = h
  BY <1>1, <1>2, <1>5, <1>6, ClientFrame
<1> QED
  BY <1>1, <1>5, <1>6, <1>7

ActorRecord == [pc: {"idle", "append", "wait", "check", "act", "done"}, next: Event]

LEMMA AppendStartsStep ==
  ASSUME TrailInv, AppendStarts
  PROVE  TrailInv'
<1>0. /\ actor.pc = "append" /\ op = NoOp /\ actor \in ActorRecord /\ cancelled \in BOOLEAN
      /\ required \in BOOLEAN /\ actor.next <= MaxActions /\ actor.next \in Event /\ NoOp.stage = None
  BY DEF AppendStarts, TrailInv, TrailTypes, TrailTypeOK, ActorInv, ActorRecord, NoOp
<1>1. UNCHANGED <<trail, state, link, log, service, faults, acted, acked>>
  BY DEF AppendStarts
<1>2. CASE state = "open"
  <2> DEFINE r == AppendRequest(actor.next)
  <2>1. r \in Request /\ r.kind = "append"
    BY <1>0, RequestsTyped
  <2>2. /\ op' = [by |-> "actor", stage |-> "recording", event |-> actor.next]
        /\ server' = Sent(link, r) /\ actor' = [actor EXCEPT !.pc = "wait"] /\ cancelled' = cancelled
    BY <1>2 DEF AppendStarts
  <2> HIDE DEF r
  <2>3. /\ LogsInv' /\ Recorded' = Recorded /\ required' = required
        /\ server' \in [Conn -> Handler] /\ log' \in [Conn -> Seq(Entry)] /\ log' = log
        /\ link \in Conn /\ server'[link].open /\ Exchange(server'[link], log[link], r)
    BY <1>0, <1>1, <1>2, <2>1, <2>2, FirstRequest
  <2>4. op' \in Op /\ op'.by = "actor" /\ op'.stage = "recording" /\ op'.event = actor.next
    BY <1>0, <2>2 DEF Op
  <2>5. actor' \in ActorRecord /\ actor'.pc = "wait" /\ actor'.next = actor.next
    BY <1>0, <2>2 DEF ActorRecord
  <2>6. TrailTypes'
    BY <1>1, <2>2, <2>3, <2>4, <2>5 DEF TrailInv, TrailTypes, TrailTypeOK, trail, ActorRecord
  <2>7. CallInv'
    BY <1>1, <1>2, <2>2, <2>4, <2>5 DEF CallInv
  <2>8. LinkInv'
    <3>1. (InExchange /\ link # None /\ op # NoOp /\ op.stage # "connect")'
      BY <1>1, <2>3, <2>4, TrailAssumption DEF InExchange, NoOp
    <3>2. Asked(op'.stage, op'.event) = r
      BY <2>4 DEF Asked, r
    <3> QED
      BY <1>1, <2>3, <3>1, <3>2 DEF LinkInv
  <2>9. ActorInv' /\ AcknowledgedIsDurable' /\ ActedIsRecorded'
    BY <1>0, <1>1, <2>3, <2>5 DEF TrailInv, ActorInv, AcknowledgedIsDurable, ActedIsRecorded, Recorded
  <2> QED
    BY <2>3, <2>6, <2>7, <2>8, <2>9 DEF TrailInv
<1>3. CASE state # "open"
  <2>1. \/ /\ state \in {"unopened", "failed"}
           /\ op' = [by |-> "actor", stage |-> "connect", event |-> actor.next]
           /\ actor' = [actor EXCEPT !.pc = "wait"] /\ UNCHANGED <<server, cancelled>>
        \/ /\ state \in {"failed", "closed"}
           /\ actor' = [actor EXCEPT !.pc = "check"] /\ UNCHANGED <<op, server>>
           /\ cancelled' = CancelledBy(~(state = "failed" /\ required))
    BY <1>3 DEF AppendStarts, TrailInv, TrailTypes, TrailTypeOK
  <2>2. link = None
    BY <1>0, <1>3 DEF TrailInv, LinkInv
  <2>3. Recorded' = Recorded /\ required' = required
    BY <1>1 DEF Recorded, trail
  <2>4. AcknowledgedIsDurable' /\ ActedIsRecorded'
    BY <1>1, <2>3 DEF TrailInv, AcknowledgedIsDurable, ActedIsRecorded, Recorded
  <2>5. LogsInv'
    BY <1>1, <2>1 DEF TrailInv, LogsInv
  <2>6. ASSUME state \in {"unopened", "failed"},
               op' = [by |-> "actor", stage |-> "connect", event |-> actor.next],
               actor' = [actor EXCEPT !.pc = "wait"], UNCHANGED <<server, cancelled>>
        PROVE  TrailInv'
    <3>1. op' \in Op /\ op'.by = "actor" /\ op'.stage = "connect" /\ op'.event = actor.next
      BY <1>0, <2>6 DEF Op
    <3>2. actor' \in ActorRecord /\ actor'.pc = "wait" /\ actor'.next = actor.next
      BY <1>0, <2>6 DEF ActorRecord
    <3>3. TrailTypes'
      BY <1>1, <2>6, <3>1, <3>2 DEF TrailInv, TrailTypes, TrailTypeOK, trail, ActorRecord
    <3>4. CallInv'
      BY <1>1, <2>6, <3>1, <3>2 DEF CallInv
    <3>5. LinkInv'
      BY <1>1, <2>2, <3>1, TrailAssumption DEF LinkInv, InExchange, NoOp
    <3>6. ActorInv'
      BY <1>0, <2>3, <3>2 DEF ActorInv
    <3> QED
      BY <2>4, <2>5, <3>3, <3>4, <3>5, <3>6 DEF TrailInv
  <2>7. ASSUME state \in {"failed", "closed"},
               actor' = [actor EXCEPT !.pc = "check"], UNCHANGED <<op, server>>,
               cancelled' = CancelledBy(~(state = "failed" /\ required))
        PROVE  TrailInv'
    <3>1. actor' \in ActorRecord /\ actor'.pc = "check" /\ actor'.next = actor.next
      BY <1>0, <2>7 DEF ActorRecord
    <3>2. cancelled' \in BOOLEAN /\ (cancelled => cancelled') /\ (required => cancelled')
      <4>1. state = "closed" => cancelled
        BY DEF TrailInv, CallInv
      <4> QED
        BY <1>0, <2>7, <4>1 DEF CancelledBy
    <3>3. TrailTypes'
      BY <1>1, <2>7, <3>1, <3>2 DEF TrailInv, TrailTypes, TrailTypeOK, trail, ActorRecord
    <3>4. CallInv'
      BY <1>0, <1>1, <2>7, <3>1, <3>2, TrailAssumption DEF TrailInv, CallInv
    <3>5. LinkInv'
      BY <1>0, <1>1, <1>3, <2>2, <2>7, TrailAssumption DEF LinkInv, InExchange
    <3>6. ActorInv'
      BY <1>0, <2>3, <3>1, <3>2 DEF ActorInv
    <3> QED
      BY <2>4, <2>5, <3>3, <3>4, <3>5, <3>6 DEF TrailInv
  <2> QED
    BY <2>1, <2>6, <2>7
<1> QED
  BY <1>2, <1>3

\* A step of the thread that leaves the trail alone.
LEMMA ThreadFrame ==
  ASSUME TrailInv, UNCHANGED <<trail, client, auditd, acked>>,
         actor' \in ActorRecord, cancelled' \in BOOLEAN, cancelled => cancelled',
         actor'.pc # "wait" \/ actor' = actor, actor.pc # "wait" \/ actor' = actor,
         acted' \subseteq Event \ {Ended}, ActorInv', ActedIsRecorded'
  PROVE  TrailInv'
<1>1. TrailTypes'
  BY DEF TrailInv, TrailTypes, TrailTypeOK, trail, client, auditd, ActorRecord
<1>2. LogsInv' /\ LinkInv' /\ AcknowledgedIsDurable'
  BY DEF TrailInv, LogsInv, LinkInv, InExchange, AcknowledgedIsDurable, client, auditd
<1>3. CallInv'
  BY DEF TrailInv, CallInv, client
<1> QED
  BY <1>1, <1>2, <1>3 DEF TrailInv

LEMMA ActorSteps ==
  ASSUME TrailInv, ActorStep
  PROVE  TrailInv'
<1>0. actor \in ActorRecord /\ cancelled \in BOOLEAN /\ acted \subseteq Event \ {Ended} /\ MaxActions \in Nat
  BY TrailAssumption DEF TrailInv, TrailTypes, TrailTypeOK, ActorRecord
<1>1. ASSUME ActorRecords PROVE TrailInv'
  <2>1. /\ actor.pc = "idle" /\ UNCHANGED <<trail, client, auditd, cancelled, acted, acked>>
        /\ actor' = [actor EXCEPT !.pc = "done"]
             \/ (actor' = [actor EXCEPT !.pc = "append"] /\ actor.next # MaxActions + 1)
    BY <1>1 DEF ActorRecords
  <2>2. /\ actor' \in ActorRecord /\ actor'.pc \in {"done", "append"} /\ actor'.next = actor.next
        /\ actor'.pc = "append" => actor.next # MaxActions + 1
    BY <1>0, <2>1 DEF ActorRecord
  <2>3. ActorInv'
    <3>1. actor'.pc = "append" => actor'.next <= MaxActions
      BY <1>0, <2>2 DEF ActorRecord, Event, Ended
    <3> QED
      BY <2>2, <3>1 DEF ActorInv
  <2>4. ActedIsRecorded'
    BY <2>1 DEF TrailInv, ActedIsRecorded, trail, auditd
  <2> QED
    BY <1>0, <2>1, <2>2, <2>3, <2>4, ThreadFrame
<1>2. ASSUME ActorChecks PROVE TrailInv'
  <2>1. /\ actor.pc = "check" /\ UNCHANGED <<trail, client, auditd, cancelled, acted, acked>>
        /\ actor' = [actor EXCEPT !.pc = IF cancelled THEN "done" ELSE "act"]
    BY <1>2 DEF ActorChecks
  <2>2. /\ actor' \in ActorRecord /\ actor'.next = actor.next
        /\ actor'.pc = "done" \/ (actor'.pc = "act" /\ ~cancelled)
    BY <1>0, <2>1 DEF ActorRecord
  <2>3. ActorInv'
    BY <2>1, <2>2 DEF TrailInv, ActorInv, Recorded, trail, auditd
  <2>4. ActedIsRecorded'
    BY <2>1 DEF TrailInv, ActedIsRecorded, trail, auditd
  <2> QED
    BY <1>0, <2>1, <2>2, <2>3, <2>4, ThreadFrame
<1>3. ASSUME ActorActs PROVE TrailInv'
  <2>1. /\ actor.pc = "act" /\ UNCHANGED <<trail, client, auditd, cancelled, acked>>
        /\ acted' = acted \cup {actor.next} /\ actor' = [pc |-> "idle", next |-> actor.next + 1]
    BY <1>3 DEF ActorActs
  <2>2. actor.next \in Event /\ actor.next <= MaxActions
    BY <1>0, <2>1 DEF TrailInv, ActorInv, ActorRecord
  <2>3. actor.next \in Event \ {Ended} /\ actor.next + 1 \in Event
    BY <1>0, <2>2 DEF Event, Ended
  <2>4. actor' \in ActorRecord /\ actor'.pc = "idle"
    BY <2>1, <2>3 DEF ActorRecord
  <2>5. ActorInv'
    BY <2>4 DEF ActorInv
  <2>6. ActedIsRecorded'
    <3>1. required => actor.next \in Recorded
      BY <2>1 DEF TrailInv, ActorInv
    <3> QED
      BY <2>1, <3>1 DEF TrailInv, ActedIsRecorded, Recorded, trail, auditd
  <2> QED
    BY <1>0, <2>1, <2>3, <2>4, <2>5, <2>6, ThreadFrame
<1> QED
  BY <1>1, <1>2, <1>3, AppendStartsStep DEF ActorStep

LEMMA CancelFirstStep ==
  ASSUME TrailInv, CancelFirst
  PROVE  TrailInv'
<1>1. /\ UNCHANGED <<trail, client, auditd, actor, acted, acked>> /\ cancelled' = TRUE
  BY DEF CancelFirst
<1>2. actor' \in ActorRecord /\ acted' \subseteq Event \ {Ended}
  BY <1>1 DEF TrailInv, TrailTypes, TrailTypeOK, ActorRecord
<1>3. ActorInv' /\ ActedIsRecorded'
  BY <1>1 DEF TrailInv, ActorInv, ActedIsRecorded, Recorded, trail, auditd
<1> QED
  BY <1>1, <1>2, <1>3, ThreadFrame

LEMMA CloseStartsStep ==
  ASSUME TrailInv, CloseStarts
  PROVE  TrailInv'
<1>0. op = NoOp /\ cancelled /\ Ended \in Event /\ NoOp.stage = None /\ NoOp.by = None
  BY TrailAssumption DEF CloseStarts, MayClose, Event, Ended, NoOp
<1>1. UNCHANGED <<trail, link, log, service, faults, thread, acked>>
  BY DEF CloseStarts
<1>2. CASE state = "open"
  <2> DEFINE r == AppendRequest(Ended)
  <2>1. r \in Request /\ r.kind = "append"
    BY <1>0, RequestsTyped
  <2>2. /\ op' = [by |-> "closer", stage |-> "ending", event |-> Ended]
        /\ server' = Sent(link, r) /\ state' = state
    BY <1>2 DEF CloseStarts
  <2> HIDE DEF r
  <2>3. /\ LogsInv' /\ Recorded' = Recorded /\ required' = required
        /\ server' \in [Conn -> Handler] /\ log' \in [Conn -> Seq(Entry)] /\ log' = log
        /\ link \in Conn /\ server'[link].open /\ Exchange(server'[link], log[link], r)
    BY <1>0, <1>1, <1>2, <2>1, <2>2, FirstRequest
  <2>4. op' \in Op /\ op'.by = "closer" /\ op'.stage = "ending" /\ op'.event = Ended
    BY <1>0, <2>2 DEF Op
  <2>5. actor.pc # "wait"
    BY <1>0, CallCases, TrailAssumption
  <2>6. TrailTypes'
    BY <1>1, <2>2, <2>3, <2>4 DEF TrailInv, TrailTypes, TrailTypeOK, trail, thread
  <2>7. CallInv'
    BY <1>0, <1>1, <1>2, <2>2, <2>4, <2>5 DEF CallInv, thread
  <2>8. LinkInv'
    <3>1. (InExchange /\ link # None /\ op # NoOp /\ op.stage # "connect")'
      BY <1>1, <2>3, <2>4, TrailAssumption DEF InExchange, NoOp
    <3>2. Asked(op'.stage, op'.event) = r
      BY <2>4 DEF Asked, r
    <3> QED
      BY <1>1, <2>3, <3>1, <3>2 DEF LinkInv
  <2>9. ActorInv' /\ AcknowledgedIsDurable' /\ ActedIsRecorded'
    BY <1>1, <2>3 DEF TrailInv, ActorInv, AcknowledgedIsDurable, ActedIsRecorded, Recorded, thread
  <2> QED
    BY <2>3, <2>6, <2>7, <2>8, <2>9 DEF TrailInv
<1>3. CASE state # "open"
  <2>1. state' = "closed" /\ UNCHANGED <<op, server>>
    BY <1>3 DEF CloseStarts
  <2>2. link = None
    BY <1>0, <1>3 DEF TrailInv, LinkInv
  <2>3. TrailTypes' /\ LogsInv'
    BY <1>1, <2>1 DEF TrailInv, TrailTypes, TrailTypeOK, LogsInv, trail, thread
  <2>4. CallInv'
    BY <1>0, <1>1, <2>1, TrailAssumption DEF TrailInv, CallInv, thread
  <2>5. LinkInv'
    BY <1>0, <1>1, <2>1, <2>2, TrailAssumption DEF LinkInv, InExchange
  <2>6. ActorInv' /\ AcknowledgedIsDurable' /\ ActedIsRecorded'
    BY <1>1 DEF TrailInv, ActorInv, AcknowledgedIsDurable, ActedIsRecorded, Recorded, thread, trail
  <2> QED
    BY <2>3, <2>4, <2>5, <2>6 DEF TrailInv
<1> QED
  BY <1>2, <1>3

-----------------------------------------------------------------------------

LEMMA TrailInitially ==
  ASSUME TrailInit
  PROVE  TrailInv
<1>1. /\ NoOp \in Op /\ NoOp.by = None /\ NoOp.stage = None
      /\ 0 \in Event /\ 1 \in Event /\ First \in Event
  <2>1. 0 \in Event /\ 1 \in Event
    BY TrailAssumption DEF Event, Ended
  <2>2. First \in Event
    BY <2>1 DEF First, Attached
  <2> QED
    BY <2>1, <2>2 DEF Op, NoOp
<1>2. NoHandler \in Handler
  <2>1. NoWriter \in Writer /\ <<>> \in Seq(Request) /\ <<>> \in Seq(Response)
    BY DEF NoWriter, Writer, Hash
  <2> QED
    BY <2>1 DEF NoHandler, Handler
<1>3. TrailTypes
  <2>1. <<>> \in Seq(Entry) /\ 0 \in 0..MaxFaults /\ "idle" \in {"idle", "append", "wait", "check", "act", "done"}
    BY TrailAssumption
  <2>2. log \in [Conn -> Seq(Entry)] /\ server \in [Conn -> Handler]
    BY <1>2, <2>1 DEF TrailInit
  <2>3. actor \in [pc: {"idle", "append", "wait", "check", "act", "done"}, next: Event]
    BY <1>1, <2>1 DEF TrailInit
  <2> QED
    BY <1>1, <2>1, <2>2, <2>3, TrailAssumption DEF TrailInit, TrailTypes, TrailTypeOK
<1>4. LogsInv
  <2>0. <<>> \in Seq(Entry)
    OBVIOUS
  <2>1. Verifies(<<>>)
    BY <2>0, SoundStart, SoundVerifies, Zenon
  <2>2. NoHandler.up = <<>> /\ NoHandler.pc = "none" /\ NoHandler.answer = None
    BY DEF NoHandler
  <2>3. LogInv(NoHandler, <<>>)
    BY <2>1, <2>2, TrailAssumption DEF LogInv, MayWrite
  <2> QED
    BY <2>3 DEF LogsInv, TrailInit
<1>5. CallInv /\ LinkInv
  BY <1>1, TrailAssumption DEF TrailInit, CallInv, LinkInv, InExchange
<1>6. ActorInv /\ AcknowledgedIsDurable /\ ActedIsRecorded
  BY DEF TrailInit, ActorInv, AcknowledgedIsDurable, ActedIsRecorded
<1> QED
  BY <1>3, <1>4, <1>5, <1>6 DEF TrailInv

\* The invariant of the audit trail, over every step of service, client and thread.
THEOREM TrailInvariance == TrailSpec => []TrailInv
<1>1. TrailInit => TrailInv
  BY TrailInitially
<1>2. TrailInv /\ [TrailNext]_vars => TrailInv'
  <2> SUFFICES ASSUME TrailInv, [TrailNext]_vars PROVE TrailInv'
    OBVIOUS
  <2>1. CASE UNCHANGED vars
    <3>1. UNCHANGED <<trail, client, auditd, thread, acked>>
      BY <2>1 DEF vars
    <3>2. actor' \in ActorRecord /\ cancelled' \in BOOLEAN /\ acted' \subseteq Event \ {Ended}
      BY <3>1 DEF TrailInv, TrailTypes, TrailTypeOK, ActorRecord, thread
    <3>3. ActorInv' /\ ActedIsRecorded'
      BY <3>1 DEF TrailInv, ActorInv, ActedIsRecorded, Recorded, trail, auditd, thread
    <3> QED
      BY <3>1, <3>2, <3>3, ThreadFrame DEF thread
  <2> QED
    BY <2>1, ServerSteps, ServiceDiesStep, ServiceStartsStep, ClientSteps, ActorSteps, CancelFirstStep,
       CloseStartsStep DEF TrailNext
<1> QED
  BY <1>1, <1>2, PTL DEF TrailSpec

\* The state of the trail is well typed.
THEOREM TrailTypeCorrect == TrailSpec => []TrailTypeOK
<1>1. TrailInv => TrailTypeOK
  BY DEF TrailInv, TrailTypes
<1> QED
  BY <1>1, TrailInvariance, PTL

\* xshell-audit-verify accepts every log that xshell-auditd leaves, whenever it
\* died and whatever write failed, up to a last line that is torn.
THEOREM EveryLogVerifies == TrailSpec => []LogsVerify
<1>1. TrailInv => LogsVerify
  BY DEF TrailInv, LogsInv, LogInv, Verifies, LogsVerify
<1> QED
  BY <1>1, TrailInvariance, PTL

\* A record that the client was told of is in a log.
THEOREM AcknowledgedStays == TrailSpec => []AcknowledgedIsDurable
<1>1. TrailInv => AcknowledgedIsDurable
  BY DEF TrailInv
<1> QED
  BY <1>1, TrailInvariance, PTL

\* With required auditing no action is performed that is not on record.
THEOREM NothingUnrecorded == TrailSpec => []ActedIsRecorded
<1>1. TrailInv => ActedIsRecorded
  BY DEF TrailInv
<1> QED
  BY <1>1, TrailInvariance, PTL

=============================================================================

-------------------------- MODULE TurnFollowProofs --------------------------
(***************************************************************************)
(* What the journal of a session and the approvals of its turns promise to *)
(* those who follow them, for any number of turns, calls, controllers and  *)
(* headless runs and any limits of the journal.                            *)
(*                                                                         *)
(* The invariant has a part for each of the questions a client may ask:    *)
(* what the journal holds (JournalInv), what was asked and answered        *)
(* (DecisionInv), who is attached (OwnerInv), and where a controller       *)
(* (CtlInv) and a run (RunInv) stand in the journal.                       *)
(***************************************************************************)
EXTENDS TurnFollow, FiniteSetTheorems, WellFoundedInduction, TLAPS

-----------------------------------------------------------------------------
(* The invariant.                                                          *)

\* The number of events that were evicted.
Base == Len(published) - Len(events)

\* The turn has at least the event with which it starts.
Running == active # None /\ worker.pc # "submitted"

\* The retained events are the last ones that were published.
Retained ==
  /\ Len(events) <= Len(published)
  /\ \A k \in DOMAIN events :
       /\ events[k].sequence = Base + k
       /\ events[k].turn = published[Base + k].turn
       /\ events[k].kind \in Terminal <=> published[Base + k].over

\* The events of a turn follow each other, and its end is the last of them.
Ordered ==
  \A j, k \in DOMAIN published : j < k =>
    /\ published[j].turn <= published[k].turn
    /\ published[j].over => published[j].turn < published[k].turn

\* Only the turn that runs has not ended, and what was published last is its own.
\* The end of a turn is never evicted by itself.
Latest ==
  /\ active = None <=> worker.pc = "none"
  /\ worker.pc = "submitted" => active = NewTurn
  /\ Running => published # <<>> /\ published[Len(published)].turn = active
                /\ ~published[Len(published)].over
  /\ ~Running /\ published # <<>> => published[Len(published)].over /\ events # <<>>
  /\ \A k \in DOMAIN published :
       published[k].turn # active =>
         \E j \in DOMAIN published : published[j].turn = published[k].turn /\ published[j].over

JournalInv == Retained /\ Ordered /\ Latest

\* Of a turn that runs: a call is not asked for twice, and answered once.
DecisionInv ==
  /\ worker.pc = "submitted" => worker.unasked = Call
  /\ \A p \in pending_approvals : p.turn = active /\ p.call \notin worker.unasked
  /\ \A a \in answered : a.turn = active /\ a.call \notin worker.unasked
  /\ approvals \subseteq answered
  /\ \A a, b \in answered : a.call = b.call => a = b
  /\ \A p \in pending_approvals, a \in answered : p.call # a.call
  /\ worker.pc \in {"asked", "gate", "peek", "wait", "decided"} =>
       worker.call \in Call \ worker.unasked
  /\ DecisionIsTheReply

OwnerInv ==
  /\ \A i \in Controller : ctl[i].pc # "away" => owner = i
  /\ \A h \in Headless : run[h].pc # "none" => owner = h

\* A batch that is being handled: the events that follow a position, or what
\* the notice says is left of them, as they were published.
Reads(batch, position, gone) ==
  /\ batch # <<>>
  /\ batch[1].sequence = IF gone > position + 1 THEN gone ELSE position + 1
  /\ \A k \in DOMAIN batch :
       LET q == batch[k].sequence IN
       /\ q = batch[1].sequence + k - 1
       /\ q <= Len(published)
       /\ batch[k].turn = published[q].turn
       /\ batch[k].kind \in Terminal <=> published[q].over
       /\ q > Base => batch[k] = events[q - Base]

CtlInv(k) ==
  /\ k.cursor # None => k.cursor <= Len(published)
  /\ k.cursor = None => k.pc \in {"away", "attached"} /\ k.gone = 0
  /\ k.gone <= Base + 1
  /\ k.pc = "handle" => Reads(k.batch, k.cursor, k.gone)
  /\ k.missed # None => k.pc = "prompt" /\ active = None /\ k.cursor = Len(published)

\* The events of a run's turn are those at the end, and its own end is ahead
\* unless the run has been told.
RunInv(k) ==
  /\ k.after # None => k.after <= Len(published)
  /\ k.pc \in {"submit", "submitting", "follow", "handle"} => k.after # None
  /\ k.pc \in {"none", "owner", "job"} => k.after = None
  /\ k.after = None => k.gone = 0
  /\ k.gone <= Base + 1
  /\ k.pc = "handle" => Reads(k.batch, k.after, k.gone)
  /\ k.told # None => k.pc = "handle"
  /\ k.pc \in {"submitting", "follow", "handle"} =>
       /\ k.turn # None /\ active \in {None, k.turn}
       /\ \A j \in DOMAIN published :
            /\ published[j].turn <= k.turn
            /\ published[j].turn = k.turn /\ published[j].over => j > k.after \/ k.told # None
  /\ k.outcome = "unreported" => k.pc = "done" /\ active = None /\ ~Started(k.turn)

\* A request is announced and not answered.
Unanswered ==
  worker.pc \in {"gate", "peek", "wait"} /\ \E p \in pending_approvals : p.call = worker.call

\* Such a request is the last event, and ahead of every controller.
AskedIsLast ==
  Unanswered =>
    /\ events # <<>>
    /\ events[Len(events)].kind = "request"
    /\ events[Len(events)].call = worker.call
    /\ \A i \in Controller : ctl[i].cursor # None => ctl[i].cursor < Len(published)

FollowInv ==
  /\ FollowTypeOK
  /\ JournalInv /\ DecisionInv /\ OwnerInv
  /\ \A i \in Controller : CtlInv(ctl[i])
  /\ \A h \in Headless : RunInv(run[h])
  /\ AskedIsLast

-----------------------------------------------------------------------------
(* The operators of the journal.                                           *)

\* A set of numbers has a least one.
LEMMA LeastNat ==
  ASSUME NEW S, S \subseteq Nat, S # {}
  PROVE  \E n \in S : \A m \in S : n <= m
<1>1. PICK n \in S : \A m \in S : ~(<<m, n>> \in OpToRel(<, Nat))
  BY NatLessThanWellFounded, WFMin, Zenon
<1>2. \A m \in S : ~(m < n)
  BY <1>1 DEF OpToRel
<1> QED
  BY <1>2

\* Nothing fits the journal, and so does a single small event.
LEMMA WithinOne ==
  ASSUME NEW s,
         \/ DOMAIN s = {} /\ Len(s) = 0
         \/ DOMAIN s = {1} /\ Len(s) = 1 /\ s[1].size = Small
  PROVE  Within(s)
<1> DEFINE Of(size) == Cardinality({k \in DOMAIN s : s[k].size = size})
<1>1. Of(Huge) = 0
  <2>1. {k \in DOMAIN s : s[k].size = Huge} = {}
    BY JournalAssumption DEF Small, Huge
  <2> QED
    BY <2>1, FS_EmptySet
<1>2. Of(Small) \in {0, 1}
  <2>1. {k \in DOMAIN s : s[k].size = Small} = {} \/ {k \in DOMAIN s : s[k].size = Small} = {1}
    OBVIOUS
  <2> QED
    BY <2>1, FS_EmptySet, FS_Singleton
<1>3. Bytes(s) = Of(Small) * Small + Of(Huge) * Huge
  BY DEF Bytes
<1> HIDE DEF Of
<1>4. Bytes(s) \in {0, 1}
  BY <1>1, <1>2, <1>3, JournalAssumption DEF Small, Huge
<1>5. Bytes(s) <= MaxJournalBytes
  BY <1>4, JournalAssumption
<1>6. PICK n \in {0, 1} : Len(s) = n
  BY Zenon
<1>7. n <= MaxJournalEvents
  BY JournalAssumption
<1> QED
  BY <1>5, <1>6, <1>7, Zenon DEF Within

\* Eviction leaves a suffix that is within the limits, and a small last event.
LEMMA EvictedIs ==
  ASSUME NEW s \in Seq(Event)
  PROVE  \E i \in 1..(Len(s) + 1) :
           /\ Evicted(s) = SubSeq(s, i, Len(s))
           /\ Within(Evicted(s))
           /\ s # <<>> /\ s[Len(s)].size = Small => i <= Len(s)
<1> DEFINE Fit == {i \in 1..(Len(s) + 1) : Within(SubSeq(s, i, Len(s)))}
           Keep(i) == /\ Within(SubSeq(s, i, Len(s)))
                      /\ \A j \in 1..(i - 1) : ~Within(SubSeq(s, j, Len(s)))
<1>1. Len(s) + 1 \in Fit
  <2>1. DOMAIN SubSeq(s, Len(s) + 1, Len(s)) = {} /\ Len(SubSeq(s, Len(s) + 1, Len(s))) = 0
    OBVIOUS
  <2>2. Within(SubSeq(s, Len(s) + 1, Len(s)))
    BY <2>1, WithinOne, Zenon
  <2>3. Len(s) + 1 \in 1..(Len(s) + 1)
    OBVIOUS
  <2> QED
    BY <2>2, <2>3
<1>2. Fit \subseteq Nat
  OBVIOUS
<1>3. PICK n \in Fit : \A m \in Fit : n <= m
  BY <1>1, <1>2, LeastNat
<1>4. n \in 1..(Len(s) + 1) /\ Keep(n)
  BY <1>3
<1>5. PICK keep \in 1..(Len(s) + 1) : Keep(keep) /\ Evicted(s) = SubSeq(s, keep, Len(s))
  BY <1>4 DEF Evicted
<1>6. ASSUME s # <<>>, s[Len(s)].size = Small PROVE keep <= Len(s)
  <2> DEFINE one == SubSeq(s, Len(s), Len(s))
  <2>1. Len(s) \in Nat \ {0} /\ DOMAIN one = {1} /\ Len(one) = 1 /\ one[1] = s[Len(s)]
    BY <1>6
  <2>2. Within(one)
    BY <2>1, <1>6, WithinOne
  <2>3. ASSUME keep = Len(s) + 1 PROVE FALSE
    <3>1. Len(s) \in 1..(keep - 1)
      BY <2>1, <2>3
    <3> QED
      BY <3>1, <1>5, <2>2
  <2> QED
    BY <1>5, <2>3, <2>1
<1> QED
  BY <1>5, <1>6

\* What is published stays, and what is evicted is gone for good.
Grows ==
  /\ Len(published) <= Len(published')
  /\ \A k \in DOMAIN published : k \in DOMAIN published' /\ published'[k] = published[k]
  /\ Base <= Base'
  /\ \A q \in 1..Len(published) : q > Base' => events'[q - Base'] = events[q - Base]

\* What append_locked() does: the journal grows by the event, and keeps it if it
\* is small.
Appended(t, kind, call, size) ==
  /\ published' \in Seq([turn: Turn, over: BOOLEAN])
  /\ Len(published') = Len(published) + 1
  /\ published'[Len(published) + 1].turn = t
  /\ published'[Len(published) + 1].over <=> kind \in Terminal
  /\ events' \in Seq(Event) /\ Within(events)' /\ next_sequence' = Len(published') + 1
  /\ Retained' /\ Grows
  /\ size = Small => /\ events' # <<>>
                     /\ events'[Len(events')].kind = kind /\ events'[Len(events')].call = call

\* append_locked() is that.
LEMMA AppendIs ==
  ASSUME EventsTypeOK, Retained, NEW t \in Turn, NEW kind \in Kind, NEW call \in Call \cup {None},
         NEW size \in {Small, Huge}, append_locked(t, kind, call, size)
  PROVE  Appended(t, kind, call, size)
<1> DEFINE N == Len(published)
           L == Len(events)
           event == [sequence |-> next_sequence, turn |-> t, kind |-> kind, call |-> call, size |-> size]
           s == Append(events, event)
<1>1. PICK b \in BOOLEAN : b = (kind \in Terminal)
  <2>1. (kind \in Terminal) = TRUE \/ (kind \in Terminal) = FALSE
    OBVIOUS
  <2> QED
    BY <2>1
<1>2. /\ published \in Seq([turn: Turn, over: BOOLEAN]) /\ N \in Nat
      /\ events \in Seq(Event) /\ L \in Nat /\ next_sequence = N + 1 /\ L <= N
  BY DEF EventsTypeOK, Retained
<1>3. published' = Append(published, [turn |-> t, over |-> b]) /\ events' = Evicted(s)
      /\ next_sequence' = next_sequence + 1
  BY <1>1, Zenon DEF append_locked
<1>4. event \in Event /\ event.sequence = N + 1 /\ event.turn = t /\ event.kind = kind
      /\ event.call = call /\ event.size = size
  BY <1>2 DEF Event
<1> HIDE DEF event
<1>5. s \in Seq(Event) /\ Len(s) = L + 1 /\ s[L + 1] = event /\ \A k \in 1..L : s[k] = events[k]
  BY <1>2, <1>4
<1> HIDE DEF s
<1>6. PICK i \in 1..(L + 2) : /\ events' = SubSeq(s, i, L + 1) /\ Within(events')
                              /\ size = Small => i <= L + 1
  <2>1. s # <<>> /\ s[Len(s)].size = size
    BY <1>2, <1>4, <1>5
  <2>2. PICK i \in 1..(Len(s) + 1) : /\ Evicted(s) = SubSeq(s, i, Len(s)) /\ Within(Evicted(s))
                                     /\ s # <<>> /\ s[Len(s)].size = Small => i <= Len(s)
    BY <1>5, EvictedIs
  <2>3. i \in 1..(L + 2)
    BY <2>2, <1>5, <1>2
  <2> QED
    BY <2>1, <2>2, <2>3, <1>3, <1>5
<1>7. /\ events' \in Seq(Event) /\ Len(events') = L + 2 - i
      /\ \A k \in 1..(L + 2 - i) : events'[k] = s[i + k - 1]
  BY <1>2, <1>5, <1>6
<1>8. /\ published' \in Seq([turn: Turn, over: BOOLEAN]) /\ Len(published') = N + 1
      /\ \A k \in 1..N : published'[k] = published[k]
      /\ published'[N + 1] = [turn |-> t, over |-> b]
  BY <1>2, <1>3
<1>9. published'[N + 1].turn = t /\ (published'[N + 1].over <=> kind \in Terminal)
  BY <1>1, <1>8
<1>10. Base' = Base + i - 1 /\ Base = N - L /\ Base \in Nat
  BY <1>2, <1>7, <1>8 DEF Base
<1>11. Grows
  <2>1. Len(published) <= Len(published') /\ Base <= Base'
    BY <1>2, <1>6, <1>8, <1>10
  <2>2. ASSUME NEW q \in 1..N, q > Base' PROVE events'[q - Base'] = events[q - Base]
    <3>1. q - Base' \in 1..(L + 2 - i) /\ q - Base \in 1..L /\ i + (q - Base') - 1 = q - Base
      BY <2>2, <1>2, <1>6, <1>10
    <3> QED
      BY <3>1, <1>5, <1>7
  <2>3. \A k \in DOMAIN published : k \in DOMAIN published' /\ published'[k] = published[k]
    BY <1>2, <1>8
  <2> QED
    BY <2>1, <2>2, <2>3 DEF Grows
<1>12. Retained'
  <2>1. Len(events') <= Len(published')
    BY <1>2, <1>7, <1>8
  <2>2. ASSUME NEW k \in DOMAIN events'
        PROVE  /\ events'[k].sequence = Base' + k
               /\ events'[k].turn = published'[Base' + k].turn
               /\ events'[k].kind \in Terminal <=> published'[Base' + k].over
    <3>1. k \in 1..(L + 2 - i) /\ events'[k] = s[i + k - 1] /\ Base' + k = Base + (i + k - 1)
      BY <1>7, <1>10, <1>2
    <3>2. CASE i + k - 1 = L + 1
      BY <3>1, <3>2, <1>2, <1>4, <1>5, <1>9, <1>10
    <3>3. CASE i + k - 1 # L + 1
      <4>0. L \in Nat /\ N \in Nat /\ L <= N /\ i \in 1..(L + 2) /\ k \in 1..(L + 2 - i) /\ Base = N - L
        BY <3>1, <1>2, <1>6, <1>10
      <4> HIDE DEF L, N
      <4>1. i + k - 1 \in 1..L /\ Base + (i + k - 1) \in 1..N
        BY <4>0, <3>3
      <4> USE DEF L, N
      <4>2. events'[k] = events[i + k - 1] /\ published'[Base' + k] = published[Base + (i + k - 1)]
        BY <3>1, <4>1, <1>5, <1>8
      <4>3. i + k - 1 \in DOMAIN events
        BY <4>1, <1>2
      <4> QED
        BY <4>2, <4>3, <3>1 DEF Retained
    <3> QED
      BY <3>2, <3>3
  <2> QED
    BY <2>1, <2>2 DEF Retained
<1>13. ASSUME size = Small
       PROVE  /\ events' # <<>>
              /\ events'[Len(events')].kind = kind /\ events'[Len(events')].call = call
  <2>1. i <= L + 1 /\ L + 2 - i \in 1..(L + 2 - i) /\ i + (L + 2 - i) - 1 = L + 1
    BY <1>2, <1>6, <1>13
  <2>2. events'[Len(events')] = event /\ Len(events') # 0
    BY <2>1, <1>2, <1>5, <1>7
  <2> QED
    BY <2>2, <1>4, <1>7
<1> QED
  BY <1>2, <1>3, <1>6, <1>7, <1>8, <1>9, <1>11, <1>12, <1>13 DEF Appended

\* The numbers of the journal.
LEMMA JournalNumbers ==
  ASSUME EventsTypeOK, Retained
  PROVE  /\ Len(published) \in Nat /\ Len(events) \in Nat /\ Base \in Nat
         /\ Base + Len(events) = Len(published) /\ next_sequence = Len(published) + 1
         /\ DOMAIN events = 1..Len(events) /\ DOMAIN published = 1..Len(published)
BY DEF EventsTypeOK, Retained, Base

\* A client that asks for what follows its cursor gets all of it that is
\* retained, and nothing only if there is nothing.
LEMMA AfterIs ==
  ASSUME EventsTypeOK, Retained, NEW c \in Nat, c <= Len(published)
  PROVE  LET b == After(c) IN
         /\ b \in Seq(Event)
         /\ b = <<>> <=> (events = <<>> \/ c = Len(published))
         /\ b # <<>> =>
              /\ b[1].sequence = IF Base > c THEN Base + 1 ELSE c + 1
              /\ \A k \in DOMAIN b :
                   /\ b[k].sequence = b[1].sequence + k - 1
                   /\ b[k].sequence > Base /\ b[k].sequence <= Len(published)
                   /\ b[k] = events[b[k].sequence - Base]
<1> DEFINE First(i) == \A k \in DOMAIN events : events[k].sequence > c <=> k >= i
           w == IF Base > c THEN 1 ELSE c - Base + 1
<1>1. /\ Len(published) \in Nat /\ Len(events) \in Nat /\ Base \in Nat
      /\ Base + Len(events) = Len(published) /\ DOMAIN events = 1..Len(events)
      /\ \A k \in 1..Len(events) : events[k].sequence = Base + k
      /\ events \in Seq(Event)
  BY JournalNumbers DEF Retained, EventsTypeOK
<1>2. w \in 1..(Len(events) + 1) /\ First(w)
  BY <1>1
<1>3. PICK i \in 1..(Len(events) + 1) : First(i) /\ After(c) = SubSeq(events, i, Len(events))
  BY <1>2 DEF After
<1> DEFINE b == SubSeq(events, i, Len(events))
<1>4. b \in Seq(Event) /\ Len(b) = Len(events) + 1 - i
      /\ \A k \in 1..(Len(events) + 1 - i) : b[k] = events[i + k - 1]
  BY <1>1, <1>3
<1>5. PICK L \in Nat, B \in Nat, N \in Nat : L = Len(events) /\ B = Base /\ N = Len(published)
  BY <1>1
<1>6. /\ i \in 1..(L + 1) /\ B + L = N /\ c \in Nat /\ c <= N
      /\ \A k \in 1..L : B + k > c <=> k >= i
  <2>1. \A k \in 1..L : B + k > c <=> k >= i
    BY <1>1, <1>3, <1>5
  <2> QED
    BY <2>1, <1>1, <1>3, <1>5
<1>7. i <= L => B + i = IF B > c THEN B + 1 ELSE c + 1
  <2>1. ASSUME i <= L PROVE B + i > c /\ (i = 1 \/ B + (i - 1) <= c)
    <3>1. i \in 1..L /\ (i # 1 => i - 1 \in 1..L)
      BY <2>1, <1>6, <1>5
    <3>2. B + i > c
      BY <3>1, <1>6
    <3>3. i # 1 => ~(B + (i - 1) > c)
      BY <3>1, <1>6
    <3> QED
      BY <3>1, <3>2, <3>3, <1>5, <1>6
  <2> QED
    BY <2>1, <1>5, <1>6
<1>8. i = L + 1 <=> (L = 0 \/ c = N)
  <2>1. L # 0 => L \in 1..L
    BY <1>5
  <2>2. L # 0 => (B + L > c <=> L >= i)
    BY <2>1, <1>6
  <2> QED
    BY <2>2, <1>5, <1>6
<1> HIDE DEF b, First
<1>9. b = <<>> <=> (events = <<>> \/ c = Len(published))
  BY <1>1, <1>3, <1>4, <1>5, <1>8
<1>10. ASSUME b # <<>>
      PROVE  /\ b[1].sequence = IF Base > c THEN Base + 1 ELSE c + 1
             /\ \A k \in DOMAIN b :
                  /\ b[k].sequence = b[1].sequence + k - 1
                  /\ b[k].sequence > Base /\ b[k].sequence <= Len(published)
                  /\ b[k] = events[b[k].sequence - Base]
  <2>1. i <= Len(events) /\ 1 \in 1..(Len(events) + 1 - i) /\ i + 1 - 1 = i
    BY <1>1, <1>3, <1>4, <1>10
  <2>2. b[1].sequence = Base + i
    <3>1. b[1] = events[i] /\ i \in 1..Len(events)
      BY <2>1, <1>4, <1>3
    <3> QED
      BY <3>1, <1>1
  <2>3. ASSUME NEW k \in DOMAIN b
        PROVE  /\ b[k].sequence = Base + i + k - 1
               /\ b[k].sequence > Base /\ b[k].sequence <= Len(published)
               /\ b[k] = events[b[k].sequence - Base]
    <3>1. k \in 1..(Len(events) + 1 - i) /\ i \in Nat
      BY <1>4, <1>1, <1>3
    <3>2. i + k - 1 \in 1..Len(events) /\ b[k] = events[i + k - 1]
      <4>1. k \in 1..(L + 1 - i)
        BY <3>1, <1>5
      <4>2. i + k - 1 \in 1..L
        BY <4>1, <1>5, <1>6
      <4> QED
        BY <4>2, <3>1, <1>4, <1>5
    <3>3. b[k].sequence = Base + (i + k - 1)
      BY <3>2, <1>1
    <3> QED
      BY <3>1, <3>2, <3>3, <1>1
  <2> QED
    BY <2>1, <2>2, <2>3, <1>5, <1>7
<1> QED
  BY <1>3, <1>4, <1>9, <1>10 DEF b

\* The events that a poll fetches, and the notice that comes with them.
LEMMA FetchedReads ==
  ASSUME EventsTypeOK, Retained, NEW c \in Nat, c <= Len(published),
         NEW g \in Nat, g <= Base + 1, After(c) # <<>>
  PROVE  /\ Reads(After(c), c, Truncation(g, c))
         /\ Truncation(g, c) \in Nat /\ Truncation(g, c) <= Base + 1
         /\ Truncation(g, c) # g => /\ c + 1 < Base + 1 /\ Truncation(g, c) = Base + 1
                                    /\ Base + 1 <= Len(published)
<1>1. /\ Len(published) \in Nat /\ Len(events) \in Nat /\ Base \in Nat
      /\ Base + Len(events) = Len(published) /\ DOMAIN events = 1..Len(events)
  BY JournalNumbers
<1>2. events # <<>> /\ Len(events) # 0 /\ Head(events).sequence = Base + 1
  <2>1. events # <<>>
    BY AfterIs
  <2>2. 1 \in DOMAIN events /\ Head(events) = events[1]
    BY <2>1, <1>1 DEF EventsTypeOK
  <2> QED
    BY <2>1, <2>2, <1>1 DEF Retained, EventsTypeOK
<1>3. truncated_before(c) = IF c + 1 < Base + 1 THEN Base + 1 ELSE 0
  BY <1>2 DEF truncated_before
<1>4. Truncation(g, c) = IF c + 1 < Base + 1 THEN Base + 1 ELSE g
  BY <1>1, <1>3 DEF Truncation
<1> DEFINE b == After(c)
<1>5. /\ b[1].sequence = IF Base > c THEN Base + 1 ELSE c + 1
      /\ \A k \in DOMAIN b : /\ b[k].sequence = b[1].sequence + k - 1
                             /\ b[k].sequence > Base /\ b[k].sequence <= Len(published)
                             /\ b[k] = events[b[k].sequence - Base]
  BY AfterIs
<1> HIDE DEF b
<1>6. ASSUME NEW k \in DOMAIN b
      PROVE  LET q == b[k].sequence IN
             /\ b[k].turn = published[q].turn
             /\ b[k].kind \in Terminal <=> published[q].over
  <2>1. b[1].sequence \in Nat /\ b \in Seq(Event)
    BY <1>1, <1>5, AfterIs DEF b
  <2>2. b[k].sequence \in Nat
    <3>1. b[k] \in Event
      BY <2>1
    <3> QED
      BY <3>1 DEF Event
  <2>3. b[k].sequence - Base \in DOMAIN events /\ Base + (b[k].sequence - Base) = b[k].sequence
    BY <2>2, <1>1, <1>5
  <2> QED
    BY <2>3, <1>5 DEF Retained
<1>7. b[1].sequence = IF Truncation(g, c) > c + 1 THEN Truncation(g, c) ELSE c + 1
  BY <1>1, <1>4, <1>5
<1>8. Reads(b, c, Truncation(g, c))
  BY <1>5, <1>6, <1>7 DEF Reads, b
<1> QED
  BY <1>1, <1>2, <1>4, <1>8 DEF b

-----------------------------------------------------------------------------
(* What others do leaves a client's part of the invariant alone.           *)

\* The numbers of the journal after a step.
LEMMA NextNumbers ==
  ASSUME EventsTypeOK', Retained'
  PROVE  /\ Len(published') \in Nat /\ Len(events') \in Nat /\ Base' \in Nat
         /\ Base' + Len(events') = Len(published')
         /\ DOMAIN published' = 1..Len(published') /\ DOMAIN events' = 1..Len(events')
BY DEF EventsTypeOK, Retained, Base

\* Both states of a step have a journal that is in order, and it has grown.
Journals == EventsTypeOK /\ Retained /\ EventsTypeOK' /\ Retained' /\ Grows

\* A batch that was fetched stays good.
LEMMA ReadsStable ==
  ASSUME Journals, NEW b \in Seq(Event), NEW p \in Nat, NEW g \in Nat, Reads(b, p, g)
  PROVE  Reads(b, p, g)'
<1>1. /\ Len(published) \in Nat /\ Base \in Nat /\ DOMAIN published = 1..Len(published)
      /\ Len(published') \in Nat /\ Base' \in Nat
  BY JournalNumbers, NextNumbers DEF Journals
<1>2. /\ Len(published) <= Len(published') /\ Base <= Base'
      /\ \A q \in 1..Len(published) : published'[q] = published[q]
      /\ \A q \in 1..Len(published) : q > Base' => events'[q - Base'] = events[q - Base]
  BY <1>1 DEF Journals, Grows
<1>3. b # <<>> /\ b[1].sequence = IF g > p + 1 THEN g ELSE p + 1
  BY DEF Reads
<1>4. ASSUME NEW k \in DOMAIN b
      PROVE  /\ b[k].sequence = b[1].sequence + k - 1
             /\ b[k].sequence <= Len(published')
             /\ b[k].turn = published'[b[k].sequence].turn
             /\ b[k].kind \in Terminal <=> published'[b[k].sequence].over
             /\ b[k].sequence > Base' => b[k] = events'[b[k].sequence - Base']
  <2>1. /\ b[k].sequence = b[1].sequence + k - 1
        /\ b[k].sequence <= Len(published)
        /\ b[k].turn = published[b[k].sequence].turn
        /\ b[k].kind \in Terminal <=> published[b[k].sequence].over
        /\ b[k].sequence > Base => b[k] = events[b[k].sequence - Base]
    BY DEF Reads
  <2>2. k \in Nat \ {0} /\ b[k] \in Event
    OBVIOUS
  <2>3. b[k].sequence \in Nat
    BY <2>2 DEF Event
  <2>4. b[k].sequence \in 1..Len(published)
    BY <2>1, <2>2, <2>3, <1>1, <1>3
  <2> QED
    BY <2>1, <2>4, <1>1, <1>2
<1> QED
  BY <1>3, <1>4 DEF Reads

\* A controller stays right when a turn makes a step, and when nothing starts.
LEMMA CtlStable ==
  ASSUME Journals, NEW k \in Ctl, CtlInv(k),
         \/ k.pc = "away" \/ active # None
         \/ active' = active /\ published' = published
  PROVE  CtlInv(k)'
<1>1. /\ Len(published) \in Nat /\ Base \in Nat /\ Len(published') \in Nat /\ Base' \in Nat
      /\ Len(published) <= Len(published') /\ Base <= Base'
  BY JournalNumbers, NextNumbers DEF Journals, Grows
<1>2. /\ k.cursor \in Nat \cup {None} /\ k.gone \in Nat /\ k.batch \in Seq(Event)
  BY DEF Ctl
<1>3. k.pc = "handle" => Reads(k.batch, k.cursor, k.gone)'
  <2>1. k.pc = "handle" => k.cursor \in Nat /\ Reads(k.batch, k.cursor, k.gone)
    BY <1>2 DEF CtlInv
  <2> QED
    BY <2>1, <1>2, ReadsStable
<1>4. /\ k.cursor # None => k.cursor <= Len(published')
      /\ k.gone <= Base' + 1
  BY <1>1, <1>2 DEF CtlInv
<1>5. k.missed # None => k.pc = "prompt" /\ active' = None /\ k.cursor = Len(published')
  BY DEF CtlInv
<1> QED
  BY <1>3, <1>4, <1>5 DEF CtlInv

\* So does a run.
LEMMA RunStable ==
  ASSUME Journals, NEW k \in Run, RunInv(k),
         \/ k.pc = "none"
         \/ active' = active /\ published' = published
         \/ /\ active # None /\ active' \in {None, active}
            /\ \A j \in DOMAIN published' \ DOMAIN published : published'[j].turn = active
  PROVE  RunInv(k)'
<1>1. /\ Len(published) \in Nat /\ Base \in Nat /\ Len(published') \in Nat /\ Base' \in Nat
      /\ DOMAIN published = 1..Len(published) /\ DOMAIN published' = 1..Len(published')
      /\ \A j \in 1..Len(published) : published'[j] = published[j]
      /\ Len(published) <= Len(published') /\ Base <= Base'
  BY JournalNumbers, NextNumbers DEF Journals, Grows
<1>2. /\ k.after \in Nat \cup {None} /\ k.gone \in Nat /\ k.batch \in Seq(Event)
      /\ k.turn \in Turn \cup {None}
  BY DEF Run
<1>3. k.pc = "handle" => Reads(k.batch, k.after, k.gone)'
  <2>1. k.pc = "handle" => k.after \in Nat /\ Reads(k.batch, k.after, k.gone)
    BY <1>2 DEF RunInv
  <2> QED
    BY <2>1, <1>2, ReadsStable
<1>4. /\ k.after # None => k.after <= Len(published')
      /\ k.gone <= Base' + 1
  BY <1>1, <1>2 DEF RunInv
<1>5. ASSUME k.pc \in {"submitting", "follow", "handle"}
      PROVE  /\ k.turn # None /\ active' \in {None, k.turn}
             /\ \A j \in DOMAIN published' :
                  /\ published'[j].turn <= k.turn
                  /\ published'[j].turn = k.turn /\ published'[j].over => j > k.after \/ k.told # None
  <2>1. /\ k.turn # None /\ active \in {None, k.turn} /\ k.after # None /\ k.after <= Len(published)
        /\ \A j \in DOMAIN published :
             /\ published[j].turn <= k.turn
             /\ published[j].turn = k.turn /\ published[j].over => j > k.after \/ k.told # None
    BY <1>5 DEF RunInv
  <2>2. k.turn \in Nat
    BY <2>1, <1>2, JournalAssumption DEF Turn
  <2>3. ASSUME NEW j \in DOMAIN published', j \notin DOMAIN published
        PROVE  published'[j].turn = k.turn /\ j > k.after
    <3>1. j > Len(published)
      BY <2>3, <1>1
    <3>2. published'[j].turn = active
      BY <2>3, <1>5, <3>1, <1>1
    <3>3. active = k.turn
      BY <2>1, <2>3, <1>5, <3>1, <1>1
    <3> QED
      BY <3>1, <3>2, <3>3, <2>1, <1>1, <1>2
  <2>4. ASSUME NEW j \in DOMAIN published'
        PROVE  /\ published'[j].turn <= k.turn
               /\ published'[j].turn = k.turn /\ published'[j].over => j > k.after \/ k.told # None
    <3>1. CASE j \in DOMAIN published
      BY <3>1, <2>1, <1>1
    <3>2. CASE j \notin DOMAIN published
      BY <3>2, <2>3, <2>2
    <3> QED
      BY <3>1, <3>2
  <2>5. active' \in {None, k.turn}
    BY <2>1, <1>5
  <2> QED
    BY <2>1, <2>4, <2>5
<1>6. k.outcome = "unreported" => k.pc = "done" /\ active' = None /\ ~Started(k.turn)'
  BY DEF RunInv, Started
<1> QED
  BY <1>3, <1>4, <1>5, <1>6 DEF RunInv

-----------------------------------------------------------------------------
(* The steps of the turn's worker and the requests of clients.             *)

DaemonInv == EventsTypeOK /\ JournalInv /\ DecisionInv

\* What a step of the worker does to the journal and the active turn.
WorkerMove ==
  /\ Journals /\ active # None /\ active' \in {None, active}
  /\ \A j \in DOMAIN published' \ DOMAIN published : published'[j].turn = active

\* Turns are numbers.
LEMMA PublishedTyped ==
  ASSUME EventsTypeOK, NEW j \in DOMAIN published
  PROVE  published[j].turn \in Turn /\ published[j].turn \in Nat
<1> DEFINE S == [turn: Turn, over: BOOLEAN]
<1> HIDE DEF S
<1>1. published \in Seq(S)
  BY DEF S, EventsTypeOK
<1>2. published[j] \in S
  BY <1>1
<1>3. published[j].turn \in Turn
  BY <1>2 DEF S
<1> QED
  BY <1>3, JournalAssumption DEF Turn

\* A worker has a turn, and all that was published before it is older.
LEMMA TurnsBefore ==
  ASSUME DaemonInv, worker.pc # "none"
  PROVE  /\ active \in Turn /\ active \in Nat /\ active # None
         /\ \A j \in DOMAIN published :
              /\ published[j].turn \in Nat
              /\ published[j].turn <= active
              /\ published[j].over => published[j].turn < active
              /\ worker.pc = "submitted" => published[j].turn < active
<1>1. active \in Turn /\ active \in Nat /\ active # None
  BY JournalAssumption DEF DaemonInv, EventsTypeOK, JournalInv, Latest, Turn
<1> DEFINE N == Len(published)
<1>2. /\ N \in Nat /\ DOMAIN published = 1..N
      /\ \A j \in 1..N : published[j].turn \in Nat
  <2>1. N \in Nat /\ DOMAIN published = 1..N
    BY DEF DaemonInv, EventsTypeOK
  <2> QED
    BY <2>1, PublishedTyped DEF DaemonInv
<1>3. ASSUME NEW j \in 1..N
      PROVE  /\ published[j].turn <= active
             /\ published[j].over => published[j].turn < active
             /\ worker.pc = "submitted" => published[j].turn < active
  <2>0. N \in 1..N /\ published # <<>>
    BY <1>2
  <2>1. /\ published[j].turn <= published[N].turn
        /\ j # N /\ published[j].over => published[j].turn < published[N].turn
    <3>1. CASE j = N
      BY <3>1, <1>2
    <3>2. CASE j # N
      <4>1. j < N /\ j \in DOMAIN published /\ N \in DOMAIN published
        <5> HIDE DEF N
        <5>1. j \in 1..N /\ N \in 1..N /\ j # N /\ N \in Nat
          BY <1>3, <3>2, <2>0, <1>2
        <5>2. j < N
          BY <5>1
        <5> QED
          BY <5>1, <5>2, <1>2
      <4> QED
        BY <4>1, <1>2 DEF DaemonInv, JournalInv, Ordered
    <3> QED
      BY <3>1, <3>2
  <2>2. CASE worker.pc = "submitted"
    <3>1. active = published[N].turn + 1
      BY <2>2, <2>0 DEF DaemonInv, JournalInv, Latest, NewTurn
    <3>2. published[N].turn \in Nat /\ published[j].turn \in Nat /\ published[j].turn <= published[N].turn
      BY <2>0, <2>1, <1>2
    <3>3. published[j].turn < active /\ published[j].turn <= active
      BY <3>1, <3>2
    <3> QED
      BY <3>3
  <2>3. CASE worker.pc # "submitted"
    <3>1. published[N].turn = active /\ ~published[N].over
      BY <2>3, <1>1 DEF DaemonInv, JournalInv, Latest, Running
    <3> QED
      BY <3>1, <2>1, <2>3
  <2> QED
    BY <2>2, <2>3
<1> QED
  BY <1>1, <1>2, <1>3

\* An event of the active turn comes after all others.
LEMMA OrderedNext ==
  ASSUME DaemonInv, worker.pc # "none", NEW kind, NEW call, NEW size,
         Appended(active, kind, call, size)
  PROVE  Ordered' /\ \A j \in DOMAIN published' \ DOMAIN published : published'[j].turn = active
<1> DEFINE N == Len(published)
<1>1. /\ N \in Nat /\ DOMAIN published = 1..N /\ DOMAIN published' = 1..(N + 1)
      /\ \A j \in 1..N : published'[j] = published[j]
      /\ published'[N + 1].turn = active
  BY DEF DaemonInv, EventsTypeOK, Appended, Grows
<1>2. ASSUME NEW j \in 1..(N + 1), NEW k \in 1..(N + 1), j < k
      PROVE  /\ published'[j].turn <= published'[k].turn
             /\ published'[j].over => published'[j].turn < published'[k].turn
  <2>1. CASE k = N + 1
    <3>1. j \in 1..N
      BY <2>1, <1>1, <1>2
    <3> QED
      BY <2>1, <3>1, <1>1, TurnsBefore
  <2>2. CASE k # N + 1
    <3>1. j \in 1..N /\ k \in 1..N
      BY <2>2, <1>1, <1>2
    <3> QED
      BY <3>1, <1>1, <1>2 DEF DaemonInv, JournalInv, Ordered
  <2> QED
    BY <2>1, <2>2
<1> QED
  BY <1>1, <1>2 DEF Ordered

\* The turn goes on after an event of its own.
LEMMA GoesOn ==
  ASSUME DaemonInv, worker.pc # "none", NEW kind \in Kind \ Terminal, NEW call \in Call \cup {None},
         NEW size \in {Small, Huge}, append_locked(active, kind, call, size),
         EventsTypeOK', active' = active, worker'.pc \notin {"none", "submitted"}
  PROVE  JournalInv' /\ WorkerMove
<1> DEFINE N == Len(published)
<1>1. active \in Turn /\ active # None /\ kind \in Kind /\ kind \notin Terminal
  BY TurnsBefore
<1>2. Appended(active, kind, call, size)
  BY <1>1, AppendIs DEF DaemonInv, JournalInv
<1>3. /\ N \in Nat /\ DOMAIN published = 1..N /\ DOMAIN published' = 1..(N + 1)
      /\ \A j \in 1..N : published'[j] = published[j]
      /\ published'[N + 1].turn = active /\ ~published'[N + 1].over
      /\ Len(published') = N + 1
  BY <1>1, <1>2 DEF DaemonInv, EventsTypeOK, Appended, Grows
<1>4. Retained' /\ Grows
  BY <1>2 DEF Appended
<1>5. Ordered' /\ \A j \in DOMAIN published' \ DOMAIN published : published'[j].turn = active
  BY <1>2, OrderedNext
<1>6. Latest'
  <2>1. ASSUME NEW k \in DOMAIN published', published'[k].turn # active
        PROVE  \E j \in DOMAIN published' :
                 published'[j].turn = published'[k].turn /\ published'[j].over
    <3>1. k \in 1..N
      BY <2>1, <1>3
    <3>2. PICK j \in DOMAIN published : published[j].turn = published[k].turn /\ published[j].over
      BY <2>1, <3>1, <1>3 DEF DaemonInv, JournalInv, Latest
    <3> QED
      BY <3>1, <3>2, <1>3
  <2>2. published' # <<>> /\ Running'
    BY <1>1, <1>3 DEF Running
  <2> QED
    BY <2>1, <2>2, <1>1, <1>3 DEF Latest
<1> QED
  BY <1>1, <1>4, <1>5, <1>6 DEF JournalInv, WorkerMove, Journals, DaemonInv

\* A journal to which nothing happens.
LEMMA StillGrows ==
  ASSUME DaemonInv, EventsTypeOK', UNCHANGED <<events, published>>
  PROVE  Journals /\ Retained' /\ Ordered'
<1>1. Base' = Base
  BY DEF Base
<1>2. Retained' /\ Ordered'
  BY <1>1 DEF DaemonInv, JournalInv, Retained, Ordered
<1>3. Grows
  BY <1>1, JournalNumbers DEF DaemonInv, JournalInv, Grows
<1> QED
  BY <1>2, <1>3 DEF Journals, DaemonInv, JournalInv

\* A step that appends nothing leaves the journal in order.
LEMMA JournalStill ==
  ASSUME DaemonInv, EventsTypeOK', UNCHANGED <<events, published, active>>,
         \/ worker.pc \notin {"none", "submitted"} /\ worker'.pc \notin {"none", "submitted"}
         \/ worker'.pc = worker.pc
  PROVE  JournalInv' /\ Journals
<1>1. Journals /\ Retained' /\ Ordered'
  BY StillGrows
<1>2. Latest'
  BY DEF DaemonInv, JournalInv, Latest, Running, NewTurn
<1> QED
  BY <1>1, <1>2 DEF JournalInv

\* A turn that was refused leaves no trace.
LEMMA RefusedTurn ==
  ASSUME DaemonInv, SubmitRefused
  PROVE  DaemonInv' /\ WorkerMove
<1>1. active \in Turn /\ active # None /\ worker.pc = "submitted"
  BY TurnsBefore DEF SubmitRefused
<1>2. /\ UNCHANGED <<events, next_sequence, published, answered>> /\ active' = None
      /\ worker' = NoWorker /\ cancelled' \subseteq cancelled
  BY DEF SubmitRefused, history
<1>3. answered = {} /\ approvals = {} /\ pending_approvals = {}
  <2>1. worker.unasked = Call
    BY <1>1 DEF DaemonInv, DecisionInv
  <2>2. answered = {}
    BY <2>1 DEF DaemonInv, DecisionInv, EventsTypeOK
  <2>3. pending_approvals = {}
    BY <2>1 DEF DaemonInv, DecisionInv, EventsTypeOK
  <2> QED
    BY <2>2, <2>3 DEF DaemonInv, DecisionInv
<1>4. pending_approvals' = {} /\ approvals' = {} /\ answered' = {}
  BY <1>2, <1>3 DEF SubmitRefused
<1>5. worker' \in Worker /\ worker'.pc = "none"
  BY <1>2, JournalAssumption DEF NoWorker, Worker, WorkerPc
<1>6. EventsTypeOK'
  BY <1>2, <1>4, <1>5 DEF DaemonInv, EventsTypeOK, Within, Bytes
<1>7. Journals /\ Retained' /\ Ordered'
  BY <1>2, <1>6, StillGrows
<1>8. Latest'
  <2>1. \A k \in DOMAIN published : published[k].turn # active
    BY <1>1, TurnsBefore
  <2> QED
    BY <2>1, <1>1, <1>2, <1>5 DEF DaemonInv, JournalInv, Latest, Running
<1>9. DecisionInv'
  BY <1>4, <1>5 DEF DecisionInv, DecisionIsTheReply
<1> QED
  BY <1>1, <1>2, <1>6, <1>7, <1>8, <1>9 DEF DaemonInv, JournalInv, WorkerMove

\* The terminal event and the release of the turn.
LEMMA ConcludedTurn ==
  ASSUME DaemonInv, NEW persisted \in BOOLEAN, NEW failed \in BOOLEAN, Conclude(persisted, failed)
  PROVE  DaemonInv' /\ WorkerMove
<1> DEFINE N == Len(published)
<1>1. worker.pc \in {"run", "ended"} /\ active \in Turn /\ active # None
  BY TurnsBefore DEF Conclude, Ending
<1>2. PICK kind \in Terminal : append_locked(active, kind, None, Small)
  BY DEF Conclude, TerminalKind, Terminal
<1>3. kind \in Kind /\ None \in Call \cup {None} /\ Small \in {Small, Huge}
  BY <1>2 DEF Kind
<1>4. Appended(active, kind, None, Small)
  BY <1>1, <1>2, <1>3, AppendIs DEF DaemonInv, JournalInv
<1>5. /\ active' = None /\ answered' = {} /\ cancelled' \subseteq cancelled /\ worker' = NoWorker
      /\ pending_approvals' = {p \in pending_approvals : p.turn # active}
      /\ approvals' = {a \in approvals : a.turn # active}
  BY DEF Conclude
<1>6. pending_approvals' = {} /\ approvals' = {}
  <2>1. \A a \in approvals : a.turn = active
    BY DEF DaemonInv, DecisionInv
  <2>2. \A p \in pending_approvals : p.turn = active
    BY DEF DaemonInv, DecisionInv
  <2> QED
    BY <2>1, <2>2, <1>5
<1>7. worker' \in Worker /\ worker'.pc = "none"
  BY <1>5, JournalAssumption DEF NoWorker, Worker, WorkerPc
<1>8. EventsTypeOK'
  BY <1>4, <1>5, <1>6, <1>7 DEF DaemonInv, EventsTypeOK, Appended
<1>9. Retained' /\ Grows
  BY <1>4 DEF Appended
<1>10. Ordered' /\ \A j \in DOMAIN published' \ DOMAIN published : published'[j].turn = active
  BY <1>1, <1>4, OrderedNext
<1>11. /\ N \in Nat /\ DOMAIN published = 1..N /\ DOMAIN published' = 1..(N + 1)
       /\ \A j \in 1..N : published'[j] = published[j]
       /\ published'[N + 1].turn = active /\ published'[N + 1].over
       /\ Len(published') = N + 1 /\ events' # <<>>
  BY <1>2, <1>4 DEF DaemonInv, EventsTypeOK, Appended, Grows
<1>12. Latest'
  <2>1. ASSUME NEW k \in DOMAIN published'
        PROVE  \E j \in DOMAIN published' :
                 published'[j].turn = published'[k].turn /\ published'[j].over
    <3>1. CASE published'[k].turn = active
      <4>1. N + 1 \in DOMAIN published'
        BY <1>11
      <4> QED
        BY <4>1, <3>1, <1>11
    <3>2. CASE published'[k].turn # active
      <4>1. k \in 1..N
        BY <2>1, <3>2, <1>11
      <4>2. PICK j \in DOMAIN published : published[j].turn = published[k].turn /\ published[j].over
        BY <4>1, <3>2, <1>11 DEF DaemonInv, JournalInv, Latest
      <4> QED
        BY <4>1, <4>2, <1>11
    <3> QED
      BY <3>1, <3>2
  <2> QED
    BY <2>1, <1>5, <1>7, <1>11 DEF Latest, Running
<1>13. DecisionInv'
  BY <1>5, <1>6, <1>7 DEF DecisionInv, DecisionIsTheReply
<1> QED
  BY <1>1, <1>5, <1>8, <1>9, <1>10, <1>12, <1>13 DEF DaemonInv, JournalInv, WorkerMove, Journals

Asking == {"asked", "gate", "peek", "wait", "decided"}

\* A step in which nothing is asked or answered.
LEMMA DecisionStill ==
  ASSUME DaemonInv, UNCHANGED <<active, pending_approvals, approvals, answered>>,
         worker'.unasked = worker.unasked, worker'.pc # "submitted",
         worker'.pc \in Asking => worker.pc \in Asking /\ worker'.call = worker.call,
         DecisionIsTheReply'
  PROVE  DecisionInv'
BY DEF DaemonInv, DecisionInv, Asking

\* Events that the worker emits.
LEMMA TurnStartsStep ==
  ASSUME DaemonInv, TurnStarts
  PROVE  DaemonInv' /\ WorkerMove
<1>1. worker.pc = "submitted" /\ worker \in Worker /\ active \in Turn
  BY TurnsBefore DEF TurnStarts, DaemonInv, EventsTypeOK
<1>2. PICK size \in Size("started") : append_locked(active, "started", None, size)
  BY DEF TurnStarts
<1>3. size \in {Small, Huge} /\ "started" \in Kind \ Terminal /\ None \in Call \cup {None}
  BY <1>2 DEF Size, Kind, Terminal
<1>4. Appended(active, "started", None, size)
  BY <1>1, <1>2, <1>3, AppendIs DEF DaemonInv, JournalInv
<1>5. /\ worker' \in Worker /\ worker'.pc = "run" /\ worker'.unasked = worker.unasked
      /\ UNCHANGED <<active, cancelled, pending_approvals, approvals, answered>>
  BY <1>1 DEF TurnStarts, Worker, WorkerPc
<1>6. EventsTypeOK'
  BY <1>4, <1>5 DEF DaemonInv, EventsTypeOK, Appended
<1>7. JournalInv' /\ WorkerMove
  BY <1>1, <1>2, <1>3, <1>5, <1>6, GoesOn
<1>8. DecisionInv'
  BY <1>5, DecisionStill DEF Asking, DecisionIsTheReply
<1> QED
  BY <1>6, <1>7, <1>8 DEF DaemonInv

\* Output of the engine or the shell, with or without its audit record.
LEMMA WorkerEmitsStep ==
  ASSUME DaemonInv, NEW recorded \in BOOLEAN, WorkerEmits(recorded)
  PROVE  DaemonInv' /\ WorkerMove
<1>1. worker.pc = "run" /\ worker \in Worker /\ active \in Turn /\ worker.left > 0
  BY TurnsBefore DEF WorkerEmits, DaemonInv, EventsTypeOK
<1>2. PICK size \in Size("output") : append_locked(active, "output", None, size)
  BY DEF WorkerEmits
<1>3. size \in {Small, Huge} /\ "output" \in Kind \ Terminal /\ None \in Call \cup {None}
  BY <1>2 DEF Size, Kind, Terminal
<1>4. Appended(active, "output", None, size)
  BY <1>1, <1>2, <1>3, AppendIs DEF DaemonInv, JournalInv
<1>5. UNCHANGED <<active, pending_approvals, approvals, answered>> /\ cancelled' \subseteq cancelled \cup {active}
  BY DEF WorkerEmits, CancelledBy
<1>6. worker' \in Worker /\ worker'.pc = "run" /\ worker'.unasked = worker.unasked
  <2> DEFINE w == [worker EXCEPT !.left = @ - 1]
  <2>1. worker.left - 1 \in 0..MaxOutput
    BY <1>1, JournalAssumption DEF Worker
  <2>2. w \in Worker /\ w.pc = "run" /\ w.unasked = worker.unasked
    BY <1>1, <2>1 DEF Worker
  <2>3. worker' = w \/ worker' = [w EXCEPT !.unaudited = TRUE]
    BY DEF WorkerEmits, Audited
  <2> HIDE DEF w
  <2> QED
    BY <2>2, <2>3 DEF Worker
<1>7. EventsTypeOK'
  BY <1>1, <1>4, <1>5, <1>6 DEF DaemonInv, EventsTypeOK, Appended
<1>8. JournalInv' /\ WorkerMove
  BY <1>1, <1>2, <1>3, <1>5, <1>6, <1>7, GoesOn
<1>9. DecisionInv'
  BY <1>5, <1>6, DecisionStill DEF Asking, DecisionIsTheReply
<1> QED
  BY <1>7, <1>8, <1>9 DEF DaemonInv

\* The request is announced: it is retained, and last.
LEMMA WorkerAnnouncesStep ==
  ASSUME DaemonInv, WorkerAnnounces
  PROVE  /\ DaemonInv' /\ WorkerMove /\ Len(published') = Len(published) + 1
         /\ events' # <<>> /\ events'[Len(events')].kind = "request"
         /\ events'[Len(events')].call = worker'.call
<1>1. worker.pc = "asked" /\ worker \in Worker /\ active \in Turn
  BY TurnsBefore DEF WorkerAnnounces, DaemonInv, EventsTypeOK
<1>2. append_locked(active, "request", worker.call, Small)
  BY DEF WorkerAnnounces
<1>3. "request" \in Kind \ Terminal /\ worker.call \in Call \cup {None} /\ Small \in {Small, Huge}
  BY <1>1 DEF Kind, Terminal, Worker
<1>4. Appended(active, "request", worker.call, Small)
  BY <1>1, <1>2, <1>3, AppendIs DEF DaemonInv, JournalInv
<1>5. /\ worker' \in Worker /\ worker'.pc = "gate" /\ worker'.unasked = worker.unasked
      /\ worker'.call = worker.call
      /\ UNCHANGED <<active, cancelled, pending_approvals, approvals, answered>>
  BY <1>1 DEF WorkerAnnounces, Worker, WorkerPc
<1>6. EventsTypeOK'
  BY <1>4, <1>5 DEF DaemonInv, EventsTypeOK, Appended
<1>7. JournalInv' /\ WorkerMove
  BY <1>1, <1>2, <1>3, <1>5, <1>6, GoesOn
<1>8. DecisionInv'
  BY <1>1, <1>5, DecisionStill DEF Asking, DecisionIsTheReply
<1> QED
  BY <1>4, <1>5, <1>6, <1>7, <1>8 DEF DaemonInv, Appended

\* The decision is announced, and nothing is asked any more.
LEMMA WorkerDecidesStep ==
  ASSUME DaemonInv, NEW recorded \in BOOLEAN, WorkerDecides(recorded)
  PROVE  DaemonInv' /\ WorkerMove /\ worker'.pc \notin Asking
<1>1. worker.pc = "decided" /\ worker \in Worker /\ active \in Turn
  BY TurnsBefore DEF WorkerDecides, DaemonInv, EventsTypeOK
<1>2. append_locked(active, "decision", worker.call, Small)
  BY DEF WorkerDecides
<1>3. "decision" \in Kind \ Terminal /\ worker.call \in Call \cup {None} /\ Small \in {Small, Huge}
  BY <1>1 DEF Kind, Terminal, Worker
<1>4. Appended(active, "decision", worker.call, Small)
  BY <1>1, <1>2, <1>3, AppendIs DEF DaemonInv, JournalInv
<1>5. UNCHANGED <<active, pending_approvals, approvals, answered>> /\ cancelled' \subseteq cancelled \cup {active}
  BY DEF WorkerDecides, CancelledBy
<1>6. worker' \in Worker /\ worker'.pc \in {"ended", "aborted", "run"} /\ worker'.unasked = worker.unasked
  <2>1. PICK next \in {"ended", "aborted", "run"} :
          worker' = Audited([worker EXCEPT !.pc = next, !.call = None, !.decision = None], recorded)
    <3> DEFINE n == CASE active \in cancelled' -> "ended"
                      [] worker.decision = "abort" -> "aborted"
                      [] OTHER -> "run"
    <3>1. n \in {"ended", "aborted", "run"}
      OBVIOUS
    <3>2. worker' = Audited([worker EXCEPT !.pc = n, !.call = None, !.decision = None], recorded)
      BY DEF WorkerDecides
    <3> HIDE DEF n
    <3> QED
      BY <3>1, <3>2
  <2> DEFINE w == [worker EXCEPT !.pc = next, !.call = None, !.decision = None]
  <2>2. w \in Worker /\ w.pc = next /\ w.unasked = worker.unasked
    BY <1>1, <2>1 DEF Worker, WorkerPc
  <2>3. worker' = w \/ worker' = [w EXCEPT !.unaudited = TRUE]
    BY <2>1 DEF Audited
  <2> HIDE DEF w
  <2> QED
    BY <2>1, <2>2, <2>3 DEF Worker
<1>7. EventsTypeOK'
  BY <1>1, <1>4, <1>5, <1>6 DEF DaemonInv, EventsTypeOK, Appended
<1>8. JournalInv' /\ WorkerMove
  BY <1>1, <1>2, <1>3, <1>5, <1>6, <1>7, GoesOn
<1>9. DecisionInv'
  BY <1>5, <1>6, DecisionStill DEF Asking, DecisionIsTheReply
<1> QED
  BY <1>6, <1>7, <1>8, <1>9 DEF DaemonInv, Asking

\* The last event of a turn that the user stopped.
LEMMA WorkerAbortsStep ==
  ASSUME DaemonInv, WorkerAborts
  PROVE  DaemonInv' /\ WorkerMove /\ worker'.pc \notin Asking
<1>1. worker.pc = "aborted" /\ worker \in Worker /\ active \in Turn
  BY TurnsBefore DEF WorkerAborts, DaemonInv, EventsTypeOK
<1>2. append_locked(active, "output", None, Small)
  BY DEF WorkerAborts
<1>3. "output" \in Kind \ Terminal /\ None \in Call \cup {None} /\ Small \in {Small, Huge}
  BY DEF Kind, Terminal
<1>4. Appended(active, "output", None, Small)
  BY <1>1, <1>2, <1>3, AppendIs DEF DaemonInv, JournalInv
<1>5. /\ worker' \in Worker /\ worker'.pc = "ended" /\ worker'.unasked = worker.unasked
      /\ UNCHANGED <<active, cancelled, pending_approvals, approvals, answered>>
  BY <1>1 DEF WorkerAborts, Worker, WorkerPc
<1>6. EventsTypeOK'
  BY <1>4, <1>5 DEF DaemonInv, EventsTypeOK, Appended
<1>7. JournalInv' /\ WorkerMove
  BY <1>1, <1>2, <1>3, <1>5, <1>6, GoesOn
<1>8. DecisionInv'
  BY <1>5, DecisionStill DEF Asking, DecisionIsTheReply
<1> QED
  BY <1>5, <1>6, <1>7, <1>8 DEF DaemonInv, Asking

\* A call is asked for, and its decision awaited.
LEMMA WorkerAsksStep ==
  ASSUME DaemonInv, NEW c \in Call, WorkerAsks(c)
  PROVE  DaemonInv' /\ WorkerMove /\ worker'.pc = "asked"
<1>1. worker.pc = "run" /\ worker \in Worker /\ active \in Turn /\ active # None /\ c \in worker.unasked
  BY TurnsBefore DEF WorkerAsks, DaemonInv, EventsTypeOK
<1>2. /\ UNCHANGED <<events, next_sequence, active, cancelled, approvals, published, answered>>
      /\ pending_approvals' = pending_approvals \cup {[turn |-> active, call |-> c]}
  BY DEF WorkerAsks, history
<1>3. /\ worker' \in Worker /\ worker'.pc = "asked" /\ worker'.unasked = worker.unasked \ {c}
      /\ worker'.call = c
  BY <1>1 DEF WorkerAsks, Worker, WorkerPc
<1>4. EventsTypeOK'
  BY <1>1, <1>2, <1>3 DEF DaemonInv, EventsTypeOK, Within, Bytes
<1>5. JournalInv' /\ Journals
  BY <1>1, <1>2, <1>3, <1>4, JournalStill
<1>6. DecisionInv'
  <2>1. \A p \in pending_approvals' : p.turn = active' /\ p.call \notin worker'.unasked
    BY <1>2, <1>3 DEF DaemonInv, DecisionInv
  <2>2. \A a \in answered' : a.turn = active' /\ a.call \notin worker'.unasked /\ a.call # c
    BY <1>1, <1>2, <1>3 DEF DaemonInv, DecisionInv
  <2>3. \A p \in pending_approvals', a \in answered' : p.call # a.call
    BY <1>2, <2>2 DEF DaemonInv, DecisionInv
  <2> QED
    BY <2>1, <2>2, <2>3, <1>2, <1>3 DEF DaemonInv, DecisionInv, DecisionIsTheReply
<1> QED
  BY <1>1, <1>2, <1>3, <1>4, <1>5, <1>6 DEF DaemonInv, WorkerMove

\* A step of the wait for a decision, which changes nothing but the worker and
\* may take a reply.
WaitMove ==
  /\ WorkerMove /\ UNCHANGED <<events, published, active, pending_approvals>>
  /\ worker.pc \in Asking /\ worker'.pc \in Asking /\ worker'.call = worker.call
  /\ worker.pc \in {"gate", "peek", "wait"}

\* The top of the loop, where a cancellation decides.
LEMMA GateStep ==
  ASSUME DaemonInv, Gate
  PROVE  DaemonInv' /\ WaitMove
<1>1. worker.pc = "gate" /\ worker \in Worker /\ active \in Turn /\ active # None
  BY TurnsBefore DEF Gate, DaemonInv, EventsTypeOK
<1>2. UNCHANGED <<events, next_sequence, active, cancelled, pending_approvals, approvals, published, answered>>
  BY DEF Gate, execution, history
<1>3. /\ worker' \in Worker /\ worker'.pc \in {"decided", "peek"} /\ worker'.unasked = worker.unasked
      /\ worker'.call = worker.call
      /\ worker'.pc = "decided" => active \in cancelled /\ worker'.decision = "abort"
  <2>1. CASE active \in cancelled
    BY <2>1, <1>1 DEF Gate, Worker, WorkerPc, Decision
  <2>2. CASE active \notin cancelled
    BY <2>2, <1>1 DEF Gate, Worker, WorkerPc
  <2> QED
    BY <2>1, <2>2
<1>4. EventsTypeOK'
  BY <1>1, <1>2, <1>3 DEF DaemonInv, EventsTypeOK, Within, Bytes
<1>5. JournalInv' /\ Journals
  BY <1>1, <1>2, <1>3, <1>4, JournalStill
<1>6. DecisionInv'
  BY <1>1, <1>2, <1>3, DecisionStill DEF Asking, DecisionIsTheReply
<1> QED
  BY <1>1, <1>2, <1>3, <1>4, <1>5, <1>6 DEF DaemonInv, WorkerMove, WaitMove, Asking

\* A wake-up goes back to the top.
LEMMA WakeStep ==
  ASSUME DaemonInv, Wake
  PROVE  DaemonInv' /\ WaitMove
<1>1. worker.pc = "wait" /\ worker \in Worker /\ active \in Turn /\ active # None
  BY TurnsBefore DEF Wake, DaemonInv, EventsTypeOK
<1>2. UNCHANGED <<events, next_sequence, active, cancelled, pending_approvals, approvals, published, answered>>
  BY DEF Wake, execution, history
<1>3. /\ worker' \in Worker /\ worker'.pc = "gate" /\ worker'.unasked = worker.unasked
      /\ worker'.call = worker.call
  BY <1>1 DEF Wake, Worker, WorkerPc
<1>4. EventsTypeOK'
  BY <1>1, <1>2, <1>3 DEF DaemonInv, EventsTypeOK, Within, Bytes
<1>5. JournalInv' /\ Journals
  BY <1>1, <1>2, <1>3, <1>4, JournalStill
<1>6. DecisionInv'
  BY <1>1, <1>2, <1>3, DecisionStill DEF Asking, DecisionIsTheReply
<1> QED
  BY <1>1, <1>2, <1>3, <1>4, <1>5, <1>6 DEF DaemonInv, WorkerMove, WaitMove, Asking

\* The reply that is taken is the only one.
LEMMA PeekStep ==
  ASSUME DaemonInv, Peek
  PROVE  DaemonInv' /\ WaitMove
<1> DEFINE replies == {a \in approvals : a.turn = active /\ a.call = worker.call}
<1>1. worker.pc = "peek" /\ worker \in Worker /\ active \in Turn /\ active # None
  BY TurnsBefore DEF Peek, DaemonInv, EventsTypeOK
<1>2. UNCHANGED <<events, next_sequence, active, cancelled, pending_approvals, published, answered>>
  BY DEF Peek, history
<1>3. /\ worker' \in Worker /\ worker'.pc \in {"decided", "wait"} /\ worker'.unasked = worker.unasked
      /\ worker'.call = worker.call /\ approvals' \subseteq approvals
      /\ worker'.pc = "decided" => \E a \in replies : worker'.decision = a.decision
  <2>1. CASE replies = {}
    BY <2>1, <1>1 DEF Peek, Worker, WorkerPc
  <2>2. CASE replies # {}
    <3>1. PICK a \in replies : /\ worker' = [worker EXCEPT !.pc = "decided", !.decision = a.decision]
                               /\ approvals' = approvals \ {a}
      BY <2>2 DEF Peek
    <3>2. a.decision \in Decision
      BY <3>1 DEF DaemonInv, EventsTypeOK
    <3> QED
      BY <3>1, <3>2, <1>1 DEF Worker, WorkerPc
  <2> QED
    BY <2>1, <2>2
<1>4. EventsTypeOK'
  BY <1>1, <1>2, <1>3 DEF DaemonInv, EventsTypeOK, Within, Bytes
<1>5. JournalInv' /\ Journals
  BY <1>1, <1>2, <1>3, <1>4, JournalStill
<1>6. DecisionIsTheReply'
  <2>1. ASSUME worker'.pc = "decided"
        PROVE  {a \in answered : a.turn = active /\ a.call = worker.call}
                 = {[turn |-> active, call |-> worker.call, decision |-> worker'.decision]}
    <3>1. PICK a \in replies : worker'.decision = a.decision
      BY <2>1, <1>3
    <3>2. a \in answered /\ a \in [turn: Turn, call: Call, decision: Decision]
          /\ a.turn = active /\ a.call = worker.call
      BY <3>1 DEF DaemonInv, DecisionInv, EventsTypeOK
    <3>3. a = [turn |-> active, call |-> worker.call, decision |-> worker'.decision]
      BY <3>1, <3>2
    <3>4. \A b \in answered : b.call = worker.call => b = a
      BY <3>2 DEF DaemonInv, DecisionInv
    <3> QED
      BY <3>2, <3>3, <3>4
  <2> QED
    BY <2>1, <1>2, <1>3 DEF DecisionIsTheReply
<1>7. DecisionInv'
  BY <1>1, <1>2, <1>3, <1>6 DEF DaemonInv, DecisionInv, Asking
<1> QED
  BY <1>1, <1>2, <1>3, <1>4, <1>5, <1>7 DEF DaemonInv, WorkerMove, WaitMove, Asking

\* What a reply or a cancellation does to the rest.
ReplyMove ==
  /\ Journals /\ UNCHANGED <<events, next_sequence, published, active>>
  /\ worker'.pc = worker.pc /\ worker'.call = worker.call
  /\ pending_approvals' \subseteq pending_approvals

\* approve() takes the request away and keeps its only answer.
LEMMA ApproveStep ==
  ASSUME DaemonInv, NEW t, NEW c, NEW d \in Decision, approve(t, c, d)
  PROVE  /\ DaemonInv' /\ ReplyMove
         /\ \A p \in pending_approvals' : p.call # c
<1> DEFINE p0 == [turn |-> t, call |-> c]
           a0 == [turn |-> t, call |-> c, decision |-> d]
<1>1. p0 \in pending_approvals /\ active = t /\ t \in Turn /\ c \in Call
  BY DEF approve, Awaited, DaemonInv, EventsTypeOK
<1>2. /\ UNCHANGED <<events, next_sequence, active, cancelled, published>>
      /\ pending_approvals' = pending_approvals \ {p0}
      /\ approvals' = approvals \cup {a0} /\ answered' = answered \cup {a0}
  BY DEF approve
<1>3. /\ worker' \in Worker /\ worker'.pc = worker.pc /\ worker'.unasked = worker.unasked
      /\ worker'.call = worker.call /\ worker'.decision = worker.decision
  <2>1. PICK b \in BOOLEAN : worker' = [worker EXCEPT !.woken = b]
    BY DEF approve, DaemonInv, EventsTypeOK, Worker
  <2> QED
    BY <2>1 DEF DaemonInv, EventsTypeOK, Worker
<1>4. a0 \in [turn: Turn, call: Call, decision: Decision] /\ a0.turn = t /\ a0.call = c
  BY <1>1
<1>5. EventsTypeOK'
  BY <1>2, <1>3, <1>4 DEF DaemonInv, EventsTypeOK, Within, Bytes
<1>6. JournalInv' /\ Journals
  BY <1>2, <1>3, <1>5, JournalStill
<1>7. c \notin worker.unasked /\ \A a \in answered : a.call # c
  BY <1>1 DEF DaemonInv, DecisionInv
<1>8. \A p \in pending_approvals' : p.call # c /\ p \in pending_approvals
  <2>1. ASSUME NEW p \in pending_approvals, p.call = c PROVE p = p0
    <3>1. p \in [turn: Turn, call: Call] /\ p.turn = active
      BY DEF DaemonInv, DecisionInv, EventsTypeOK
    <3> QED
      BY <3>1, <2>1, <1>1
  <2> QED
    BY <2>1, <1>2
<1> HIDE DEF a0, p0
<1>9. DecisionIsTheReply'
  <2>1. ASSUME worker.pc = "decided" PROVE DecisionIsTheReply'
    <3>1. CASE worker.call = c
      <4>1. {a \in answered : a.turn = active /\ a.call = worker.call} = {}
        BY <3>1, <1>7
      <4>2. worker.decision = "abort" /\ active \in cancelled
        BY <4>1, <2>1 DEF DaemonInv, DecisionInv, DecisionIsTheReply
      <4> QED
        BY <4>2, <1>2, <1>3 DEF DecisionIsTheReply
    <3>2. CASE worker.call # c
      <4>1. {a \in answered' : a.turn = active /\ a.call = worker.call}
              = {a \in answered : a.turn = active /\ a.call = worker.call}
        BY <3>2, <1>2, <1>4
      <4> QED
        BY <4>1, <1>2, <1>3, <2>1 DEF DaemonInv, DecisionInv, DecisionIsTheReply
    <3> QED
      BY <3>1, <3>2
  <2> QED
    BY <2>1, <1>3 DEF DecisionIsTheReply
<1>10. DecisionInv'
  <2>1. \A a, b \in answered' : a.call = b.call => a = b
    BY <1>2, <1>4, <1>7 DEF DaemonInv, DecisionInv
  <2>2. \A a \in answered' : a.turn = active' /\ a.call \notin worker'.unasked
    BY <1>1, <1>2, <1>3, <1>4, <1>7 DEF DaemonInv, DecisionInv
  <2>3. \A p \in pending_approvals', a \in answered' : p.call # a.call
    BY <1>2, <1>4, <1>8 DEF DaemonInv, DecisionInv
  <2>4. \A p \in pending_approvals' : p.turn = active' /\ p.call \notin worker'.unasked
    BY <1>2, <1>3, <1>8 DEF DaemonInv, DecisionInv
  <2>5. approvals' \subseteq answered'
    BY <1>2 DEF DaemonInv, DecisionInv
  <2> QED
    BY <2>1, <2>2, <2>3, <2>4, <2>5, <1>3, <1>9 DEF DaemonInv, DecisionInv
<1> QED
  BY <1>2, <1>3, <1>5, <1>6, <1>8, <1>10 DEF DaemonInv, ReplyMove

\* cancel() overrides decisions that are still to be acted on.
LEMMA CancelStep ==
  ASSUME DaemonInv, active # None, cancel(active)
  PROVE  DaemonInv' /\ ReplyMove
<1>1. /\ UNCHANGED <<events, next_sequence, active, pending_approvals, approvals, worker, published, answered>>
      /\ cancelled' = cancelled \cup {active} /\ active \in Turn
  BY DEF cancel, history, DaemonInv, EventsTypeOK
<1>2. EventsTypeOK'
  BY <1>1 DEF DaemonInv, EventsTypeOK, Within, Bytes
<1>3. JournalInv' /\ Journals
  BY <1>1, <1>2, JournalStill
<1>4. DecisionInv'
  BY <1>1 DEF DaemonInv, DecisionInv, DecisionIsTheReply
<1> QED
  BY <1>1, <1>2, <1>3, <1>4 DEF DaemonInv, ReplyMove

\* A new turn is reserved in a session that has nothing unfinished.
LEMMA SubmitStep ==
  ASSUME DaemonInv, submit
  PROVE  /\ DaemonInv' /\ Journals /\ UNCHANGED <<events, published>>
         /\ active = None /\ active' \in Turn /\ worker'.pc = "submitted"
         /\ \A j \in DOMAIN published : published[j].turn < active'
<1> DEFINE N == Len(published)
<1>1. /\ UNCHANGED <<events, next_sequence, cancelled, published, answered>>
      /\ active = None /\ active' = NewTurn /\ NewTurn \in Turn
      /\ approvals' = {} /\ pending_approvals' = {}
  BY DEF submit, history
<1>2. worker' \in Worker /\ worker'.pc = "submitted" /\ worker'.unasked = Call
  <2>1. NoWorker \in Worker /\ MaxOutput \in 0..MaxOutput
    BY JournalAssumption DEF NoWorker, Worker, WorkerPc
  <2> QED
    BY <2>1 DEF submit, Worker, WorkerPc
<1>3. EventsTypeOK'
  BY <1>1, <1>2 DEF DaemonInv, EventsTypeOK, Within, Bytes
<1>4. Journals /\ Retained' /\ Ordered'
  BY <1>1, <1>3, StillGrows
<1>5. worker.pc = "none" /\ active' # None
  BY <1>1, JournalAssumption DEF DaemonInv, JournalInv, Latest, Turn
<1>6. answered = {}
  <2>1. \A a \in answered : a.turn = active /\ a.turn \in Turn
    BY DEF DaemonInv, DecisionInv, EventsTypeOK
  <2> QED
    BY <2>1, <1>1, JournalAssumption DEF Turn
<1>7. DecisionInv'
  BY <1>1, <1>2, <1>6 DEF DecisionInv, DecisionIsTheReply
<1>8. /\ \A j \in DOMAIN published : published[j].turn \in Nat
      /\ \A j \in DOMAIN published : published[j].turn < active'
  <2>1. N \in Nat /\ DOMAIN published = 1..N
    BY DEF DaemonInv, EventsTypeOK
  <2>2. \A j \in DOMAIN published : published[j].turn \in Nat
    BY PublishedTyped DEF DaemonInv
  <2>3. ASSUME NEW j \in DOMAIN published PROVE published[j].turn <= published[N].turn /\ published # <<>>
    <3>1. published # <<>> /\ N \in DOMAIN published
      BY <2>1, <2>3
    <3>2. j = N \/ j < N
      BY <2>1, <2>3
    <3> QED
      BY <3>1, <3>2, <2>2 DEF DaemonInv, JournalInv, Ordered
  <2>4. ASSUME NEW j \in DOMAIN published PROVE published[j].turn < active'
    <3>1. N \in DOMAIN published /\ active' = published[N].turn + 1
      BY <2>1, <2>3, <2>4, <1>1 DEF NewTurn
    <3> QED
      BY <3>1, <2>2, <2>3, <2>4
  <2> QED
    BY <2>2, <2>4
<1>9. Latest'
  <2>1. \A k \in DOMAIN published : published[k].turn # active
    BY <1>1, <1>8, JournalAssumption
  <2>2. \A k \in DOMAIN published :
          \E j \in DOMAIN published : published[j].turn = published[k].turn /\ published[j].over
    BY <2>1 DEF DaemonInv, JournalInv, Latest
  <2>3. ~Running' /\ ~Running
    BY <1>1, <1>2 DEF Running
  <2>4. NewTurn' = NewTurn
    BY <1>1 DEF NewTurn
  <2> QED
    BY <2>2, <2>3, <2>4, <1>1, <1>2, <1>5 DEF DaemonInv, JournalInv, Latest
<1> QED
  BY <1>1, <1>2, <1>3, <1>4, <1>7, <1>8, <1>9 DEF DaemonInv, JournalInv

-----------------------------------------------------------------------------
(* Composition: a step of the worker, and steps of one client.             *)

\* A step of the worker and the clients: they do not move.
LEMMA WorkerFrame ==
  ASSUME FollowInv, DaemonInv', WorkerMove, UNCHANGED <<owner, ctl, run>>, AskedIsLast'
  PROVE  FollowInv'
<1>1. ctl \in [Controller -> Ctl] /\ run \in [Headless -> Run]
  BY DEF FollowInv, FollowTypeOK
<1>2. Journals /\ active # None /\ active' \in {None, active}
  BY DEF WorkerMove
<1>3. ASSUME NEW i \in Controller PROVE CtlInv(ctl[i])'
  <2>1. PICK k \in Ctl : k = ctl[i] /\ CtlInv(k)
    BY <1>1 DEF FollowInv
  <2>2. CtlInv(k)'
    BY <2>1, <1>2, CtlStable
  <2> QED
    BY <2>1, <2>2 DEF CtlInv, Reads
<1>4. ASSUME NEW h \in Headless PROVE RunInv(run[h])'
  <2>1. PICK k \in Run : k = run[h] /\ RunInv(k)
    BY <1>1 DEF FollowInv
  <2>2. RunInv(k)'
    BY <2>1, RunStable DEF WorkerMove
  <2> QED
    BY <2>1, <2>2 DEF RunInv, Reads, Started
<1>5. OwnerInv'
  BY DEF FollowInv, OwnerInv
<1>6. FollowTypeOK'
  BY DEF FollowInv, FollowTypeOK, DaemonInv, Client
<1> QED
  BY <1>3, <1>4, <1>5, <1>6 DEF FollowInv, DaemonInv

\* While one client is attached, or none is, the others are away.
LEMMA OthersAway ==
  ASSUME FollowInv
  PROVE  /\ \A i \in Controller : owner \in {i, None} =>
              /\ \A j \in Controller : j # i => ctl[j].pc = "away"
              /\ \A h \in Headless : run[h].pc = "none"
         /\ \A h \in Headless : owner \in {h, None} =>
              /\ \A j \in Controller : ctl[j].pc = "away"
              /\ \A g \in Headless : g # h => run[g].pc = "none"
BY ClientAssumption DEF FollowInv, OwnerInv

\* A step of one controller.
LEMMA CtlFrame ==
  ASSUME FollowInv, DaemonInv', Journals, NEW i \in Controller, NEW k \in Ctl,
         ctl' \in [Controller -> Ctl], ctl'[i] = k, \A j \in Controller : j # i => ctl'[j] = ctl[j],
         run' = run, owner \in {i, None}, owner' \in {i, None}, owner' = None => k.pc = "away",
         CtlInv(k)', AskedIsLast'
  PROVE  FollowInv'
<1>1. ctl \in [Controller -> Ctl] /\ run \in [Headless -> Run]
  BY DEF FollowInv, FollowTypeOK
<1>2. /\ \A j \in Controller : j # i => ctl[j].pc = "away"
      /\ \A h \in Headless : run[h].pc = "none"
  BY OthersAway
<1>3. ASSUME NEW j \in Controller PROVE CtlInv(ctl[j])'
  <2>1. CASE j = i
    BY <2>1 DEF CtlInv, Reads
  <2>2. CASE j # i
    <3>1. PICK m \in Ctl : m = ctl[j] /\ CtlInv(m)
      BY <1>1 DEF FollowInv
    <3>2. m = ctl'[j] /\ m.pc = "away"
      BY <2>2, <3>1, <1>2
    <3>3. CtlInv(m)'
      BY <3>1, <3>2, CtlStable
    <3> QED
      BY <3>2, <3>3 DEF CtlInv, Reads
  <2> QED
    BY <2>1, <2>2
<1>4. ASSUME NEW h \in Headless PROVE RunInv(run[h])'
  <2>1. PICK m \in Run : m = run[h] /\ RunInv(m) /\ m.pc = "none"
    BY <1>1, <1>2 DEF FollowInv
  <2>2. RunInv(m)'
    BY <2>1, RunStable
  <2> QED
    BY <2>1, <2>2 DEF RunInv, Reads, Started
<1>5. OwnerInv'
  BY <1>2 DEF OwnerInv
<1>6. FollowTypeOK'
  BY DEF FollowInv, FollowTypeOK, DaemonInv, Client
<1> QED
  BY <1>3, <1>4, <1>5, <1>6 DEF FollowInv, DaemonInv

\* A step of one run.
LEMMA RunFrame ==
  ASSUME FollowInv, DaemonInv', Journals, NEW h \in Headless, NEW k \in Run,
         run' \in [Headless -> Run], run'[h] = k, \A g \in Headless : g # h => run'[g] = run[g],
         ctl' = ctl, owner \in {h, None}, owner' \in {h, None}, owner' = None => k.pc = "none",
         RunInv(k)', AskedIsLast'
  PROVE  FollowInv'
<1>1. ctl \in [Controller -> Ctl] /\ run \in [Headless -> Run]
  BY DEF FollowInv, FollowTypeOK
<1>2. /\ \A j \in Controller : ctl[j].pc = "away"
      /\ \A g \in Headless : g # h => run[g].pc = "none"
  BY OthersAway
<1>3. ASSUME NEW j \in Controller PROVE CtlInv(ctl[j])'
  <2>1. PICK m \in Ctl : m = ctl[j] /\ CtlInv(m) /\ m.pc = "away"
    BY <1>1, <1>2 DEF FollowInv
  <2>2. CtlInv(m)'
    BY <2>1, CtlStable
  <2> QED
    BY <2>1, <2>2 DEF CtlInv, Reads
<1>4. ASSUME NEW g \in Headless PROVE RunInv(run[g])'
  <2>1. CASE g = h
    BY <2>1 DEF RunInv, Reads, Started
  <2>2. CASE g # h
    <3>1. PICK m \in Run : m = run[g] /\ RunInv(m)
      BY <1>1 DEF FollowInv
    <3>2. m = run'[g] /\ m.pc = "none"
      BY <2>2, <3>1, <1>2
    <3>3. RunInv(m)'
      BY <3>1, <3>2, RunStable
    <3> QED
      BY <3>2, <3>3 DEF RunInv, Reads, Started
  <2> QED
    BY <2>1, <2>2
<1>5. OwnerInv'
  BY <1>2 DEF OwnerInv
<1>6. FollowTypeOK'
  BY DEF FollowInv, FollowTypeOK, DaemonInv, Client
<1> QED
  BY <1>3, <1>4, <1>5, <1>6 DEF FollowInv, DaemonInv

\* The worker's steps keep the invariant.
LEMMA DaemonStepKeeps ==
  ASSUME FollowInv, DaemonStep
  PROVE  FollowInv'
<1>1. DaemonInv /\ UNCHANGED <<owner, ctl, run>> /\ WorkerStep
  BY DEF FollowInv, FollowTypeOK, DaemonInv, DaemonStep
<1>2. ASSUME DaemonInv', WorkerMove, worker'.pc \notin {"gate", "peek", "wait"} PROVE FollowInv'
  BY <1>1, <1>2, WorkerFrame DEF AskedIsLast, Unanswered
<1>3. ASSUME DaemonInv', WaitMove PROVE FollowInv'
  <2>1. AskedIsLast'
    BY <1>1, <1>3 DEF WaitMove, FollowInv, AskedIsLast, Unanswered
  <2> QED
    BY <2>1, <1>1, <1>3, WorkerFrame DEF WaitMove
<1>4. CASE WorkerAnnounces
  <2>1. /\ DaemonInv' /\ WorkerMove /\ Len(published') = Len(published) + 1
        /\ events' # <<>> /\ events'[Len(events')].kind = "request"
        /\ events'[Len(events')].call = worker'.call
    BY <1>1, <1>4, WorkerAnnouncesStep
  <2>2. \A i \in Controller : ctl'[i].cursor # None => ctl'[i].cursor < Len(published')
    <3>1. Len(published) \in Nat
      BY DEF FollowInv, FollowTypeOK, EventsTypeOK
    <3>2. ASSUME NEW i \in Controller, ctl[i].cursor # None
          PROVE  ctl[i].cursor < Len(published) + 1
      <4>1. ctl[i] \in Ctl /\ CtlInv(ctl[i])
        BY DEF FollowInv, FollowTypeOK
      <4>2. ctl[i].cursor \in Nat
        BY <4>1, <3>2 DEF Ctl
      <4> QED
        BY <4>1, <4>2, <3>1, <3>2 DEF CtlInv
    <3> QED
      BY <3>2, <2>1, <1>1
  <2>3. AskedIsLast'
    BY <2>1, <2>2 DEF AskedIsLast
  <2> QED
    BY <2>1, <2>3, <1>1, WorkerFrame
<1>5. CASE TurnStarts
  <2>1. worker'.pc = "run"
    BY <1>5, <1>1 DEF TurnStarts, DaemonInv, EventsTypeOK, Worker
  <2> QED
    BY <2>1, <1>1, <1>2, <1>5, TurnStartsStep
<1>6. CASE SubmitRefused
  <2>1. worker'.pc = "none"
    BY <1>6 DEF SubmitRefused, NoWorker
  <2> QED
    BY <2>1, <1>1, <1>2, <1>6, RefusedTurn
<1>7. ASSUME NEW recorded \in BOOLEAN, WorkerEmits(recorded) PROVE FollowInv'
  <2>1. worker'.pc = "run"
    BY <1>7, <1>1 DEF WorkerEmits, Audited, DaemonInv, EventsTypeOK, Worker
  <2> QED
    BY <2>1, <1>1, <1>2, <1>7, WorkerEmitsStep
<1>8. ASSUME NEW recorded \in BOOLEAN, WorkerDecides(recorded) PROVE FollowInv'
  BY <1>1, <1>2, <1>8, WorkerDecidesStep DEF Asking
<1>9. ASSUME NEW c \in Call, WorkerAsks(c) PROVE FollowInv'
  BY <1>1, <1>2, <1>9, WorkerAsksStep
<1>10. CASE Gate
  BY <1>1, <1>3, <1>10, GateStep
<1>11. CASE Peek
  BY <1>1, <1>3, <1>11, PeekStep
<1>12. CASE Wake
  BY <1>1, <1>3, <1>12, WakeStep
<1>13. CASE WorkerAborts
  BY <1>1, <1>2, <1>13, WorkerAbortsStep DEF Asking
<1>14. ASSUME NEW persisted \in BOOLEAN, NEW failed \in BOOLEAN, Conclude(persisted, failed)
       PROVE  FollowInv'
  <2>1. worker'.pc = "none"
    BY <1>14 DEF Conclude, NoWorker
  <2> QED
    BY <2>1, <1>1, <1>2, <1>14, ConcludedTurn
<1> QED
  BY <1>1, <1>4, <1>5, <1>6, <1>7, <1>8, <1>9, <1>10, <1>11, <1>12, <1>13, <1>14 DEF WorkerStep

\* A step that leaves the daemon alone.
LEMMA QuietDaemon ==
  ASSUME FollowInv, UNCHANGED daemon
  PROVE  DaemonInv' /\ ReplyMove
<1>1. DaemonInv
  BY DEF FollowInv, FollowTypeOK, DaemonInv
<1>2. UNCHANGED <<events, next_sequence, active, cancelled, pending_approvals, approvals, worker,
                  published, answered>>
  BY DEF daemon, execution, history
<1>3. EventsTypeOK'
  BY <1>1, <1>2 DEF DaemonInv, EventsTypeOK, Within, Bytes
<1>4. JournalInv' /\ Journals
  BY <1>1, <1>2, <1>3, JournalStill
<1>5. DecisionInv'
  BY <1>1, <1>2 DEF DaemonInv, DecisionInv, DecisionIsTheReply
<1> QED
  BY <1>2, <1>3, <1>4, <1>5 DEF DaemonInv, ReplyMove

\* The request that is not answered stays ahead of a controller that does not
\* move past it.
LEMMA AskedKept ==
  ASSUME FollowInv, ReplyMove, NEW i \in Controller, \A j \in Controller : j # i => ctl'[j] = ctl[j],
         \/ ctl'[i].cursor \in {ctl[i].cursor, None}
         \/ Unanswered' => ctl'[i].cursor < Len(published)
  PROVE  AskedIsLast'
<1>1. Unanswered' => Unanswered
  BY DEF Unanswered, ReplyMove
<1> QED
  BY <1>1 DEF FollowInv, AskedIsLast, ReplyMove

\* A step of a controller that at most replies or cancels.
LEMMA CtlMoves ==
  ASSUME FollowInv, DaemonInv', ReplyMove, NEW i \in Controller,
         ctl' \in [Controller -> Ctl], \A j \in Controller : j # i => ctl'[j] = ctl[j],
         run' = run, owner \in {i, None}, owner' \in {i, None}, owner' = None => ctl'[i].pc = "away",
         CtlInv(ctl'[i]),
         \/ ctl'[i].cursor \in {ctl[i].cursor, None}
         \/ Unanswered' => ctl'[i].cursor < Len(published)
  PROVE  FollowInv'
<1>1. AskedIsLast'
  BY AskedKept
<1>2. PICK k \in Ctl : k = ctl'[i]
  OBVIOUS
<1>3. CtlInv(k)
  BY <1>2
<1>4. Journals /\ active' = active /\ published' = published
  BY DEF ReplyMove
<1>5. CtlInv(k)'
  BY <1>3, <1>4, CtlStable
<1> QED
  BY <1>1, <1>2, <1>4, <1>5, CtlFrame

-----------------------------------------------------------------------------
(* The controllers.                                                        *)

\* What the invariant says of one controller.
LEMMA CtlHere ==
  ASSUME FollowInv, NEW i \in Controller
  PROVE  /\ ctl \in [Controller -> Ctl] /\ ctl[i] \in Ctl /\ CtlInv(ctl[i]) /\ DaemonInv
         /\ ctl[i].pc # "away" => owner = i
         /\ active \in Turn \cup {None}
         /\ Len(published) \in Nat /\ Len(events) \in Nat /\ Base \in Nat
         /\ Base + Len(events) = Len(published) /\ next_sequence = Len(published) + 1
<1>1. EventsTypeOK /\ Retained
  BY DEF FollowInv, FollowTypeOK, JournalInv
<1>2. ctl \in [Controller -> Ctl] /\ ctl[i] \in Ctl /\ CtlInv(ctl[i]) /\ DaemonInv
  BY DEF FollowInv, FollowTypeOK, DaemonInv
<1> QED
  BY <1>1, <1>2, JournalNumbers DEF FollowInv, OwnerInv, EventsTypeOK

\* An event that is retained has its number.
LEMMA FirstRetained ==
  ASSUME FollowInv, events # <<>>
  PROVE  Head(events).sequence = Base + 1 /\ Base < Len(published)
<1>1. EventsTypeOK /\ Retained
  BY DEF FollowInv, FollowTypeOK, JournalInv
<1>2. events \in Seq(Event) /\ Head(events) = events[1] /\ 1 \in DOMAIN events /\ Len(events) # 0
  BY <1>1 DEF EventsTypeOK
<1> QED
  BY <1>1, <1>2, JournalNumbers DEF Retained

\* The steps of a controller, one by one.
LEMMA AttachStep ==
  ASSUME FollowInv, NEW i \in Controller, NEW redraw \in BOOLEAN, Attach(i, redraw)
  PROVE  FollowInv'
<1>0. ctl[i] \in Ctl /\ ctl \in [Controller -> Ctl] /\ active \in Turn \cup {None} /\ CtlInv(ctl[i])
      /\ (ctl[i].pc # "away" => owner = i)
  BY CtlHere
<1>1. /\ ctl' \in [Controller -> Ctl] /\ \A j \in Controller : j # i => ctl'[j] = ctl[j]
      /\ ctl'[i].pc = "attached" /\ ctl'[i].cursor = ctl[i].cursor /\ ctl'[i].gone = ctl[i].gone
      /\ ctl'[i].missed = ctl[i].missed /\ ctl[i].pc = "away"
  BY <1>0 DEF Attach, Ctl, CtlPc
<1>2. CtlInv(ctl'[i])
  BY <1>0, <1>1 DEF CtlInv
<1>3. owner = None /\ owner' = i /\ i # None /\ UNCHANGED <<daemon, run>>
  BY ClientAssumption DEF Attach
<1>4. DaemonInv' /\ ReplyMove
  BY <1>3, QuietDaemon
<1> QED
  BY <1>1, <1>2, <1>3, <1>4, CtlMoves

\* A cursor begins before the retained events of a live turn, or at the end.
LEMMA EnsureCursorStep ==
  ASSUME FollowInv, NEW i \in Controller, EnsureCursor(i)
  PROVE  FollowInv'
<1>0. ctl[i] \in Ctl /\ ctl \in [Controller -> Ctl] /\ active \in Turn \cup {None} /\ CtlInv(ctl[i])
      /\ (ctl[i].pc # "away" => owner = i)
  BY CtlHere
<1>1. InitialCursor \in Nat /\ InitialCursor <= Len(published)
  BY CtlHere, FirstRetained DEF InitialCursor
<1>2. /\ ctl' \in [Controller -> Ctl] /\ \A j \in Controller : j # i => ctl'[j] = ctl[j]
      /\ ctl'[i].pc = "resume" /\ ctl'[i].gone = ctl[i].gone
      /\ ctl'[i].cursor = IF ctl[i].cursor = None THEN InitialCursor ELSE ctl[i].cursor
      /\ ctl'[i].missed = ctl[i].missed /\ ctl[i].pc = "attached"
  <2> HIDE DEF InitialCursor
  <2> QED
    BY <1>0, <1>1 DEF EnsureCursor, Ctl, CtlPc
<1>3. CtlInv(ctl'[i])
  BY <1>1, <1>2, CtlHere, JournalAssumption DEF CtlInv
<1>4. Unanswered => InitialCursor < Len(published)
  <2>1. Unanswered => active # None /\ events # <<>>
    BY DEF Unanswered, FollowInv, AskedIsLast, JournalInv, Latest
  <2> QED
    BY <2>1, CtlHere, FirstRetained DEF InitialCursor
<1>5. Unanswered' => Unanswered
  BY DEF EnsureCursor, Unanswered, daemon, execution
<1>6. owner = i /\ owner' = i /\ i # None /\ UNCHANGED <<daemon, run>>
  BY <1>0, <1>2, ClientAssumption DEF EnsureCursor
<1>7. DaemonInv' /\ ReplyMove
  BY <1>6, QuietDaemon
<1>8. \/ ctl'[i].cursor \in {ctl[i].cursor, None}
      \/ Unanswered' => ctl'[i].cursor < Len(published)
  BY <1>2, <1>4, <1>5
<1> QED
  BY <1>2, <1>3, <1>6, <1>7, <1>8, CtlMoves

\* The prompt is reached: there is no batch any more.
LEMMA ToPrompt ==
  ASSUME FollowInv, NEW i \in Controller, UNCHANGED <<owner, run>>, DaemonInv', ReplyMove,
         ctl[i].pc # "away", ctl' \in [Controller -> Ctl], \A j \in Controller : j # i => ctl'[j] = ctl[j],
         ctl'[i].pc \notin {"away", "attached", "handle"}, ctl'[i].gone = ctl[i].gone,
         ctl'[i].cursor = ctl[i].cursor, ctl[i].cursor # None,
         \/ ctl'[i].missed = None
         \/ ctl'[i].missed = ctl[i].missed /\ ctl'[i].pc = "prompt"
  PROVE  FollowInv'
<1>0. ctl[i] \in Ctl /\ ctl \in [Controller -> Ctl] /\ active \in Turn \cup {None} /\ CtlInv(ctl[i])
      /\ (ctl[i].pc # "away" => owner = i)
  BY CtlHere
<1>1. CtlInv(ctl'[i])
  BY <1>0 DEF CtlInv
<1>2. owner = i /\ owner' = i /\ i # None
  BY <1>0, ClientAssumption
<1> QED
  BY <1>1, <1>2, CtlMoves

\* A refused reply and the escape give up the batch.
LEMMA RequestRefusedStep ==
  ASSUME FollowInv, NEW i \in Controller, RequestRefused(i) \/ FocusPrompt(i)
  PROVE  FollowInv'
<1>0. ctl[i] \in Ctl /\ ctl \in [Controller -> Ctl] /\ active \in Turn \cup {None} /\ CtlInv(ctl[i])
      /\ (ctl[i].pc # "away" => owner = i)
  BY CtlHere
<1>1. ctl[i].pc \in {"follow", "handle"} /\ UNCHANGED <<daemon, owner, run>>
      /\ ctl' = [ctl EXCEPT ![i].pc = "prompt", ![i].batch = <<>>]
  BY DEF RequestRefused, FocusPrompt, AtFocusPoint
<1>2. /\ ctl' \in [Controller -> Ctl] /\ \A j \in Controller : j # i => ctl'[j] = ctl[j]
      /\ ctl'[i].pc = "prompt" /\ ctl'[i].gone = ctl[i].gone /\ ctl'[i].cursor = ctl[i].cursor
      /\ ctl'[i].missed = ctl[i].missed
  <2>1. <<>> \in Seq(Event)
    OBVIOUS
  <2> QED
    BY <1>0, <1>1, <2>1 DEF Ctl, CtlPc
<1>3. ctl[i].cursor # None
  BY <1>0, <1>1 DEF CtlInv
<1>4. DaemonInv' /\ ReplyMove
  BY <1>1, QuietDaemon
<1> QED
  BY <1>1, <1>2, <1>3, <1>4, ToPrompt

\* The steps at the prompt that leave the daemon alone.
LEMMA PromptSteps ==
  ASSUME FollowInv, NEW i \in Controller,
         TerminateIdle(i) \/ TakeFinishedTurn(i) \/ ResumeCommand(i) \/ CtlAccepted(i) \/ CtlRefused(i)
  PROVE  FollowInv'
<1>0. ctl[i] \in Ctl /\ ctl \in [Controller -> Ctl] /\ active \in Turn \cup {None} /\ CtlInv(ctl[i])
  BY CtlHere
<1>1. /\ ctl[i].pc \in {"follow", "prompt", "submitting"} /\ UNCHANGED <<daemon, owner, run>>
      /\ \A j \in Controller : j # i => ctl'[j] = ctl[j]
      /\ ctl' \in [Controller -> Ctl]
      /\ ctl'[i].gone = ctl[i].gone /\ ctl'[i].cursor = ctl[i].cursor
      /\ ctl'[i].pc \in {"prompt", "resume"}
      /\ \/ ctl'[i].missed = None
         \/ ctl'[i].missed = ctl[i].missed /\ ctl'[i].pc = "prompt"
  <2>1. CASE TerminateIdle(i)
    BY <2>1, <1>0 DEF TerminateIdle, Ctl, CtlPc
  <2>2. CASE TakeFinishedTurn(i)
    BY <2>2, <1>0 DEF TakeFinishedTurn, Ctl
  <2>3. CASE ResumeCommand(i)
    BY <2>3, <1>0 DEF ResumeCommand, Ctl, CtlPc
  <2>4. CASE CtlAccepted(i)
    <3>1. ctl[i].missed = None
      BY <2>4, <1>0 DEF CtlAccepted, CtlInv
    <3> QED
      BY <2>4, <3>1, <1>0 DEF CtlAccepted, Ctl, CtlPc
  <2>5. CASE CtlRefused(i)
    BY <2>5, <1>0 DEF CtlRefused, Ctl, CtlPc
  <2> QED
    BY <2>1, <2>2, <2>3, <2>4, <2>5
<1>2. ctl[i].cursor # None
  BY <1>0, <1>1 DEF CtlInv
<1>3. DaemonInv' /\ ReplyMove
  BY <1>1, QuietDaemon
<1> QED
  BY <1>1, <1>2, <1>3, ToPrompt

\* stop_current_activity()
LEMMA TerminateStep ==
  ASSUME FollowInv, NEW i \in Controller, Terminate(i)
  PROVE  FollowInv'
<1>0. ctl[i] \in Ctl /\ ctl \in [Controller -> Ctl] /\ CtlInv(ctl[i]) /\ DaemonInv
  BY CtlHere
<1>1. /\ ctl[i].pc \in {"follow", "prompt"} /\ UNCHANGED <<owner, run>>
      /\ \A j \in Controller : j # i => ctl'[j] = ctl[j]
      /\ ctl' \in [Controller -> Ctl] /\ ctl'[i].pc = ctl[i].pc
      /\ ctl'[i].gone = ctl[i].gone /\ ctl'[i].cursor = ctl[i].cursor
      /\ ctl'[i].missed = ctl[i].missed
  BY <1>0 DEF Terminate, Ctl
<1>2. ctl[i].cursor # None /\ ctl[i].missed = None
  BY <1>0, <1>1 DEF CtlInv, Terminate
<1>3. DaemonInv' /\ ReplyMove
  BY <1>0, CancelStep DEF Terminate
<1> QED
  BY <1>1, <1>2, <1>3, ToPrompt

\* A client that leaves keeps its cursor, or forgets it with the process.
LEMMA LeaveStep ==
  ASSUME FollowInv, NEW i \in Controller, Leave(i)
  PROVE  FollowInv'
<1>0. ctl[i] \in Ctl /\ ctl \in [Controller -> Ctl] /\ CtlInv(ctl[i])
  BY CtlHere
<1>1. ctl[i].pc # "away" /\ owner' = None /\ UNCHANGED <<daemon, run>>
  BY DEF Leave, AtFocusPoint
<1>2. PICK cursor \in {ctl[i].cursor, None} :
        ctl' = [ctl EXCEPT ![i] = [NoCtl EXCEPT !.cursor = cursor,
                                     !.gone = IF cursor = None THEN 0 ELSE ctl[i].gone]]
  BY DEF Leave
<1>3. NoCtl \in Ctl /\ NoCtl.pc = "away" /\ NoCtl.missed = None
  <2>1. <<>> \in Seq(Event)
    OBVIOUS
  <2> QED
    BY <2>1 DEF NoCtl, Ctl, CtlPc
<1>4. cursor \in Nat \cup {None} /\ ctl[i].gone \in Nat
  BY <1>0, <1>2 DEF Ctl
<1>5. /\ ctl' \in [Controller -> Ctl] /\ \A j \in Controller : j # i => ctl'[j] = ctl[j]
      /\ ctl'[i].pc = "away" /\ ctl'[i].missed = None /\ ctl'[i].cursor = cursor
      /\ ctl'[i].gone = IF cursor = None THEN 0 ELSE ctl[i].gone
  BY <1>0, <1>2, <1>3, <1>4 DEF Ctl
<1>6. CtlInv(ctl'[i])
  BY <1>0, <1>2, <1>4, <1>5, CtlHere DEF CtlInv
<1>7. owner = i /\ DaemonInv' /\ ReplyMove
  BY <1>1, CtlHere, QuietDaemon
<1> QED
  BY <1>1, <1>2, <1>5, <1>6, <1>7, CtlMoves

\* What a redraw shows and passes over: only what belongs to finished turns or is
\* lost, and never a request that waits for an answer.
LEMMA BacklogEnd ==
  ASSUME FollowInv, NEW c \in Nat, c <= Len(published)
  PROVE  LET e == backlog_end(c) IN
         /\ e \in Nat /\ c <= e /\ e <= Len(published)
         /\ Unanswered => e = c \/ e < Len(published)
         /\ \A k \in (c + 1)..e :
              \/ k <= Base
              \/ \E j \in DOMAIN published : published[j].turn = published[k].turn /\ published[j].over
<1> DEFINE N == Len(published)
           e == backlog_end(c)
           Over(k) == \E j \in DOMAIN published :
                        published[j].turn = published[k].turn /\ published[j].over
           live == {k \in DOMAIN events : events[k].turn = active}
<1>1. /\ EventsTypeOK /\ Retained /\ N \in Nat /\ Len(events) \in Nat /\ Base \in Nat
      /\ Base + Len(events) = N /\ next_sequence = N + 1
      /\ DOMAIN events = 1..Len(events) /\ DOMAIN published = 1..N
      /\ \A k \in 1..Len(events) : events[k].sequence = Base + k /\ events[k].turn = published[Base + k].turn
  <2>1. EventsTypeOK /\ Retained
    BY DEF FollowInv, FollowTypeOK, JournalInv
  <2> QED
    BY <2>1, JournalNumbers DEF Retained
<1>2. \A k \in 1..N : published[k].turn # active => Over(k)
  BY <1>1 DEF FollowInv, JournalInv, Latest
<1>3. CASE active = None
  <2>1. e = N /\ ~Unanswered
    BY <1>1, <1>3 DEF backlog_end, FollowInv, JournalInv, Latest, Unanswered
  <2>2. \A k \in 1..N : Over(k)
    BY <1>1, <1>2, <1>3, PublishedTyped, JournalAssumption
  <2> HIDE DEF e, Over
  <2>3. \A k \in (c + 1)..e : Over(k)
    BY <2>1, <2>2, <1>1
  <2> QED
    BY <2>1, <2>3, <1>1 DEF e, Over
<1>4. CASE active # None /\ live = {}
  <2>1. e = c
    BY <1>4 DEF backlog_end
  <2> HIDE DEF e, Over
  <2> QED
    BY <2>1 DEF e
<1>5. CASE active # None /\ live # {}
  <2>1. \E m \in live : \A j \in live : m <= j
    <3>1. live \subseteq Nat
      BY <1>1
    <3> QED
      BY <3>1, <1>5, LeastNat
  <2>2. PICK first \in live : /\ \A j \in live : first <= j
                              /\ e = IF events[first].sequence - 1 > c THEN events[first].sequence - 1 ELSE c
    BY <2>1, <1>5 DEF backlog_end
  <2>3. first \in 1..Len(events) /\ events[first].sequence = Base + first
    BY <2>2, <1>1
  <2>4. e = IF Base + first - 1 > c THEN Base + first - 1 ELSE c
    <3>1. PICK x \in Nat : x = events[first].sequence /\ x = Base + first
      BY <2>3, <1>1
    <3> HIDE DEF e
    <3>2. e = IF x - 1 > c THEN x - 1 ELSE c
      BY <2>2, <3>1
    <3> QED
      BY <3>1, <3>2, <1>1, <2>3
  <2>5. Base + first - 1 \in Nat /\ Base + first - 1 < N
    BY <2>3, <1>1
  <2>6. ASSUME NEW k \in (c + 1)..e, ~(k <= Base) PROVE Over(k)
    <3>1. k \in 1..N /\ k - Base \in 1..Len(events) /\ k - Base < first /\ Base + (k - Base) = k
      <4> HIDE DEF e, N
      <4> QED
        BY <2>3, <2>4, <2>5, <2>6, <1>1
    <3>2. k - Base \notin live
      BY <3>1, <2>2, <2>3
    <3>3. published[k].turn # active
      BY <3>1, <3>2, <1>1
    <3> QED
      BY <3>1, <3>3, <1>2
  <2> HIDE DEF e, Over
  <2>7. e \in Nat /\ c <= e /\ e <= Len(published) /\ (e = c \/ e < Len(published))
    BY <2>4, <2>5, <1>1
  <2> QED
    BY <2>6, <2>7 DEF e, Over
<1> QED
  BY <1>3, <1>4, <1>5

\* A redraw stays behind a request that is not answered.
LEMMA ResumeStep ==
  ASSUME FollowInv, NEW i \in Controller, NEW fits \in BOOLEAN, Resume(i, fits)
  PROVE  FollowInv'
<1>0. /\ ctl[i] \in Ctl /\ ctl \in [Controller -> Ctl] /\ CtlInv(ctl[i]) /\ owner = i /\ i # None
      /\ Len(published) \in Nat /\ Base \in Nat /\ ctl[i].pc = "resume"
  BY CtlHere, ClientAssumption DEF Resume
<1>1. /\ ctl[i].cursor \in Nat /\ ctl[i].cursor <= Len(published) /\ ctl[i].gone \in Nat
      /\ ctl[i].gone <= Base + 1 /\ ctl[i].missed = None
  BY <1>0 DEF Ctl, CtlInv
<1>2. PICK e \in Nat : /\ e = backlog_end(ctl[i].cursor) /\ ctl[i].cursor <= e /\ e <= Len(published)
                       /\ Unanswered => e = ctl[i].cursor \/ e < Len(published)
  BY <1>1, BacklogEnd
<1>3. PICK t \in Nat : t = truncated_before(0) /\ t <= Base + 1
  BY <1>0, FirstRetained DEF truncated_before
<1>4. PICK g \in Nat : /\ g <= Base + 1
                       /\ ctl' = [ctl EXCEPT ![i].redraw = FALSE,
                            ![i].cursor = IF ctl[i].redraw /\ e > ctl[i].cursor THEN e ELSE ctl[i].cursor,
                            ![i].gone = g,
                            ![i].pc = IF ctl[i].cached # None THEN "follow" ELSE "prompt"]
  <2> DEFINE g0 == IF ~ctl[i].redraw THEN ctl[i].gone
                   ELSE IF (t # 0 /\ (fits \/ ~ \E k \in DOMAIN events : events[k].sequence <= e)) /\ t > e + 1
                     THEN t ELSE 0
  <2>1. g0 \in Nat /\ g0 <= Base + 1
    BY <1>0, <1>1, <1>3
  <2>2. ctl' = [ctl EXCEPT ![i].redraw = FALSE,
                  ![i].cursor = IF ctl[i].redraw /\ e > ctl[i].cursor THEN e ELSE ctl[i].cursor,
                  ![i].gone = g0,
                  ![i].pc = IF ctl[i].cached # None THEN "follow" ELSE "prompt"]
    BY <1>0, <1>2, <1>3 DEF Resume
  <2> HIDE DEF g0
  <2> QED
    BY <2>1, <2>2
<1>5. /\ ctl' \in [Controller -> Ctl] /\ \A j \in Controller : j # i => ctl'[j] = ctl[j]
      /\ ctl'[i].pc \in {"follow", "prompt"} /\ ctl'[i].gone = g /\ ctl'[i].missed = None
      /\ ctl'[i].cursor = IF ctl[i].redraw /\ e > ctl[i].cursor THEN e ELSE ctl[i].cursor
  BY <1>0, <1>1, <1>2, <1>4 DEF Ctl, CtlPc
<1>6. CtlInv(ctl'[i])
  BY <1>1, <1>2, <1>4, <1>5, JournalAssumption DEF CtlInv
<1>7. DaemonInv' /\ ReplyMove /\ run' = run /\ owner' = i
  BY <1>0, QuietDaemon DEF Resume
<1>8. Unanswered' => Unanswered
  BY DEF Resume, Unanswered, daemon, execution
<1>9. \/ ctl'[i].cursor \in {ctl[i].cursor, None}
      \/ Unanswered' => ctl'[i].cursor < Len(published)
  BY <1>2, <1>5, <1>8
<1> QED
  BY <1>0, <1>5, <1>6, <1>7, <1>9, CtlMoves

\* A poll fetches what follows the cursor; without an active turn it finds all read.
LEMMA PollStep ==
  ASSUME FollowInv, NEW i \in Controller, Poll(i)
  PROVE  FollowInv'
<1>0. /\ ctl[i] \in Ctl /\ ctl \in [Controller -> Ctl] /\ CtlInv(ctl[i]) /\ owner = i /\ i # None
      /\ Len(published) \in Nat /\ Base \in Nat /\ ctl[i].pc = "follow"
  BY CtlHere, ClientAssumption DEF Poll
<1>1. /\ ctl[i].cursor \in Nat /\ ctl[i].cursor <= Len(published) /\ ctl[i].gone \in Nat
      /\ ctl[i].gone <= Base + 1 /\ ctl[i].missed = None
  BY <1>0 DEF Ctl, CtlInv
<1>2. EventsTypeOK /\ Retained /\ Latest
  BY DEF FollowInv, FollowTypeOK, JournalInv
<1>3. DaemonInv' /\ ReplyMove /\ run' = run /\ owner' = i
  BY <1>0, QuietDaemon DEF Poll
<1> DEFINE b == After(ctl[i].cursor)
           g == Truncation(ctl[i].gone, ctl[i].cursor)
<1>4. CASE b = <<>>
  <2>1. active = None /\ ctl' = [ctl EXCEPT ![i].pc = "prompt", ![i].missed = ctl[i].cached]
    BY <1>4 DEF Poll
  <2>2. ctl[i].cursor = Len(published)
    <3>1. events = <<>> \/ ctl[i].cursor = Len(published)
      BY <1>1, <1>2, <1>4, AfterIs
    <3>2. events = <<>> => published = <<>>
      BY <2>1, <1>2 DEF Latest, Running
    <3> QED
      BY <3>1, <3>2, <1>1
  <2>3. /\ ctl' \in [Controller -> Ctl] /\ \A j \in Controller : j # i => ctl'[j] = ctl[j]
        /\ ctl'[i].pc = "prompt" /\ ctl'[i].gone = ctl[i].gone /\ ctl'[i].cursor = ctl[i].cursor
    BY <1>0, <2>1 DEF Ctl, CtlPc
  <2>4. CtlInv(ctl'[i])
    BY <1>1, <2>1, <2>2, <2>3, JournalAssumption DEF CtlInv
  <2> QED
    BY <1>0, <1>3, <2>3, <2>4, CtlMoves
<1>5. CASE b # <<>>
  <2>1. ctl' = [ctl EXCEPT ![i].pc = "handle", ![i].batch = b, ![i].gone = g]
    BY <1>5 DEF Poll
  <2>2. Reads(b, ctl[i].cursor, g) /\ g \in Nat /\ g <= Base + 1
    BY <1>1, <1>2, <1>5, FetchedReads
  <2>3. b \in Seq(Event)
    BY <1>1, <1>2, AfterIs
  <2> HIDE DEF b, g
  <2>4. /\ ctl' \in [Controller -> Ctl] /\ \A j \in Controller : j # i => ctl'[j] = ctl[j]
        /\ ctl'[i].pc = "handle" /\ ctl'[i].gone = g /\ ctl'[i].cursor = ctl[i].cursor
        /\ ctl'[i].batch = b /\ ctl'[i].missed = None
    BY <1>0, <1>1, <2>1, <2>2, <2>3 DEF Ctl, CtlPc
  <2>5. CtlInv(ctl'[i])
    BY <1>1, <2>2, <2>4, JournalAssumption DEF CtlInv
  <2> QED
    BY <1>0, <1>3, <2>4, <2>5, CtlMoves
<1> QED
  BY <1>4, <1>5

\* The next event of a batch, and the batch without it.
LEMMA NextOfBatch ==
  ASSUME FollowInv, NEW b \in Seq(Event), NEW p \in Nat, NEW g \in Nat, Reads(b, p, g)
  PROVE  /\ Head(b) = b[1] /\ Head(b) \in Event
         /\ Head(b).sequence = IF g > p + 1 THEN g ELSE p + 1
         /\ Head(b).sequence \in Nat /\ Head(b).sequence > p /\ Head(b).sequence <= Len(published)
         /\ Head(b).turn = published[Head(b).sequence].turn
         /\ Head(b).kind \in Terminal <=> published[Head(b).sequence].over
         /\ Head(b).sequence > Base => Head(b) = events[Head(b).sequence - Base]
         /\ Tail(b) \in Seq(Event)
         /\ Tail(b) # <<>> => Reads(Tail(b), Head(b).sequence, 0)
<1>1. /\ b # <<>> /\ b[1].sequence = IF g > p + 1 THEN g ELSE p + 1
      /\ \A k \in DOMAIN b :
           /\ b[k].sequence = b[1].sequence + k - 1
           /\ b[k].sequence <= Len(published)
           /\ b[k].turn = published[b[k].sequence].turn
           /\ b[k].kind \in Terminal <=> published[b[k].sequence].over
           /\ b[k].sequence > Base => b[k] = events[b[k].sequence - Base]
  BY DEF Reads
<1>2. Head(b) = b[1] /\ 1 \in DOMAIN b /\ Head(b) \in Event /\ Tail(b) \in Seq(Event)
      /\ Len(Tail(b)) = Len(b) - 1 /\ Len(b) \in Nat \ {0}
  BY <1>1
<1>3. b[1].sequence \in Nat /\ b[1].sequence > p
  BY <1>1
<1>4. ASSUME Tail(b) # <<>> PROVE Reads(Tail(b), Head(b).sequence, 0)
  <2>1. \A k \in 1..(Len(b) - 1) : Tail(b)[k] = b[k + 1] /\ k + 1 \in DOMAIN b
    BY <1>1, <1>2
  <2>2. 1 \in 1..(Len(b) - 1) /\ DOMAIN Tail(b) = 1..(Len(b) - 1)
    BY <1>2, <1>4
  <2>3. Tail(b)[1].sequence = b[1].sequence + 1
    BY <2>1, <2>2, <1>1, <1>3
  <2>4. Tail(b)[1].sequence = IF 0 > Head(b).sequence + 1 THEN 0 ELSE Head(b).sequence + 1
    <3>1. PICK x \in Nat : x = b[1].sequence /\ x = Head(b).sequence
      BY <1>2, <1>3
    <3>2. ~(0 > x + 1)
      BY <3>1
    <3>3. Tail(b)[1].sequence = x + 1
      BY <3>1, <2>3, Zenon
    <3>4. Tail(b)[1].sequence = IF 0 > x + 1 THEN 0 ELSE x + 1
      BY <3>2, <3>3, Zenon
    <3> QED
      BY <3>1, <3>4, Zenon
  <2>5. ASSUME NEW k \in DOMAIN Tail(b)
        PROVE  LET q == Tail(b)[k].sequence IN
               /\ q = Tail(b)[1].sequence + k - 1
               /\ q <= Len(published)
               /\ Tail(b)[k].turn = published[q].turn
               /\ Tail(b)[k].kind \in Terminal <=> published[q].over
               /\ q > Base => Tail(b)[k] = events[q - Base]
    <3>1. k \in Nat /\ Tail(b)[k] = b[k + 1] /\ k + 1 \in DOMAIN b
      BY <2>1, <2>2
    <3>2. b[k + 1].sequence = b[1].sequence + (k + 1) - 1
      BY <3>1, <1>1
    <3>3. b[k + 1].sequence = Tail(b)[1].sequence + k - 1
      BY <3>1, <3>2, <2>3, <1>3
    <3> QED
      BY <3>1, <3>3, <1>1
  <2> QED
    BY <2>4, <2>5, <1>4 DEF Reads
<1> QED
  BY <1>1, <1>2, <1>3, <1>4

\* acknowledge_event
LEMMA AcknowledgedIs ==
  ASSUME FollowInv, NEW i \in Controller, ctl[i].pc = "handle"
  PROVE  LET k == Acknowledged(ctl[i])
             q == Head(ctl[i].batch).sequence
         IN /\ k \in Ctl /\ k.cursor = q /\ k.gone = 0 /\ k.missed = None
            /\ k.pc \in {"follow", "handle"}
            /\ CtlInv(k)
            /\ q \in Nat /\ q <= Len(published)
            /\ q > Base => Head(ctl[i].batch) = events[q - Base]
<1> DEFINE k0 == ctl[i]
           b == k0.batch
           q == Head(b).sequence
           k == Acknowledged(k0)
<1>0. ctl[i] \in Ctl /\ CtlInv(ctl[i]) /\ Base \in Nat /\ Len(published) \in Nat
  BY CtlHere
<1>1. /\ k0.cursor \in Nat /\ k0.gone \in Nat /\ b \in Seq(Event) /\ Reads(b, k0.cursor, k0.gone)
      /\ k0.missed = None
  BY <1>0 DEF Ctl, CtlInv
<1>2. /\ q \in Nat /\ q > k0.cursor /\ q <= Len(published)
      /\ q > Base => Head(b) = events[q - Base]
      /\ Tail(b) \in Seq(Event) /\ (Tail(b) # <<>> => Reads(Tail(b), q, 0))
  <2> HIDE DEF b, k0
  <2> QED
    BY <1>1, NextOfBatch
<1>3. /\ k \in Ctl /\ k.cursor = q /\ k.gone = 0 /\ k.missed = k0.missed /\ k.batch = Tail(b)
      /\ k.pc = IF Tail(b) = <<>> THEN "follow" ELSE "handle"
  <2>1. k = [k0 EXCEPT !.cursor = q, !.batch = Tail(b), !.gone = 0,
                       !.pc = IF Tail(b) = <<>> THEN "follow" ELSE "handle"]
    BY <1>2 DEF Acknowledged
  <2> HIDE DEF k, q
  <2> QED
    BY <2>1, <1>0, <1>2 DEF Ctl, CtlPc
<1> HIDE DEF k, q, b
<1>4. CtlInv(k)
  BY <1>0, <1>1, <1>2, <1>3, JournalAssumption DEF CtlInv
<1> QED
  BY <1>1, <1>2, <1>3, <1>4 DEF k, q, b

\* An unanswered request is the event with the last number.
LEMMA UnansweredEvent ==
  ASSUME FollowInv, Unanswered
  PROVE  LET e == events[Len(published) - Base] IN
         Base < Len(published) /\ e.kind = "request" /\ e.call = worker.call
<1>1. events # <<>> /\ events[Len(events)].kind = "request" /\ events[Len(events)].call = worker.call
  BY DEF FollowInv, AskedIsLast
<1>2. Len(published) - Base = Len(events)
  <2>1. EventsTypeOK /\ Retained
    BY DEF FollowInv, FollowTypeOK, JournalInv
  <2> QED
    BY <2>1, JournalNumbers
<1> QED
  BY <1>1, <1>2, FirstRetained

\* What is drawn and acknowledged is no unanswered request.
LEMMA HandleOutputStep ==
  ASSUME FollowInv, NEW i \in Controller, HandleOutput(i)
  PROVE  FollowInv'
<1> DEFINE k == Acknowledged(ctl[i])
           q == Head(ctl[i].batch).sequence
<1>0. /\ ctl \in [Controller -> Ctl] /\ owner = i /\ i # None /\ ctl[i].pc = "handle" /\ Base \in Nat
      /\ Len(published) \in Nat
  BY CtlHere, ClientAssumption DEF HandleOutput
<1>1. /\ k \in Ctl /\ k.cursor = q /\ k.pc \in {"follow", "handle"} /\ CtlInv(k)
      /\ q \in Nat /\ q <= Len(published) /\ (q > Base => Head(ctl[i].batch) = events[q - Base])
  BY <1>0, AcknowledgedIs
<1>2. ctl' = [ctl EXCEPT ![i] = k]
  BY DEF HandleOutput
<1>3. DaemonInv' /\ ReplyMove /\ run' = run /\ owner' = i
  BY <1>0, QuietDaemon DEF HandleOutput
<1> HIDE DEF k
<1>4. /\ ctl' \in [Controller -> Ctl] /\ ctl'[i] = k
      /\ \A j \in Controller : j # i => ctl'[j] = ctl[j]
  BY <1>0, <1>1, <1>2
<1>5. Unanswered' => Unanswered
  BY DEF HandleOutput, Unanswered, daemon, execution
<1>6. Unanswered => q < Len(published)
  <2>1. ASSUME Unanswered, q = Len(published) PROVE FALSE
    <3>1. Base < Len(published) /\ events[Len(published) - Base].kind = "request"
      BY <2>1, UnansweredEvent
    <3>2. Head(ctl[i].batch).kind = "request"
      BY <3>1, <2>1, <1>0, <1>1
    <3> QED
      BY <3>2 DEF HandleOutput
  <2> QED
    BY <2>1, <1>0, <1>1
<1> HIDE DEF q
<1> QED
  BY <1>0, <1>1, <1>3, <1>4, <1>5, <1>6, CtlMoves

\* The end of a turn, with nothing asked.
LEMMA HandleTerminalStep ==
  ASSUME FollowInv, NEW i \in Controller, HandleTerminal(i)
  PROVE  FollowInv'
<1> DEFINE a == Acknowledged(ctl[i])
           q == Head(ctl[i].batch).sequence
<1>0. /\ ctl \in [Controller -> Ctl] /\ owner = i /\ i # None /\ ctl[i].pc = "handle" /\ Base \in Nat
      /\ Len(published) \in Nat /\ active \in Turn \cup {None}
  BY CtlHere, ClientAssumption DEF HandleTerminal
<1>1. /\ a \in Ctl /\ a.cursor = q /\ a.pc \in {"follow", "handle"} /\ CtlInv(a)
      /\ q \in Nat /\ q <= Len(published) /\ (q > Base => Head(ctl[i].batch) = events[q - Base])
      /\ a.missed = None
  BY <1>0, AcknowledgedIs
<1>2. PICK t \in Turn \cup {None} :
        ctl' = [ctl EXCEPT ![i] = [a EXCEPT !.pc = "prompt", !.batch = <<>>, !.cached = t]]
  BY <1>0 DEF HandleTerminal
<1>3. DaemonInv' /\ ReplyMove /\ run' = run /\ owner' = i
  BY <1>0, QuietDaemon DEF HandleTerminal
<1> HIDE DEF a
<1> DEFINE k == [a EXCEPT !.pc = "prompt", !.batch = <<>>, !.cached = t]
<1>4. k \in Ctl /\ k.cursor = q /\ k.pc = "prompt" /\ k.gone = a.gone /\ k.missed = None
  <2>1. <<>> \in Seq(Event)
    OBVIOUS
  <2> QED
    BY <2>1, <1>1, <1>2 DEF Ctl, CtlPc
<1>5. ctl' = [ctl EXCEPT ![i] = k]
  BY <1>2
<1> HIDE DEF k
<1>6. /\ ctl' \in [Controller -> Ctl] /\ ctl'[i] = k
      /\ \A j \in Controller : j # i => ctl'[j] = ctl[j]
  BY <1>0, <1>4, <1>5
<1>7. CtlInv(k)
  BY <1>1, <1>4 DEF CtlInv
<1>8. Unanswered' => Unanswered
  BY DEF HandleTerminal, Unanswered, daemon, execution
<1>9. Unanswered => q < Len(published)
  <2>1. ASSUME Unanswered, q = Len(published) PROVE FALSE
    <3>1. Base < Len(published) /\ events[Len(published) - Base].kind = "request"
      BY <2>1, UnansweredEvent
    <3>2. Head(ctl[i].batch).kind = "request"
      BY <3>1, <2>1, <1>0, <1>1
    <3> QED
      BY <3>2 DEF HandleTerminal, Terminal
  <2> QED
    BY <2>1, <1>0, <1>1
<1> HIDE DEF q
<1> QED
  BY <1>0, <1>3, <1>4, <1>6, <1>7, <1>8, <1>9, CtlMoves

\* A request is passed only with its answer.
LEMMA HandleRequestStep ==
  ASSUME FollowInv, NEW i \in Controller, NEW d \in Reply, HandleRequest(i, d)
  PROVE  FollowInv'
<1> DEFINE k == Acknowledged(ctl[i])
           event == Head(ctl[i].batch)
           q == Head(ctl[i].batch).sequence
<1>0. /\ ctl \in [Controller -> Ctl] /\ owner = i /\ i # None /\ ctl[i].pc = "handle" /\ Base \in Nat
      /\ Len(published) \in Nat /\ DaemonInv
  BY CtlHere, ClientAssumption DEF HandleRequest
<1>1. /\ k \in Ctl /\ k.cursor = q /\ k.pc \in {"follow", "handle"} /\ CtlInv(k)
      /\ q \in Nat /\ q <= Len(published) /\ (q > Base => event = events[q - Base])
  BY <1>0, AcknowledgedIs
<1>2. ctl' = [ctl EXCEPT ![i] = k] /\ approve(event.turn, event.call, d) /\ UNCHANGED <<owner, run>>
  BY DEF HandleRequest
<1>3. d \in Decision
  BY JournalAssumption DEF Decision
<1>4. DaemonInv' /\ ReplyMove /\ \A p \in pending_approvals' : p.call # event.call
  <2> HIDE DEF event
  <2> QED
    BY <1>0, <1>2, <1>3, ApproveStep
<1> HIDE DEF k
<1>5. /\ ctl' \in [Controller -> Ctl] /\ ctl'[i] = k
      /\ \A j \in Controller : j # i => ctl'[j] = ctl[j]
  BY <1>0, <1>1, <1>2
<1>6. Unanswered' => Unanswered
  BY <1>4 DEF ReplyMove, Unanswered
<1>7. Unanswered' => q < Len(published)
  <2>1. ASSUME Unanswered', q = Len(published) PROVE FALSE
    <3>1. Base < Len(published) /\ events[Len(published) - Base].call = worker.call
      BY <2>1, <1>6, UnansweredEvent
    <3>2. event.call = worker.call
      BY <3>1, <2>1, <1>0, <1>1
    <3>3. PICK p \in pending_approvals' : p.call = worker'.call
      BY <2>1 DEF Unanswered
    <3> QED
      BY <3>2, <3>3, <1>4 DEF ReplyMove
  <2> QED
    BY <2>1, <1>0, <1>1
<1> HIDE DEF q, event
<1> QED
  BY <1>0, <1>1, <1>2, <1>4, <1>5, <1>7, CtlMoves

\* A controller that submits had read, or had given up, what was before.
LEMMA CtlSubmitStep ==
  ASSUME FollowInv, NEW i \in Controller, CtlSubmit(i)
  PROVE  FollowInv'
<1>0. /\ ctl \in [Controller -> Ctl] /\ ctl[i] \in Ctl /\ CtlInv(ctl[i]) /\ DaemonInv
      /\ owner = i /\ i # None /\ ctl[i].pc = "prompt"
  BY CtlHere, ClientAssumption DEF CtlSubmit
<1>1. /\ DaemonInv' /\ Journals /\ UNCHANGED <<events, published>>
      /\ active' \in Turn /\ worker'.pc = "submitted"
  BY <1>0, SubmitStep DEF CtlSubmit
<1>2. /\ ctl' \in [Controller -> Ctl] /\ \A j \in Controller : j # i => ctl'[j] = ctl[j]
      /\ ctl'[i].pc = "submitting" /\ ctl'[i].cursor = ctl[i].cursor /\ ctl'[i].gone = ctl[i].gone
      /\ ctl'[i].missed = None
  BY <1>0, <1>1 DEF CtlSubmit, Ctl, CtlPc
<1>3. PICK k \in Ctl : k = ctl'[i]
  BY <1>2
<1>4. CtlInv(k)'
  <2>1. Base' = Base /\ Len(published') = Len(published)
    BY <1>1 DEF Base
  <2>2. CtlInv(ctl[i]) /\ ctl[i].cursor # None
    BY <1>0 DEF CtlInv
  <2> QED
    BY <2>1, <2>2, <1>2, <1>3 DEF CtlInv
<1>5. AskedIsLast'
  BY <1>1 DEF AskedIsLast, Unanswered
<1>6. run' = run /\ owner' = i
  BY <1>0 DEF CtlSubmit
<1> QED
  BY <1>0, <1>1, <1>2, <1>3, <1>4, <1>5, <1>6, CtlFrame

\* Every step of a controller keeps the invariant.
LEMMA ControllerKeeps ==
  ASSUME FollowInv, NEW i \in Controller, ControllerStep(i) \/ ControllerChoice(i)
  PROVE  FollowInv'
BY AttachStep, EnsureCursorStep, RequestRefusedStep, PromptSteps, TerminateStep, LeaveStep, ResumeStep,
   PollStep, HandleOutputStep, HandleTerminalStep, HandleRequestStep, CtlSubmitStep
   DEF ControllerStep, ControllerChoice

-----------------------------------------------------------------------------
(* Headless runs.                                                          *)

\* What the invariant says of one run.
LEMMA RunHere ==
  ASSUME FollowInv, NEW h \in Headless
  PROVE  /\ run \in [Headless -> Run] /\ run[h] \in Run /\ RunInv(run[h]) /\ DaemonInv
         /\ run[h].pc # "none" => owner = h
         /\ active \in Turn \cup {None} /\ h # None
         /\ Len(published) \in Nat /\ Len(events) \in Nat /\ Base \in Nat
         /\ Base + Len(events) = Len(published) /\ next_sequence = Len(published) + 1
<1>1. EventsTypeOK /\ Retained
  BY DEF FollowInv, FollowTypeOK, JournalInv
<1>2. run \in [Headless -> Run] /\ run[h] \in Run /\ RunInv(run[h]) /\ DaemonInv
  BY DEF FollowInv, FollowTypeOK, DaemonInv
<1> QED
  BY <1>1, <1>2, JournalNumbers, ClientAssumption DEF FollowInv, OwnerInv, EventsTypeOK

\* A step of a run that at most replies or cancels.
LEMMA RunMoves ==
  ASSUME FollowInv, DaemonInv', ReplyMove, NEW h \in Headless,
         run' \in [Headless -> Run], \A g \in Headless : g # h => run'[g] = run[g],
         ctl' = ctl, owner \in {h, None}, owner' \in {h, None}, owner' = None => run'[h].pc = "none",
         RunInv(run'[h])
  PROVE  FollowInv'
<1>1. AskedIsLast'
  <2>1. Unanswered' => Unanswered
    BY DEF Unanswered, ReplyMove
  <2> QED
    BY <2>1 DEF FollowInv, AskedIsLast, ReplyMove
<1>2. PICK k \in Run : k = run'[h]
  OBVIOUS
<1>3. RunInv(k)
  BY <1>2
<1>4. Journals /\ active' = active /\ published' = published
  BY DEF ReplyMove
<1>5. RunInv(k)'
  BY <1>3, <1>4, RunStable
<1> QED
  BY <1>1, <1>2, <1>4, <1>5, RunFrame

\* One that leaves the daemon alone.
LEMMA RunQuiet ==
  ASSUME FollowInv, UNCHANGED <<daemon, ctl>>, NEW h \in Headless,
         run' \in [Headless -> Run], \A g \in Headless : g # h => run'[g] = run[g],
         \/ run[h].pc # "none" /\ owner' = owner
         \/ owner = None /\ owner' = h
         \/ run[h].pc # "none" /\ owner' = None /\ run'[h].pc = "none",
         RunInv(run'[h])
  PROVE  FollowInv'
<1>1. DaemonInv' /\ ReplyMove
  BY QuietDaemon
<1>2. owner \in {h, None} /\ owner' \in {h, None} /\ (owner' = None => run'[h].pc = "none")
  BY RunHere
<1> QED
  BY <1>1, <1>2, RunMoves

\* The steps of a run before it follows a turn, and its exit.
LEMMA RunStartSteps ==
  ASSUME FollowInv, NEW h \in Headless,
         \/ \E pc \in {"owner", "job"} : RunAttach(h, pc)
         \/ RunCursor(h) \/ RunAccepted(h) \/ RunRefused(h) \/ JobEndsAtOnce(h) \/ RunExits(h)
  PROVE  FollowInv'
<1>0. /\ run \in [Headless -> Run] /\ run[h] \in Run /\ RunInv(run[h])
      /\ Len(published) \in Nat /\ Base \in Nat /\ next_sequence - 1 = Len(published)
      /\ run[h].gone \in Nat /\ run[h].gone <= Base + 1
  BY RunHere DEF Run, RunInv
<1>1. ASSUME NEW pc \in {"owner", "job"}, RunAttach(h, pc) PROVE FollowInv'
  <2>1. /\ run' \in [Headless -> Run] /\ \A g \in Headless : g # h => run'[g] = run[g]
        /\ run'[h].pc = pc /\ run'[h].after = run[h].after /\ run'[h].gone = run[h].gone
        /\ run'[h].told = run[h].told /\ run'[h].outcome = run[h].outcome /\ run[h].pc = "none"
    BY <1>0, <1>1 DEF RunAttach, Run, RunPc
  <2>2. RunInv(run'[h])
    BY <1>0, <2>1 DEF RunInv
  <2> QED
    BY <2>1, <2>2, <1>1, RunQuiet DEF RunAttach
<1>2. CASE RunCursor(h)
  <2>1. /\ run' \in [Headless -> Run] /\ \A g \in Headless : g # h => run'[g] = run[g]
        /\ run'[h].pc = "submit" /\ run'[h].after = Len(published) /\ run'[h].gone = run[h].gone
        /\ run'[h].told = run[h].told /\ run'[h].outcome = run[h].outcome /\ run[h].pc = "owner"
    BY <1>0, <1>2 DEF RunCursor, Run, RunPc
  <2>2. RunInv(run'[h])
    BY <1>0, <2>1, JournalAssumption DEF RunInv
  <2> QED
    BY <2>1, <2>2, <1>2, RunQuiet DEF RunCursor
<1>3. CASE RunAccepted(h)
  <2>1. /\ run' \in [Headless -> Run] /\ \A g \in Headless : g # h => run'[g] = run[g]
        /\ run'[h].pc = "follow" /\ run'[h].after = run[h].after /\ run'[h].gone = run[h].gone
        /\ run'[h].told = run[h].told /\ run'[h].outcome = run[h].outcome
        /\ run'[h].turn = run[h].turn /\ run[h].pc = "submitting"
    BY <1>0, <1>3 DEF RunAccepted, Run, RunPc
  <2>2. RunInv(run'[h])
    BY <1>0, <2>1 DEF RunInv
  <2> QED
    BY <2>1, <2>2, <1>3, RunQuiet DEF RunAccepted
<1>4. ASSUME NEW outcome \in {"failed", "running"}, run[h].pc \in {"submit", "submitting", "job"},
             run' = [run EXCEPT ![h].pc = "done", ![h].outcome = outcome], UNCHANGED <<daemon, owner, ctl>>
      PROVE  FollowInv'
  <2>1. /\ run' \in [Headless -> Run] /\ \A g \in Headless : g # h => run'[g] = run[g]
        /\ run'[h].pc = "done" /\ run'[h].after = run[h].after /\ run'[h].gone = run[h].gone
        /\ run'[h].told = run[h].told /\ run'[h].outcome = outcome
    BY <1>0, <1>4 DEF Run, RunPc, Outcome
  <2>2. RunInv(run'[h])
    BY <1>0, <1>4, <2>1 DEF RunInv
  <2> QED
    BY <2>1, <2>2, <1>4, RunQuiet
<1>5. CASE RunRefused(h)
  BY <1>4, <1>5 DEF RunRefused
<1>6. CASE JobEndsAtOnce(h)
  BY <1>4, <1>6 DEF JobEndsAtOnce
<1>7. CASE RunExits(h)
  <2>1. NoRun \in Run /\ RunInv(NoRun)
    <3>1. <<>> \in Seq(Event)
      OBVIOUS
    <3>2. NoRun \in Run
      BY <3>1 DEF NoRun, Run, RunPc
    <3>3. /\ NoRun.after = None /\ NoRun.pc = "none" /\ NoRun.gone = 0 /\ NoRun.told = None
          /\ NoRun.outcome # "unreported"
      BY ClientAssumption DEF NoRun
    <3>4. 0 <= Base + 1
      BY <1>0
    <3>5. PICK k \in Run : k = NoRun
      BY <3>2
    <3>6. RunInv(k)
      BY <3>3, <3>4, <3>5 DEF RunInv
    <3> QED
      BY <3>2, <3>5, <3>6
  <2>2. /\ run' \in [Headless -> Run] /\ \A g \in Headless : g # h => run'[g] = run[g]
        /\ run'[h] = NoRun
    BY <2>1, <1>0, <1>7 DEF RunExits
  <2>3. run'[h].pc = "none"
    BY <2>2 DEF NoRun
  <2>4. RunInv(run'[h])
    BY <2>1, <2>2
  <2> QED
    BY <2>2, <2>3, <2>4, <1>7, RunQuiet DEF RunExits
<1> QED
  BY <1>1, <1>2, <1>3, <1>5, <1>6, <1>7

\* The turn of a run is newer than everything its cursor is behind.
LEMMA RunSubmitStep ==
  ASSUME FollowInv, NEW h \in Headless, RunSubmit(h)
  PROVE  FollowInv'
<1>0. /\ run \in [Headless -> Run] /\ run[h] \in Run /\ RunInv(run[h]) /\ DaemonInv
      /\ Len(published) \in Nat /\ Base \in Nat /\ owner = h /\ h # None /\ run[h].pc = "submit"
  BY RunHere DEF RunSubmit
<1>1. /\ DaemonInv' /\ Journals /\ UNCHANGED <<events, published>>
      /\ active' \in Turn /\ worker'.pc = "submitted"
      /\ \A j \in DOMAIN published : published[j].turn < active'
  BY <1>0, SubmitStep DEF RunSubmit
<1>2. /\ run' \in [Headless -> Run] /\ \A g \in Headless : g # h => run'[g] = run[g]
      /\ run'[h].pc = "submitting" /\ run'[h].after = run[h].after /\ run'[h].gone = run[h].gone
      /\ run'[h].told = run[h].told /\ run'[h].outcome = run[h].outcome /\ run'[h].turn = active'
  BY <1>0, <1>1 DEF RunSubmit, Run, RunPc, Role
<1>3. PICK k \in Run : k = run'[h]
  BY <1>2
<1>4. RunInv(k)'
  <2>1. Base' = Base /\ published' = published
    BY <1>1 DEF Base
  <2>2. active' # None /\ active' \in Nat
    BY <1>1, JournalAssumption DEF Turn
  <2>3. \A j \in DOMAIN published : published[j].turn <= active' /\ published[j].turn # active'
    BY <1>0, <1>1, <2>2, PublishedTyped DEF DaemonInv
  <2> QED
    BY <2>1, <2>2, <2>3, <1>0, <1>2, <1>3 DEF RunInv
<1>5. AskedIsLast'
  BY <1>1 DEF AskedIsLast, Unanswered
<1>6. ctl' = ctl /\ owner' = h
  BY <1>0 DEF RunSubmit
<1> QED
  BY <1>0, <1>1, <1>2, <1>3, <1>4, <1>5, <1>6, RunFrame

\* The turn that wait, result and cancel are about, and where they begin to read:
\* it is the last turn, and its end is not behind the cursor.
LEMMA JobIs ==
  ASSUME FollowInv, JobTurn # None
  PROVE  /\ JobTurn \in Turn /\ active \in {None, JobTurn}
         /\ JobCursor \in Nat /\ Base <= JobCursor /\ JobCursor <= Len(published)
         /\ \A j \in DOMAIN published :
              /\ published[j].turn <= JobTurn
              /\ published[j].turn = JobTurn /\ published[j].over => j > JobCursor
<1> DEFINE of == {k \in DOMAIN events : events[k].turn = JobTurn}
<1>1. DaemonInv /\ EventsTypeOK /\ Retained /\ Ordered /\ Latest
  BY DEF FollowInv, FollowTypeOK, DaemonInv, JournalInv
<1>2. /\ Len(published) \in Nat /\ Len(events) \in Nat /\ Base \in Nat
      /\ Base + Len(events) = Len(published) /\ next_sequence = Len(published) + 1
      /\ DOMAIN events = 1..Len(events) /\ DOMAIN published = 1..Len(published)
  BY <1>1, JournalNumbers
<1>3. ASSUME of # {}
      PROVE  \E f \in of : JobCursor = Base + f - 1 /\ \A k \in of : f <= k
  <2>1. of \subseteq Nat
    BY <1>2
  <2>2. PICK n \in of : \A m \in of : n <= m
    BY <2>1, <1>3, LeastNat
  <2>3. PICK f \in of : /\ \A k \in of : f <= k
                        /\ JobCursor = events[f].sequence - 1
    BY <2>2, <1>3 DEF JobCursor
  <2>4. events[f].sequence = Base + f
    BY <2>3, <1>1 DEF Retained
  <2>5. JobCursor = Base + f - 1
    <3>1. f \in Nat /\ Base \in Nat
      BY <2>1, <2>3, <1>2
    <3> HIDE DEF of
    <3> QED
      BY <2>3, <2>4, <3>1
  <2> QED
    BY <2>3, <2>5, Zenon
<1>4. JobCursor \in Nat /\ Base <= JobCursor /\ JobCursor <= Len(published)
  <2>1. CASE of = {}
    <3>1. JobCursor = next_sequence - 1
      BY <2>1 DEF JobCursor
    <3> QED
      BY <3>1, <1>2
  <2>2. CASE of # {}
    <3>1. PICK f \in of : JobCursor = Base + f - 1
      BY <2>2, <1>3
    <3>2. f \in 1..Len(events)
      BY <3>1, <1>2
    <3> QED
      BY <3>1, <3>2, <1>2
  <2> QED
    BY <2>1, <2>2
<1>5. CASE active # None
  <2>1. JobTurn = active /\ worker.pc # "none"
    BY <1>5, <1>1 DEF JobTurn, Latest
  <2>2. /\ active \in Turn /\ active \in Nat
        /\ \A j \in DOMAIN published :
             /\ published[j].turn \in Nat /\ published[j].turn <= active
             /\ published[j].over => published[j].turn < active
    BY <2>1, <1>1, TurnsBefore
  <2>3. \A j \in DOMAIN published : ~(published[j].turn = active /\ published[j].over)
    BY <2>2
  <2> QED
    BY <1>4, <2>1, <2>2, <2>3
<1>6. CASE active = None
  <2>1. events # <<>> /\ JobTurn = events[Len(events)].turn
    BY <1>6 DEF JobTurn
  <2>2. Len(events) \in 1..Len(events) /\ Len(published) \in 1..Len(published)
    <3>1. Len(events) # 0
      BY <2>1, <1>1 DEF EventsTypeOK
    <3> QED
      BY <3>1, <1>2
  <2>3. JobTurn = published[Len(published)].turn
    BY <2>1, <2>2, <1>1, <1>2 DEF Retained
  <2>4. JobTurn \in Turn /\ JobTurn \in Nat
    BY <2>2, <2>3, <1>1, <1>2, PublishedTyped
  <2>5. JobCursor < Len(published)
    <3>1. Len(events) \in of
      BY <2>1, <2>2, <1>2
    <3>2. PICK f \in of : JobCursor = Base + f - 1 /\ \A k \in of : f <= k
      BY <3>1, <1>3
    <3>3. f <= Len(events) /\ f \in Nat
      BY <3>1, <3>2, <1>2
    <3> QED
      BY <3>2, <3>3, <1>2
  <2>6. ASSUME NEW j \in DOMAIN published
        PROVE  /\ published[j].turn <= JobTurn
               /\ published[j].turn = JobTurn /\ published[j].over => j > JobCursor
    <3>1. CASE j = Len(published)
      BY <3>1, <2>3, <2>4, <2>5, <1>2, <1>4
    <3>2. CASE j # Len(published)
      <4>1. j < Len(published) /\ Len(published) \in DOMAIN published
        BY <3>2, <2>2, <1>2
      <4>2. /\ published[j].turn <= published[Len(published)].turn
            /\ published[j].over => published[j].turn < published[Len(published)].turn
        BY <4>1, <1>1 DEF Ordered
      <4> QED
        BY <4>2, <2>3, <2>4
    <3> QED
      BY <3>1, <3>2
  <2> QED
    BY <1>4, <1>6, <2>4, <2>6
<1> QED
  BY <1>5, <1>6

\* wait and result follow a turn, and cancel does after it has cancelled it.
LEMMA JobSteps ==
  ASSUME FollowInv, NEW h \in Headless, JobStart(h) \/ JobCancel(h)
  PROVE  FollowInv'
<1>0. /\ run \in [Headless -> Run] /\ run[h] \in Run /\ RunInv(run[h]) /\ DaemonInv
      /\ Len(published) \in Nat /\ Base \in Nat /\ h # None
      /\ run[h].pc # "none" => owner = h
  BY RunHere
<1>1. JobTurn # None /\ run[h].pc = "job"
  BY DEF JobStart, JobCancel, JobTurn
<1>2. /\ JobTurn \in Turn /\ active \in {None, JobTurn}
      /\ JobCursor \in Nat /\ Base <= JobCursor /\ JobCursor <= Len(published)
      /\ \A j \in DOMAIN published :
           /\ published[j].turn <= JobTurn
           /\ published[j].turn = JobTurn /\ published[j].over => j > JobCursor
  BY <1>1, JobIs
<1>3. /\ run' \in [Headless -> Run] /\ \A g \in Headless : g # h => run'[g] = run[g]
      /\ run'[h].pc = "follow" /\ run'[h].after = JobCursor /\ run'[h].turn = JobTurn
      /\ run'[h].gone = run[h].gone /\ run'[h].told = run[h].told /\ run'[h].outcome = run[h].outcome
  <2>1. CASE JobStart(h)
    BY <2>1, <1>0, <1>2 DEF JobStart, Run, RunPc, Role
  <2>2. CASE JobCancel(h)
    <3>1. active = JobTurn
      BY <2>2 DEF JobCancel, JobTurn
    <3> QED
      BY <2>2, <3>1, <1>0, <1>2 DEF JobCancel, Run, RunPc, Role
  <2> QED
    BY <2>1, <2>2
<1>4. PICK k \in Run : k = run'[h]
  BY <1>3
<1>5. RunInv(k)
  <2>1. JobCursor # None /\ JobTurn # None
    BY <1>1, <1>2, JournalAssumption
  <2> QED
    BY <1>0, <1>1, <1>2, <1>3, <1>4, <2>1 DEF RunInv
<1>6. DaemonInv' /\ ReplyMove
  <2>1. CASE JobStart(h)
    BY <2>1, QuietDaemon DEF JobStart
  <2>2. CASE JobCancel(h)
    BY <2>2, <1>0, CancelStep DEF JobCancel
  <2> QED
    BY <2>1, <2>2
<1>7. ctl' = ctl /\ owner' = owner /\ owner = h
  BY <1>0, <1>1 DEF JobStart, JobCancel
<1> QED
  BY <1>0, <1>3, <1>4, <1>5, <1>6, <1>7, RunMoves

\* A signal: cancel, stop waiting, or go on.
LEMMA InterruptedStep ==
  ASSUME FollowInv, NEW h \in Headless, Interrupted(h)
  PROVE  FollowInv'
<1>0. /\ run \in [Headless -> Run] /\ run[h] \in Run /\ RunInv(run[h]) /\ DaemonInv
      /\ Len(published) \in Nat /\ Base \in Nat /\ h # None /\ owner = h /\ run[h].pc = "follow"
      /\ run[h].turn # None
  BY RunHere DEF Interrupted, RunInv
<1>1. /\ run' \in [Headless -> Run] /\ \A g \in Headless : g # h => run'[g] = run[g]
      /\ run'[h].after = run[h].after /\ run'[h].turn = run[h].turn
      /\ run'[h].gone = run[h].gone /\ run'[h].told = run[h].told
      /\ \/ run'[h].pc = "follow" /\ run'[h].outcome = run[h].outcome
         \/ run'[h].pc = "done" /\ run'[h].outcome = "running"
  <2>1. CASE run[h].role = "waiter"
    BY <2>1, <1>0 DEF Interrupted, Run, RunPc, Outcome
  <2>2. CASE run[h].role # "waiter"
    BY <2>2, <1>0 DEF Interrupted, Run, RunPc, Outcome
  <2> QED
    BY <2>1, <2>2
<1>2. PICK k \in Run : k = run'[h]
  BY <1>1
<1>3. RunInv(k)
  BY <1>0, <1>1, <1>2 DEF RunInv
<1>4. DaemonInv' /\ ReplyMove
  <2>1. CASE UNCHANGED daemon
    BY <2>1, QuietDaemon
  <2>2. CASE active = run[h].turn /\ cancel(active)
    BY <2>2, <1>0, CancelStep
  <2> QED
    BY <2>1, <2>2 DEF Interrupted
<1>5. ctl' = ctl /\ owner' = owner
  BY DEF Interrupted
<1> QED
  BY <1>0, <1>1, <1>2, <1>3, <1>4, <1>5, RunMoves

\* A run fetches what follows its cursor.
LEMMA RunPollStep ==
  ASSUME FollowInv, NEW h \in Headless, RunPoll(h)
  PROVE  FollowInv'
<1>0. /\ run \in [Headless -> Run] /\ run[h] \in Run /\ RunInv(run[h]) /\ DaemonInv
      /\ Len(published) \in Nat /\ Base \in Nat /\ run[h].pc = "follow"
  BY RunHere DEF RunPoll
<1>1. run[h].after \in Nat /\ run[h].after <= Len(published) /\ run[h].gone \in Nat /\ run[h].gone <= Base + 1
  BY <1>0 DEF RunInv, Run
<1>2. EventsTypeOK /\ Retained
  BY <1>0 DEF DaemonInv, JournalInv
<1>3. After(run[h].after) \in Seq(Event) /\ After(run[h].after) # <<>>
  BY <1>1, <1>2, AfterIs DEF RunPoll
<1>4. /\ Reads(After(run[h].after), run[h].after, Truncation(run[h].gone, run[h].after))
      /\ Truncation(run[h].gone, run[h].after) \in Nat
      /\ Truncation(run[h].gone, run[h].after) <= Base + 1
  BY <1>1, <1>2, <1>3, FetchedReads
<1>5. PICK g \in Nat : g = Truncation(run[h].gone, run[h].after)
  BY <1>4
<1>6. PICK b \in Seq(Event) : b = After(run[h].after)
  BY <1>3
<1>7. run' = [run EXCEPT ![h].pc = "handle", ![h].batch = b, ![h].gone = g]
  BY <1>5, <1>6 DEF RunPoll
<1>8. /\ run' \in [Headless -> Run] /\ \A x \in Headless : x # h => run'[x] = run[x]
      /\ run'[h].pc = "handle" /\ run'[h].batch = b /\ run'[h].gone = g
      /\ run'[h].after = run[h].after /\ run'[h].turn = run[h].turn
      /\ run'[h].told = run[h].told /\ run'[h].outcome = run[h].outcome
  BY <1>0, <1>7 DEF Run, RunPc
<1>9. PICK k \in Run : k = run'[h]
  BY <1>8
<1>10. Reads(k.batch, k.after, k.gone) /\ k.gone <= Base + 1
  BY <1>4, <1>5, <1>6, <1>8, <1>9
<1>11. RunInv(k)
  BY <1>0, <1>1, <1>8, <1>9, <1>10, JournalAssumption DEF RunInv
<1>12. RunInv(run'[h])
  BY <1>9, <1>11
<1> QED
  BY <1>0, <1>8, <1>12, RunQuiet DEF RunPoll

\* A run that waits in vain follows a turn that never had an event: whatever was
\* published of a turn that is over ends with its end.
LEMMA RunTimesOutStep ==
  ASSUME FollowInv, NEW h \in Headless, RunTimesOut(h)
  PROVE  FollowInv'
<1>0. /\ run \in [Headless -> Run] /\ run[h] \in Run /\ RunInv(run[h]) /\ DaemonInv
      /\ Len(published) \in Nat /\ Base \in Nat /\ run[h].pc = "follow"
  BY RunHere DEF RunTimesOut
<1>1. /\ run[h].after \in Nat /\ run[h].after <= Len(published) /\ run[h].told = None
      /\ run[h].turn \in Turn /\ run[h].turn \in Nat /\ active = None
  BY <1>0 DEF RunInv, Run, RunTimesOut, Turn
<1>2. EventsTypeOK /\ Retained /\ Ordered /\ Latest
  BY <1>0 DEF DaemonInv, JournalInv
<1>3. After(run[h].after) = <<>>
  BY DEF RunTimesOut
<1>4. ASSUME NEW j \in DOMAIN published, published[j].turn = run[h].turn PROVE FALSE
  <2>1. DOMAIN published = 1..Len(published) /\ j \in 1..Len(published) /\ Len(published) \in DOMAIN published
    BY <1>0, <1>2, <1>4, JournalNumbers
  <2>2. published # <<>>
    BY <2>1
  <2>3. events # <<>> /\ published[Len(published)].over
    BY <2>2, <1>1, <1>2 DEF Latest, Running
  <2>4. run[h].after = Len(published)
    BY <2>3, <1>1, <1>2, <1>3, AfterIs
  <2>5. published[Len(published)].turn \in Nat /\ published[j].turn \in Nat
    BY <1>2, <2>1, PublishedTyped
  <2>6. published[j].turn <= published[Len(published)].turn
    BY <2>1, <2>5, <1>2, <1>0 DEF Ordered
  <2>7. published[Len(published)].turn <= run[h].turn
    BY <2>1, <1>0 DEF RunInv
  <2>8. published[Len(published)].turn = run[h].turn
    BY <2>5, <2>6, <2>7, <1>1, <1>4
  <2>9. Len(published) > run[h].after
    BY <2>1, <2>3, <2>8, <1>0, <1>1 DEF RunInv
  <2> QED
    BY <2>4, <2>9, <1>0
<1>5. ~Started(run[h].turn)
  BY <1>4 DEF Started
<1>6. /\ run' \in [Headless -> Run] /\ \A g \in Headless : g # h => run'[g] = run[g]
      /\ run'[h].pc = "done" /\ run'[h].outcome = "unreported" /\ run'[h].turn = run[h].turn
      /\ run'[h].after = run[h].after /\ run'[h].gone = run[h].gone /\ run'[h].told = run[h].told
  BY <1>0 DEF RunTimesOut, Run, RunPc, Outcome
<1>7. PICK k \in Run : k = run'[h]
  BY <1>6
<1>8. RunInv(k)
  BY <1>0, <1>1, <1>5, <1>6, <1>7 DEF RunInv
<1>9. RunInv(run'[h])
  BY <1>7, <1>8
<1> QED
  BY <1>0, <1>6, <1>9, RunQuiet DEF RunTimesOut

\* What a run makes of the next event.  The end of its turn is the last event of
\* all, so that no notice can hide it, and it is told of it when it is there.
LEMMA ConsumedIs ==
  ASSUME FollowInv, NEW h \in Headless, run[h].pc = "handle", NEW kind \in Kind,
         kind = IF Mine(h) THEN Head(run[h].batch).kind ELSE "output"
  PROVE  LET k == Consumed(run[h], kind) IN
         /\ k \in Run /\ RunInv(k) /\ k.pc # "none"
         /\ k.after = Head(run[h].batch).sequence /\ k.gone = 0
<1> DEFINE k == Consumed(run[h], kind)
           q == Head(run[h].batch).sequence
           told == IF kind \in Terminal THEN kind ELSE run[h].told
           last == Tail(run[h].batch) = <<>>
           N == Len(published)
<1>0. /\ run[h] \in Run /\ RunInv(run[h]) /\ EventsTypeOK /\ Retained /\ Ordered
      /\ N \in Nat /\ Base \in Nat
  BY RunHere DEF DaemonInv, JournalInv
<1>1. /\ run[h].after \in Nat /\ run[h].gone \in Nat /\ run[h].batch \in Seq(Event)
      /\ Reads(run[h].batch, run[h].after, run[h].gone) /\ run[h].turn \in Turn /\ run[h].turn \in Nat
      /\ run[h].told \in Terminal \cup {None} /\ run[h].outcome # "unreported"
      /\ run[h].outcome \in Outcome \cup {None}
  BY <1>0 DEF RunInv, Run, Turn
<1>2. /\ Head(run[h].batch) \in Event /\ q \in Nat /\ q > run[h].after /\ q <= N
      /\ Head(run[h].batch).turn = published[q].turn
      /\ Head(run[h].batch).kind \in Terminal <=> published[q].over
      /\ Tail(run[h].batch) \in Seq(Event)
      /\ Tail(run[h].batch) # <<>> => Reads(Tail(run[h].batch), q, 0)
  BY <1>1, NextOfBatch
<1>3. told \in Terminal \cup {None} /\ (run[h].told # None => told # None)
      /\ (kind \in Terminal => told # None)
  BY <1>1, ClientAssumption DEF Terminal
<1>4. \A t \in Terminal : OutcomeOf(t) \in Outcome /\ OutcomeOf(t) # "unreported"
  BY DEF OutcomeOf, Terminal, Outcome
<1> HIDE DEF told
<1>5. k = [run[h] EXCEPT !.after = q, !.batch = Tail(@), !.gone = 0,
                         !.told = IF last THEN None ELSE told,
                         !.outcome = IF last /\ told # None THEN OutcomeOf(told) ELSE @,
                         !.pc = IF ~last THEN "handle" ELSE IF told # None THEN "done" ELSE "follow"]
  BY Zenon DEF Consumed, told
<1>6. /\ k \in Run /\ k.after = q /\ k.batch = Tail(run[h].batch) /\ k.gone = 0 /\ k.turn = run[h].turn
      /\ k.told = IF last THEN None ELSE told
      /\ k.outcome = IF last /\ told # None THEN OutcomeOf(told) ELSE run[h].outcome
      /\ k.pc = IF ~last THEN "handle" ELSE IF told # None THEN "done" ELSE "follow"
  <2> HIDE DEF k
  <2>1. PICK o \in Outcome \cup {None} : o = IF last /\ told # None THEN OutcomeOf(told) ELSE run[h].outcome
    BY <1>1, <1>3, <1>4
  <2>2. PICK p \in {"handle", "done", "follow"} :
          p = IF ~last THEN "handle" ELSE IF told # None THEN "done" ELSE "follow"
    OBVIOUS
  <2>3. PICK t \in Terminal \cup {None} : t = IF last THEN None ELSE told
    BY <1>3
  <2>4. k = [run[h] EXCEPT !.after = q, !.batch = Tail(run[h].batch), !.gone = 0, !.told = t, !.outcome = o, !.pc = p]
    BY <1>5, <2>1, <2>2, <2>3
  <2> HIDE DEF q, last
  <2>5. /\ k \in Run /\ k.after = q /\ k.batch = Tail(run[h].batch) /\ k.gone = 0 /\ k.turn = run[h].turn
        /\ k.told = t /\ k.outcome = o /\ k.pc = p
    BY <2>1, <2>2, <2>3, <2>4, <1>0, <1>2 DEF Run, RunPc
  <2> QED
    BY <2>1, <2>2, <2>3, <2>5
<1>7. ASSUME NEW j \in DOMAIN published, published[j].turn = run[h].turn, published[j].over
      PROVE  j > q \/ told # None
  <2>1. DOMAIN published = 1..N /\ j \in 1..N /\ q \in 1..N
    BY <1>0, <1>1, <1>2, <1>7, JournalNumbers
  <2>2. CASE run[h].told # None
    BY <2>2, <1>3
  <2>3. CASE j < q
    <3>1. published[q].turn \in Nat /\ published[q].turn <= run[h].turn
      BY <2>1, <1>0, PublishedTyped DEF RunInv
    <3>2. published[j].turn < published[q].turn
      BY <2>1, <2>3, <1>0, <1>7 DEF Ordered
    <3> QED
      BY <3>1, <3>2, <1>1, <1>7
  <2>4. CASE j = q
    <3>1. Mine(h)
      BY <2>4, <1>2, <1>7 DEF Mine
    <3>2. kind \in Terminal
      BY <3>1, <2>4, <1>2, <1>7
    <3> QED
      BY <3>2, <1>3
  <2> QED
    BY <2>1, <2>3, <2>4
<1> HIDE DEF k
<1>8. k.outcome # "unreported"
  BY <1>1, <1>3, <1>4, <1>6
<1>9. k.pc = "handle" => Reads(k.batch, k.after, k.gone)
  BY <1>2, <1>6
<1>10. k.pc \in {"follow", "handle"} => k.turn # None /\ active \in {None, k.turn}
                                     /\ \A j \in DOMAIN published : published[j].turn <= k.turn
  BY <1>0, <1>6 DEF RunInv
<1>11. k.pc \in {"follow", "handle"} => \A j \in DOMAIN published :
         published[j].turn = k.turn /\ published[j].over => j > k.after \/ k.told # None
  BY <1>6, <1>7
<1>12. k.after # None /\ k.after <= N /\ k.gone <= Base + 1
  <2>1. k.after = q /\ k.gone = 0 /\ q \in Nat /\ q <= N /\ N \in Nat /\ Base \in Nat
    BY <1>0, <1>2, <1>6
  <2>2. q # None /\ 0 <= Base + 1
    BY <2>1, JournalAssumption
  <2> QED
    BY <2>1, <2>2
<1>13. k.pc \in {"handle", "done", "follow"} /\ (k.told # None => k.pc = "handle")
  BY <1>6
<1>14. RunInv(k)
  BY <1>8, <1>9, <1>10, <1>11, <1>12, <1>13 DEF RunInv
<1> QED
  BY <1>6, <1>13, <1>14 DEF k

\* A run handles an event that asks nothing of it.
LEMMA RunHandlesStep ==
  ASSUME FollowInv, NEW h \in Headless, RunHandles(h)
  PROVE  FollowInv'
<1> DEFINE kind == IF Mine(h) THEN Head(run[h].batch).kind ELSE "output"
<1>0. /\ run \in [Headless -> Run] /\ run[h] \in Run /\ RunInv(run[h]) /\ run[h].pc = "handle"
  BY RunHere DEF RunHandles
<1>1. Head(run[h].batch) \in Event
  <2>1. run[h].batch \in Seq(Event) /\ run[h].batch # <<>>
    BY <1>0 DEF RunInv, Run, Reads
  <2> QED
    BY <2>1
<1>2. kind \in Kind
  BY <1>1 DEF Event, Kind
<1>3. Consumed(run[h], kind) \in Run /\ RunInv(Consumed(run[h], kind)) /\ Consumed(run[h], kind).pc # "none"
  BY <1>0, <1>2, ConsumedIs
<1>4. PICK k \in Run : k = Consumed(run[h], kind)
  BY <1>3
<1>5. run' = [run EXCEPT ![h] = k] /\ UNCHANGED <<daemon, owner, ctl>>
  BY <1>4 DEF RunHandles
<1>6. run' \in [Headless -> Run] /\ run'[h] = k /\ \A g \in Headless : g # h => run'[g] = run[g]
  BY <1>0, <1>5
<1>7. RunInv(run'[h])
  BY <1>3, <1>4, <1>6
<1> QED
  BY <1>0, <1>5, <1>6, <1>7, RunQuiet

\* A run answers; a refusal by the daemon changes nothing.
LEMMA RunAnswersStep ==
  ASSUME FollowInv, NEW h \in Headless, NEW line \in Line, RunAnswers(h, line)
  PROVE  FollowInv'
<1>0. /\ run \in [Headless -> Run] /\ run[h] \in Run /\ run[h].pc = "handle" /\ DaemonInv
      /\ owner = h /\ h # None
  BY RunHere DEF RunAnswers
<1>1. Mine(h) /\ Head(run[h].batch).kind = "request"
  BY DEF RunAnswers
<1>2. /\ Consumed(run[h], "request") \in Run /\ RunInv(Consumed(run[h], "request"))
      /\ Consumed(run[h], "request").pc # "none"
  BY <1>0, <1>1, ConsumedIs DEF Kind
<1>3. PICK k \in Run : k = Consumed(run[h], "request")
  BY <1>2
<1>4. run' = [run EXCEPT ![h] = k] /\ UNCHANGED <<owner, ctl>>
  BY <1>3 DEF RunAnswers
<1>5. run' \in [Headless -> Run] /\ run'[h] = k /\ \A g \in Headless : g # h => run'[g] = run[g]
  BY <1>0, <1>4
<1>6. RunInv(run'[h])
  BY <1>2, <1>3, <1>5
<1>7. decide(line, Head(run[h].batch).call) \in Decision
  BY JournalAssumption DEF decide, Line, Decision
<1>8. DaemonInv' /\ ReplyMove
  <2>1. CASE UNCHANGED daemon
    BY <2>1, QuietDaemon
  <2>2. CASE approve(Head(run[h].batch).turn, Head(run[h].batch).call, decide(line, Head(run[h].batch).call))
    BY <2>2, <1>0, <1>7, ApproveStep
  <2> QED
    BY <2>1, <2>2 DEF RunAnswers
<1> QED
  BY <1>0, <1>4, <1>5, <1>6, <1>8, RunMoves

\* Every step of a headless run keeps the invariant.
LEMMA HeadlessKeeps ==
  ASSUME FollowInv, NEW h \in Headless, HeadlessStep(h) \/ HeadlessChoice(h)
  PROVE  FollowInv'
BY RunStartSteps, RunSubmitStep, JobSteps, InterruptedStep, RunPollStep, RunTimesOutStep, RunHandlesStep,
   RunAnswersStep DEF HeadlessStep, HeadlessChoice

-----------------------------------------------------------------------------
(* The invariant and what follows from it.                                 *)

\* An empty journal, and nobody attached.
LEMMA FollowInitially ==
  ASSUME FollowInit
  PROVE  FollowInv
<1>1. /\ events = <<>> /\ published = <<>> /\ next_sequence = 1 /\ active = None /\ worker = NoWorker
      /\ cancelled = {} /\ pending_approvals = {} /\ approvals = {} /\ answered = {} /\ owner = None
      /\ ctl = [i \in Controller |-> NoCtl] /\ run = [h \in Headless |-> NoRun]
  BY DEF FollowInit, EventsInit
<1>2. /\ <<>> \in Seq(Event) /\ <<>> \in Seq([turn: Turn, over: BOOLEAN])
      /\ Len(events) = 0 /\ Len(published) = 0 /\ DOMAIN events = {} /\ DOMAIN published = {} /\ Base = 0
  BY <1>1 DEF Base
<1>3. worker \in Worker /\ worker.pc = "none"
  BY <1>1, JournalAssumption DEF NoWorker, Worker, WorkerPc
<1>4. Within(events)
  BY <1>2, WithinOne
<1>5. EventsTypeOK
  BY <1>1, <1>2, <1>3, <1>4 DEF EventsTypeOK
<1>6. NoCtl \in Ctl /\ NoRun \in Run
  BY <1>2 DEF NoCtl, Ctl, CtlPc, NoRun, Run, RunPc
<1>7. FollowTypeOK
  BY <1>1, <1>5, <1>6 DEF FollowTypeOK
<1>8. JournalInv
  <2>1. Retained /\ Ordered
    BY <1>2 DEF Retained, Ordered
  <2>2. Latest
    BY <1>1, <1>2, <1>3 DEF Latest, Running
  <2> QED
    BY <2>1, <2>2 DEF JournalInv
<1>9. DecisionInv
  BY <1>1, <1>3 DEF DecisionInv, DecisionIsTheReply
<1>10. /\ NoCtl.pc = "away" /\ NoCtl.cursor = None /\ NoCtl.gone = 0 /\ NoCtl.missed = None
       /\ NoRun.after = None /\ NoRun.pc = "none" /\ NoRun.gone = 0 /\ NoRun.told = None
       /\ NoRun.outcome # "unreported"
  BY ClientAssumption DEF NoCtl, NoRun
<1>11. OwnerInv
  BY <1>1, <1>10 DEF OwnerInv
<1>12. PICK c \in Ctl : c = NoCtl
  BY <1>6
<1>13. CtlInv(c)
  BY <1>2, <1>10, <1>12 DEF CtlInv
<1>14. PICK r \in Run : r = NoRun
  BY <1>6
<1>15. RunInv(r)
  BY <1>2, <1>10, <1>14 DEF RunInv
<1>16. (\A i \in Controller : CtlInv(ctl[i])) /\ (\A h \in Headless : RunInv(run[h]))
  BY <1>1, <1>12, <1>13, <1>14, <1>15
<1>17. AskedIsLast
  BY <1>1 DEF AskedIsLast, Unanswered
<1> QED
  BY <1>7, <1>8, <1>9, <1>11, <1>16, <1>17 DEF FollowInv

\* A step of something else.
LEMMA FollowStutters ==
  ASSUME FollowInv, UNCHANGED vars
  PROVE  FollowInv'
BY DEF vars, daemon, execution, history, FollowInv, FollowTypeOK, EventsTypeOK, Within, Bytes, JournalInv, Retained,
       Base, Ordered, Latest, Running, NewTurn, DecisionInv, DecisionIsTheReply, OwnerInv, CtlInv, RunInv, Reads,
       Started, AskedIsLast, Unanswered

\* The journal, the approvals and every client's place in them stay in order.
THEOREM FollowInvariance == FollowSpec => []FollowInv
<1>1. FollowInit => FollowInv
  BY FollowInitially
<1>2. FollowInv /\ [FollowNext]_vars => FollowInv'
  BY DaemonStepKeeps, ControllerKeeps, HeadlessKeeps, FollowStutters DEF FollowNext
<1> QED
  BY <1>1, <1>2, PTL DEF FollowSpec

\* The journal stays within both of its limits, whatever is appended, and every
\* value of the execution state and of the clients has its type.
THEOREM FollowIsTyped == FollowSpec => []FollowTypeOK
<1>1. FollowInv => FollowTypeOK
  BY DEF FollowInv
<1> QED
  BY <1>1, FollowInvariance, PTL

\* A tool call is decided by the one reply that approve() accepted for that call
\* of that turn, or by the turn's cancellation.
THEOREM RepliesDecide == FollowSpec => []DecisionIsTheReply
<1>1. FollowInv => DecisionIsTheReply
  BY DEF FollowInv, DecisionInv
<1> QED
  BY <1>1, FollowInvariance, PTL

\* A request that nobody has answered is retained whatever the limits evict, and
\* is ahead of every cursor: the next controller that follows is asked.
THEOREM RequestsStayReachable == FollowSpec => []PendingIsReachable
<1>1. FollowInv => PendingIsReachable
  <2> SUFFICES ASSUME FollowInv, NEW p \in pending_approvals, Waiting, p.turn = active, p.call = worker.call
               PROVE  \E k \in DOMAIN events :
                        /\ events[k].kind = "request" /\ events[k].turn = p.turn /\ events[k].call = p.call
                        /\ \A i \in Controller : ctl[i].cursor # None => ctl[i].cursor < events[k].sequence
    BY DEF PendingIsReachable
  <2>1. EventsTypeOK /\ Retained /\ Latest /\ AskedIsLast
    BY DEF FollowInv, FollowTypeOK, JournalInv
  <2>2. Unanswered /\ Running
    BY <2>1 DEF Waiting, Unanswered, Latest, Running
  <2>3. /\ events # <<>> /\ events[Len(events)].kind = "request" /\ events[Len(events)].call = p.call
        /\ \A i \in Controller : ctl[i].cursor # None => ctl[i].cursor < Len(published)
    BY <2>1, <2>2 DEF AskedIsLast
  <2>4. /\ DOMAIN events = 1..Len(events) /\ Len(events) \in Nat /\ Base \in Nat
        /\ Base + Len(events) = Len(published)
    BY <2>1, JournalNumbers
  <2>5. Len(events) \in DOMAIN events
    <3>1. Len(events) # 0
      BY <2>1, <2>3 DEF EventsTypeOK
    <3> QED
      BY <3>1, <2>4
  <2>6. events[Len(events)].sequence = Len(published) /\ events[Len(events)].turn = published[Len(published)].turn
    BY <2>1, <2>4, <2>5 DEF Retained
  <2>7. events[Len(events)].turn = p.turn
    BY <2>1, <2>2, <2>6 DEF Latest
  <2> QED
    BY <2>3, <2>5, <2>6, <2>7
<1> QED
  BY <1>1, FollowInvariance, PTL

\* Nobody who follows a turn is left without its end: not a controller to which
\* the turn seems to have ended in silence, and not a run that stops waiting.
THEOREM EndsAreSeen == FollowSpec => []EndIsSeen
<1>1. FollowInv => EndIsSeen
  <2> SUFFICES ASSUME FollowInv PROVE EndIsSeen
    OBVIOUS
  <2>1. EventsTypeOK /\ Latest
    BY DEF FollowInv, FollowTypeOK, JournalInv
  <2>2. ASSUME NEW i \in Controller, NEW t, t = ctl[i].missed, t # None, Started(t)
        PROVE  \E k \in DOMAIN published :
                 published[k] = [turn |-> t, over |-> TRUE] /\ k <= ctl[i].cursor
    <3>1. active = None /\ ctl[i].cursor = Len(published)
      BY <2>2 DEF FollowInv, CtlInv
    <3>2. PICK j \in DOMAIN published : published[j].turn = t
      BY <2>2 DEF Started
    <3>3. PICK k \in DOMAIN published : published[k].turn = t /\ published[k].over
      BY <3>1, <3>2, <2>1, <2>2 DEF Latest
    <3>4. published[k] = [turn |-> t, over |-> TRUE] /\ k <= Len(published)
      <4>1. k <= Len(published) /\ published[k] \in [turn: Turn, over: BOOLEAN]
        <5> DEFINE Published == [turn: Turn, over: BOOLEAN]
        <5>1. published \in Seq(Published)
          BY <2>1 DEF EventsTypeOK
        <5> HIDE DEF Published
        <5>2. k <= Len(published) /\ published[k] \in Published
          BY <5>1, <3>3
        <5> QED
          BY <5>2 DEF Published
      <4>2. PICK x \in Turn, b \in BOOLEAN : published[k] = [turn |-> x, over |-> b]
        BY <4>1
      <4>3. x = t /\ b = TRUE
        BY <4>2, <3>3
      <4> QED
        BY <4>1, <4>2, <4>3
    <3> QED
      BY <3>1, <3>4
  <2>3. ASSUME NEW h \in Headless, run[h].outcome = "unreported" PROVE ~Started(run[h].turn)
    BY <2>3 DEF FollowInv, RunInv
  <2> QED
    BY <2>2, <2>3 DEF EndIsSeen
<1> QED
  BY <1>1, FollowInvariance, PTL

-----------------------------------------------------------------------------
(* The journal and its readers implement EventFeed.                        *)

Place(r)  == IF r \in Controller THEN ctl[r].cursor ELSE run[r].after
Notice(r) == IF r \in Controller THEN ctl[r].gone ELSE run[r].gone

\* What a reader may do, from a place p with the notice g to a place q with the
\* notice n: nothing, join, leave, be told, advance, and be shown a backlog.
ReaderMove(p, g, q, n) ==
  \/ q = p /\ n = g
  \/ p = None /\ q \in Base..Len(published) /\ n = 0
  \/ p # None /\ q = None /\ n = 0
  \/ p # None /\ q = p /\ p < Base /\ Base < Len(published) /\ n = Base + 1
  \/ p # None /\ q <= Len(published) /\ n = 0 /\ q = IF g > p + 1 THEN g ELSE p + 1
  \/ /\ p # None /\ q \in p..Len(published)
     /\ \A k \in (p + 1)..q :
          \/ k <= Base
          \/ \E j \in DOMAIN published : published[j].turn = published[k].turn /\ published[j].over
     /\ n = 0 \/ (n = Base + 1 /\ q < Base /\ Base < Len(published))

\* Each of these is a step of EventFeed.
LEMMA ReaderMoves ==
  ASSUME FollowInv, UNCHANGED <<events, next_sequence, published>>, NEW r \in Client,
         \A s \in Client : s # r => Place(s)' = Place(s) /\ Notice(s)' = Notice(s),
         ReaderMove(Place(r), Notice(r), Place(r)', Notice(r)'),
         Place(r) \in Nat \cup {None}
  PROVE  [Feed!FeedNext]_(Feed!feed)
<1> DEFINE P == [s \in Client |-> IF s \in Controller THEN ctl[s].cursor ELSE run[s].after]
           G == [s \in Client |-> IF s \in Controller THEN ctl[s].gone ELSE run[s].gone]
           kept == next_sequence - Len(events)
           N == Len(published)
<1>1. N \in Nat /\ Base \in Nat /\ kept = Base + 1
  BY JournalNumbers DEF FollowInv, FollowTypeOK, JournalInv
<1>2. P[r] = Place(r) /\ G[r] = Notice(r)
  BY DEF Place, Notice
<1>3. P' = [P EXCEPT ![r] = Place(r)'] /\ G' = [G EXCEPT ![r] = Notice(r)']
  BY DEF Place, Notice
<1>4. kept' = kept /\ published' = published
  OBVIOUS
<1>5. PICK p, q, g, n : p = Place(r) /\ q = Place(r)' /\ g = Notice(r) /\ n = Notice(r)'
  OBVIOUS
<1>6. P[r] = p /\ G[r] = g /\ P' = [P EXCEPT ![r] = q] /\ G' = [G EXCEPT ![r] = n]
  BY <1>2, <1>3, <1>5
<1>7. CASE q = p /\ n = g
  <2>1. P' = P /\ G' = G
    BY <1>6, <1>7
  <2> QED
    BY <2>1, <1>4 DEF Feed!feed
<1>8. CASE p = None /\ q \in Base..N /\ n = 0
  <2>1. q \in (kept - 1)..N
    BY <1>1, <1>8
  <2>2. Feed!Join(r)
    BY <2>1, <1>4, <1>6, <1>8, Zenon DEF Feed!Join
  <2> QED
    BY <2>2 DEF Feed!FeedNext
<1>9. CASE p # None /\ q = None /\ n = 0
  <2>1. Feed!Leave(r) /\ P[r] # None
    BY <1>4, <1>6, <1>9 DEF Feed!Leave
  <2> QED
    BY <2>1 DEF Feed!FeedNext
<1>10. CASE p # None /\ q = p /\ p < Base /\ Base < N /\ n = Base + 1
  <2>1. p \in Nat /\ p + 1 < kept /\ kept <= N /\ n = kept
    BY <1>1, <1>5, <1>10
  <2>2. P' = P
    BY <1>6, <1>10
  <2>3. Feed!Tell(r) /\ P[r] # None
    BY <2>1, <2>2, <1>4, <1>6, <1>10, Zenon DEF Feed!Tell
  <2> QED
    BY <2>3 DEF Feed!FeedNext
<1>11. CASE p # None /\ q <= N /\ n = 0 /\ q = IF g > p + 1 THEN g ELSE p + 1
  <2>1. Feed!Advance(r) /\ P[r] # None
    BY <1>1, <1>4, <1>5, <1>6, <1>11 DEF Feed!Advance
  <2> QED
    BY <2>1 DEF Feed!FeedNext
<1>12. CASE /\ p # None /\ q \in p..N
            /\ \A k \in (p + 1)..q :
                 \/ k <= Base
                 \/ \E j \in DOMAIN published : published[j].turn = published[k].turn /\ published[j].over
            /\ n = 0 \/ (n = Base + 1 /\ q < Base /\ Base < N)
  <2>1. n \in {0} \cup ({kept} \cap (q + 2)..N)
    BY <1>1, <1>5, <1>12
  <2>2. \A k \in (p + 1)..q : Feed!Over(published[k].turn) \/ k < kept
    BY <1>1, <1>5, <1>12 DEF Feed!Over
  <2>3. Feed!Show(r) /\ P[r] # None
    BY <2>1, <2>2, <1>4, <1>6, <1>12, Zenon DEF Feed!Show
  <2> QED
    BY <2>3 DEF Feed!FeedNext
<1> QED
  BY <1>5, <1>7, <1>8, <1>9, <1>10, <1>11, <1>12 DEF ReaderMove

\* A step of a client that leaves the journal alone is one of its reader.
LEMMA CtlReads ==
  ASSUME FollowInv, NEW i \in Controller, UNCHANGED <<events, next_sequence, published, run>>,
         \A j \in Controller : j # i => ctl'[j] = ctl[j],
         ReaderMove(ctl[i].cursor, ctl[i].gone, ctl'[i].cursor, ctl'[i].gone)
  PROVE  [Feed!FeedNext]_(Feed!feed)
<1>1. ctl[i].cursor \in Nat \cup {None}
  <2>1. ctl[i] \in Ctl
    BY CtlHere
  <2> QED
    BY <2>1 DEF Ctl
<1>2. i \in Client /\ \A s \in Client : s # i => Place(s)' = Place(s) /\ Notice(s)' = Notice(s)
  BY DEF Client, Place, Notice
<1>3. /\ Place(i) = ctl[i].cursor /\ Place(i)' = ctl'[i].cursor
      /\ Notice(i) = ctl[i].gone /\ Notice(i)' = ctl'[i].gone
  BY DEF Place, Notice
<1>4. ReaderMove(Place(i), Notice(i), Place(i)', Notice(i)') /\ Place(i) \in Nat \cup {None}
  BY <1>1, <1>3
<1> QED
  BY <1>2, <1>4, ReaderMoves

\* The same of a run.
LEMMA RunReads ==
  ASSUME FollowInv, NEW h \in Headless, UNCHANGED <<events, next_sequence, published, ctl>>,
         \A g \in Headless : g # h => run'[g] = run[g],
         ReaderMove(run[h].after, run[h].gone, run'[h].after, run'[h].gone)
  PROVE  [Feed!FeedNext]_(Feed!feed)
<1>1. run[h].after \in Nat \cup {None}
  <2>1. run[h] \in Run
    BY RunHere
  <2> QED
    BY <2>1 DEF Run
<1>2. h \in Client /\ \A s \in Client : s # h => Place(s)' = Place(s) /\ Notice(s)' = Notice(s)
  BY DEF Client, Place, Notice
<1>3. /\ Place(h) = run[h].after /\ Place(h)' = run'[h].after
      /\ Notice(h) = run[h].gone /\ Notice(h)' = run'[h].gone
  BY ClientAssumption DEF Place, Notice
<1>4. ReaderMove(Place(h), Notice(h), Place(h)', Notice(h)') /\ Place(h) \in Nat \cup {None}
  BY <1>1, <1>3
<1> QED
  BY <1>2, <1>4, ReaderMoves

\* The events of the worker are published, and what is evicted goes for good.
LEMMA EventIsPublished ==
  ASSUME FollowInv, FollowInv', NEW t, NEW kind \in Kind, NEW call, NEW size,
         append_locked(t, kind, call, size), Grows, UNCHANGED <<owner, ctl, run>>
  PROVE  [Feed!FeedNext]_(Feed!feed)
<1> DEFINE P == [s \in Client |-> IF s \in Controller THEN ctl[s].cursor ELSE run[s].after]
           G == [s \in Client |-> IF s \in Controller THEN ctl[s].gone ELSE run[s].gone]
           kept == next_sequence - Len(events)
<1>1. Len(published) \in Nat /\ Base \in Nat /\ kept = Base + 1
  BY JournalNumbers DEF FollowInv, FollowTypeOK, JournalInv
<1>2. Len(published') \in Nat /\ Base' \in Nat /\ kept' = Base' + 1 /\ Base' <= Len(published')
  <2>1. EventsTypeOK' /\ Retained'
    BY DEF FollowInv, FollowTypeOK, JournalInv
  <2>2. /\ Len(published') \in Nat /\ Len(events') \in Nat /\ Base' \in Nat
        /\ Base' + Len(events') = Len(published')
    BY <2>1, NextNumbers
  <2>3. next_sequence' = Len(published') + 1
    BY <2>1 DEF EventsTypeOK
  <2> QED
    BY <2>2, <2>3
<1>3. PICK x : published' = Append(published, x)
  BY DEF append_locked
<1>4. Len(published') = Len(published) + 1 /\ SubSeq(published', 1, Len(published)) = published
  <2> DEFINE Published == [turn: Turn, over: BOOLEAN]
  <2>1. published \in Seq(Published) /\ published' \in Seq(Published)
    BY DEF FollowInv, FollowTypeOK, EventsTypeOK
  <2> HIDE DEF Published
  <2>2. /\ Len(published') = Len(published) + 1
        /\ \A k \in 1..Len(published) : published'[k] = published[k]
    BY <2>1, <1>3
  <2> QED
    BY <2>1, <2>2
<1>5. kept' \in kept..(Len(published') + 1)
  BY <1>1, <1>2 DEF Grows
<1>6. P' = P /\ G' = G
  OBVIOUS
<1>7. Feed!Publish
  BY <1>4, <1>5, <1>6, Zenon DEF Feed!Publish
<1> QED
  BY <1>7 DEF Feed!FeedNext

\* A step of the worker publishes an event, or is none of the feed.
LEMMA WorkerFeeds ==
  ASSUME FollowInv, FollowInv', DaemonStep
  PROVE  [Feed!FeedNext]_(Feed!feed)
<1>1. DaemonInv /\ UNCHANGED <<owner, ctl, run>> /\ WorkerStep
  BY DEF FollowInv, FollowTypeOK, DaemonInv, DaemonStep
<1>2. ASSUME UNCHANGED <<events, next_sequence, published>> PROVE [Feed!FeedNext]_(Feed!feed)
  BY <1>1, <1>2 DEF Feed!feed
<1>3. CASE SubmitRefused \/ Gate \/ Peek \/ Wake \/ \E c \in Call : WorkerAsks(c)
  BY <1>2, <1>3 DEF SubmitRefused, Gate, Peek, Wake, WorkerAsks, execution, history
<1>4. ASSUME NEW t, NEW kind \in Kind, NEW call, NEW size, append_locked(t, kind, call, size), WorkerMove
      PROVE  [Feed!FeedNext]_(Feed!feed)
  BY <1>1, <1>4, EventIsPublished DEF WorkerMove, Journals
<1>5. CASE TurnStarts
  <2>1. PICK size : append_locked(active, "started", None, size)
    BY <1>5 DEF TurnStarts
  <2> QED
    BY <2>1, <1>1, <1>4, <1>5, TurnStartsStep DEF Kind
<1>6. ASSUME NEW recorded \in BOOLEAN, WorkerEmits(recorded) PROVE [Feed!FeedNext]_(Feed!feed)
  <2>1. PICK size : append_locked(active, "output", None, size)
    BY <1>6 DEF WorkerEmits
  <2> QED
    BY <2>1, <1>1, <1>4, <1>6, WorkerEmitsStep DEF Kind
<1>7. ASSUME NEW recorded \in BOOLEAN, WorkerDecides(recorded) PROVE [Feed!FeedNext]_(Feed!feed)
  <2>1. append_locked(active, "decision", worker.call, Small)
    BY <1>7 DEF WorkerDecides
  <2> QED
    BY <2>1, <1>1, <1>4, <1>7, WorkerDecidesStep DEF Kind
<1>8. CASE WorkerAnnounces
  <2>1. append_locked(active, "request", worker.call, Small)
    BY <1>8 DEF WorkerAnnounces
  <2> QED
    BY <2>1, <1>1, <1>4, <1>8, WorkerAnnouncesStep DEF Kind
<1>9. CASE WorkerAborts
  <2>1. append_locked(active, "output", None, Small)
    BY <1>9 DEF WorkerAborts
  <2> QED
    BY <2>1, <1>1, <1>4, <1>9, WorkerAbortsStep DEF Kind
<1>10. ASSUME NEW persisted \in BOOLEAN, NEW failed \in BOOLEAN, Conclude(persisted, failed)
       PROVE  [Feed!FeedNext]_(Feed!feed)
  <2>1. append_locked(active, TerminalKind(persisted, failed), None, Small)
    BY <1>10 DEF Conclude
  <2>2. TerminalKind(persisted, failed) \in Kind
    BY DEF TerminalKind, Kind, Terminal
  <2> QED
    BY <2>1, <2>2, <1>1, <1>4, <1>10, ConcludedTurn
<1> QED
  BY <1>1, <1>3, <1>5, <1>6, <1>7, <1>8, <1>9, <1>10 DEF WorkerStep

\* The steps of a controller that move no cursor.
LEMMA CtlStays ==
  ASSUME FollowInv, NEW i \in Controller,
         \/ \E redraw \in BOOLEAN : Attach(i, redraw)
         \/ FocusPrompt(i) \/ RequestRefused(i) \/ Terminate(i) \/ TerminateIdle(i)
         \/ TakeFinishedTurn(i) \/ ResumeCommand(i) \/ CtlSubmit(i) \/ CtlAccepted(i) \/ CtlRefused(i)
  PROVE  [Feed!FeedNext]_(Feed!feed)
<1>0. ctl \in [Controller -> Ctl] /\ ctl[i] \in Ctl
  BY CtlHere
<1>1. UNCHANGED <<events, next_sequence, published, run>>
  BY DEF Attach, FocusPrompt, RequestRefused, Terminate, TerminateIdle, TakeFinishedTurn, ResumeCommand,
         CtlSubmit, CtlAccepted, CtlRefused, submit, cancel, daemon, execution, history
<1>2. /\ \A j \in Controller : j # i => ctl'[j] = ctl[j]
      /\ ctl'[i].cursor = ctl[i].cursor /\ ctl'[i].gone = ctl[i].gone
  BY <1>0 DEF Attach, FocusPrompt, RequestRefused, Terminate, TerminateIdle, TakeFinishedTurn, ResumeCommand,
         CtlSubmit, CtlAccepted, CtlRefused, Ctl
<1>3. ReaderMove(ctl[i].cursor, ctl[i].gone, ctl'[i].cursor, ctl'[i].gone)
  BY <1>2 DEF ReaderMove
<1> QED
  BY <1>1, <1>2, <1>3, CtlReads

\* The steps of a run that do not move its cursor.
LEMMA RunStays ==
  ASSUME FollowInv, NEW h \in Headless,
         \/ \E pc \in {"owner", "job"} : RunAttach(h, pc)
         \/ RunSubmit(h) \/ RunAccepted(h) \/ RunRefused(h) \/ JobEndsAtOnce(h)
         \/ Interrupted(h) \/ RunTimesOut(h)
  PROVE  [Feed!FeedNext]_(Feed!feed)
<1>0. run \in [Headless -> Run] /\ run[h] \in Run
  BY RunHere
<1>1. UNCHANGED <<events, next_sequence, published, ctl>>
  BY DEF RunAttach, RunSubmit, RunAccepted, RunRefused, JobEndsAtOnce, Interrupted, RunTimesOut,
         submit, cancel, daemon, execution, history
<1>2. /\ \A g \in Headless : g # h => run'[g] = run[g]
      /\ run'[h].after = run[h].after /\ run'[h].gone = run[h].gone
  BY <1>0 DEF RunAttach, RunSubmit, RunAccepted, RunRefused, JobEndsAtOnce, Interrupted, RunTimesOut, Run
<1>3. ReaderMove(run[h].after, run[h].gone, run'[h].after, run'[h].gone)
  BY <1>2 DEF ReaderMove
<1> QED
  BY <1>1, <1>2, <1>3, RunReads

\* A controller joins at the start of what is retained, or at the end.
LEMMA EnsureCursorFeeds ==
  ASSUME FollowInv, NEW i \in Controller, EnsureCursor(i)
  PROVE  [Feed!FeedNext]_(Feed!feed)
<1>0. /\ ctl \in [Controller -> Ctl] /\ ctl[i] \in Ctl /\ CtlInv(ctl[i])
      /\ Len(published) \in Nat /\ Base \in Nat /\ next_sequence = Len(published) + 1 /\ Base <= Len(published)
  BY CtlHere
<1>1. PICK c \in Base..Len(published) : c = InitialCursor
  <2>1. CASE active # None /\ events # <<>>
    <3>1. InitialCursor = Base /\ Base < Len(published)
      BY <2>1, <1>0, FirstRetained DEF InitialCursor
    <3> QED
      BY <3>1, <1>0
  <2>2. CASE ~(active # None /\ events # <<>>)
    <3>1. InitialCursor = Len(published)
      BY <2>2, <1>0 DEF InitialCursor
    <3> QED
      BY <3>1, <1>0
  <2> QED
    BY <2>1, <2>2
<1>2. UNCHANGED <<events, next_sequence, published, run>>
  BY DEF EnsureCursor, daemon, execution, history
<1>3. /\ \A j \in Controller : j # i => ctl'[j] = ctl[j]
      /\ ctl'[i].gone = ctl[i].gone
      /\ ctl'[i].cursor = IF ctl[i].cursor = None THEN c ELSE ctl[i].cursor
  BY <1>0, <1>1 DEF EnsureCursor, Ctl
<1>4. ctl[i].cursor = None => ctl[i].gone = 0
  BY <1>0 DEF CtlInv
<1>5. ReaderMove(ctl[i].cursor, ctl[i].gone, ctl'[i].cursor, ctl'[i].gone)
  BY <1>1, <1>3, <1>4 DEF ReaderMove
<1> QED
  BY <1>2, <1>3, <1>5, CtlReads

\* A redraw passes over finished turns, and says what is lost.
LEMMA ResumeFeeds ==
  ASSUME FollowInv, NEW i \in Controller, NEW fits \in BOOLEAN, Resume(i, fits)
  PROVE  [Feed!FeedNext]_(Feed!feed)
<1>0. /\ ctl \in [Controller -> Ctl] /\ ctl[i] \in Ctl /\ CtlInv(ctl[i]) /\ ctl[i].pc = "resume"
      /\ Len(published) \in Nat /\ Base \in Nat
  BY CtlHere DEF Resume
<1>1. ctl[i].cursor \in Nat /\ ctl[i].cursor <= Len(published) /\ ctl[i].gone \in Nat /\ ctl[i].cursor # None
  BY <1>0, JournalAssumption DEF Ctl, CtlInv
<1>2. PICK e \in Nat : /\ e = backlog_end(ctl[i].cursor) /\ ctl[i].cursor <= e /\ e <= Len(published)
                       /\ \A k \in (ctl[i].cursor + 1)..e :
                            \/ k <= Base
                            \/ \E j \in DOMAIN published : published[j].turn = published[k].turn /\ published[j].over
  BY <1>1, BacklogEnd
<1>3. PICK t \in Nat : t = truncated_before(0) /\ (t # 0 => t = Base + 1 /\ Base < Len(published))
  BY <1>0, FirstRetained DEF truncated_before
<1>4. UNCHANGED <<events, next_sequence, published, run>>
  BY DEF Resume, daemon, execution, history
<1>5. CASE ctl[i].redraw
  <2>1. PICK n \in Nat : /\ n = 0 \/ (n = t /\ t # 0 /\ t > e + 1)
                         /\ ctl' = [ctl EXCEPT ![i].redraw = FALSE,
                              ![i].cursor = IF e > ctl[i].cursor THEN e ELSE ctl[i].cursor,
                              ![i].gone = n,
                              ![i].pc = IF ctl[i].cached # None THEN "follow" ELSE "prompt"]
    <3> DEFINE n0 == IF (t # 0 /\ (fits \/ ~ \E k \in DOMAIN events : events[k].sequence <= e)) /\ t > e + 1
                     THEN t ELSE 0
    <3>1. n0 \in Nat /\ (n0 = 0 \/ (n0 = t /\ t # 0 /\ t > e + 1))
      OBVIOUS
    <3>2. ctl' = [ctl EXCEPT ![i].redraw = FALSE,
                    ![i].cursor = IF e > ctl[i].cursor THEN e ELSE ctl[i].cursor,
                    ![i].gone = n0,
                    ![i].pc = IF ctl[i].cached # None THEN "follow" ELSE "prompt"]
      BY <1>0, <1>2, <1>3, <1>5 DEF Resume
    <3> HIDE DEF n0
    <3> QED
      BY <3>1, <3>2
  <2>2. /\ \A j \in Controller : j # i => ctl'[j] = ctl[j]
        /\ ctl'[i].cursor = IF e > ctl[i].cursor THEN e ELSE ctl[i].cursor
        /\ ctl'[i].gone = n
    BY <1>0, <2>1 DEF Ctl
  <2>3. ctl'[i].cursor = e
    BY <2>2, <1>1, <1>2
  <2>4. n = 0 \/ (n = Base + 1 /\ e < Base /\ Base < Len(published))
    BY <2>1, <1>0, <1>2, <1>3
  <2>5. e \in ctl[i].cursor..Len(published)
    BY <1>0, <1>1, <1>2
  <2>6. ReaderMove(ctl[i].cursor, ctl[i].gone, e, n)
    BY <2>4, <2>5, <1>1, <1>2 DEF ReaderMove
  <2> QED
    BY <2>2, <2>3, <2>6, <1>4, CtlReads
<1>6. CASE ~ctl[i].redraw
  <2>1. /\ \A j \in Controller : j # i => ctl'[j] = ctl[j]
        /\ ctl'[i].cursor = ctl[i].cursor /\ ctl'[i].gone = ctl[i].gone
    BY <1>0, <1>6 DEF Resume, Ctl
  <2>2. ReaderMove(ctl[i].cursor, ctl[i].gone, ctl'[i].cursor, ctl'[i].gone)
    BY <2>1 DEF ReaderMove
  <2> QED
    BY <2>1, <2>2, <1>4, CtlReads
<1> QED
  BY <1>5, <1>6

\* A poll tells of lost events.
LEMMA PollFeeds ==
  ASSUME FollowInv, NEW i \in Controller, Poll(i)
  PROVE  [Feed!FeedNext]_(Feed!feed)
<1>0. /\ ctl \in [Controller -> Ctl] /\ ctl[i] \in Ctl /\ CtlInv(ctl[i]) /\ ctl[i].pc = "follow"
      /\ Len(published) \in Nat /\ Base \in Nat
  BY CtlHere DEF Poll
<1>1. /\ ctl[i].cursor \in Nat /\ ctl[i].cursor <= Len(published) /\ ctl[i].gone \in Nat
      /\ ctl[i].gone <= Base + 1 /\ ctl[i].cursor # None
  BY <1>0, JournalAssumption DEF Ctl, CtlInv
<1>2. EventsTypeOK /\ Retained
  BY DEF FollowInv, FollowTypeOK, JournalInv
<1>3. UNCHANGED <<events, next_sequence, published, run>>
  BY DEF Poll, daemon, execution, history
<1>4. CASE After(ctl[i].cursor) = <<>>
  <2>1. ctl' = [ctl EXCEPT ![i].pc = "prompt", ![i].missed = ctl[i].cached]
    BY <1>4 DEF Poll
  <2>2. /\ \A j \in Controller : j # i => ctl'[j] = ctl[j]
        /\ ctl'[i].cursor = ctl[i].cursor /\ ctl'[i].gone = ctl[i].gone
    BY <1>0, <2>1 DEF Ctl
  <2>3. ReaderMove(ctl[i].cursor, ctl[i].gone, ctl'[i].cursor, ctl'[i].gone)
    BY <2>2 DEF ReaderMove
  <2> QED
    BY <2>2, <2>3, <1>3, CtlReads
<1>5. CASE After(ctl[i].cursor) # <<>>
  <2>1. PICK g, b : /\ g = Truncation(ctl[i].gone, ctl[i].cursor)
                    /\ ctl' = [ctl EXCEPT ![i].pc = "handle", ![i].batch = b, ![i].gone = g]
    BY <1>5 DEF Poll
  <2>2. g # ctl[i].gone => ctl[i].cursor + 1 < Base + 1 /\ g = Base + 1 /\ Base + 1 <= Len(published)
    BY <2>1, <1>1, <1>2, <1>5, FetchedReads
  <2>3. /\ \A j \in Controller : j # i => ctl'[j] = ctl[j]
        /\ ctl'[i].cursor = ctl[i].cursor /\ ctl'[i].gone = g
    BY <1>0, <2>1 DEF Ctl
  <2>4. g # ctl[i].gone => ctl[i].cursor < Base /\ g = Base + 1 /\ Base < Len(published)
    BY <2>2, <1>0, <1>1
  <2>5. ReaderMove(ctl[i].cursor, ctl[i].gone, ctl'[i].cursor, ctl'[i].gone)
    BY <2>3, <2>4, <1>1 DEF ReaderMove
  <2> QED
    BY <2>3, <2>5, <1>3, CtlReads
<1> QED
  BY <1>4, <1>5

\* An event that is handled is the next one.
LEMMA HandleFeeds ==
  ASSUME FollowInv, NEW i \in Controller,
         HandleOutput(i) \/ HandleTerminal(i) \/ \E d \in Reply : HandleRequest(i, d)
  PROVE  [Feed!FeedNext]_(Feed!feed)
<1>0. /\ ctl \in [Controller -> Ctl] /\ ctl[i] \in Ctl /\ CtlInv(ctl[i]) /\ ctl[i].pc = "handle"
      /\ Len(published) \in Nat /\ Base \in Nat
  BY CtlHere DEF HandleOutput, HandleTerminal, HandleRequest
<1>1. PICK p \in Nat, g \in Nat, b \in Seq(Event) :
        p = ctl[i].cursor /\ g = ctl[i].gone /\ b = ctl[i].batch /\ Reads(b, p, g) /\ p # None
  BY <1>0, JournalAssumption DEF Ctl, CtlInv
<1>2. Head(b).sequence = (IF g > p + 1 THEN g ELSE p + 1) /\ Head(b).sequence <= Len(published)
  BY <1>1, NextOfBatch
<1>3. Acknowledged(ctl[i]) \in Ctl /\ Acknowledged(ctl[i]).cursor = Head(b).sequence /\ Acknowledged(ctl[i]).gone = 0
  BY <1>0, <1>1, AcknowledgedIs
<1>4. UNCHANGED <<events, next_sequence, published, run>>
  BY DEF HandleOutput, HandleTerminal, HandleRequest, approve, daemon, execution, history
<1>5. PICK k \in Ctl : k = Acknowledged(ctl[i])
  BY <1>3
<1>6. /\ \A j \in Controller : j # i => ctl'[j] = ctl[j]
      /\ ctl'[i].cursor = k.cursor /\ ctl'[i].gone = k.gone
  <2>1. CASE HandleTerminal(i)
    <3>1. PICK c : ctl' = [ctl EXCEPT ![i] = [k EXCEPT !.pc = "prompt", !.batch = <<>>, !.cached = c]]
      BY <2>1, <1>5 DEF HandleTerminal
    <3> QED
      BY <3>1, <1>0 DEF Ctl
  <2>2. CASE ~HandleTerminal(i)
    <3>1. ctl' = [ctl EXCEPT ![i] = k]
      BY <2>2, <1>5 DEF HandleOutput, HandleRequest
    <3> QED
      BY <3>1, <1>0
  <2> QED
    BY <2>1, <2>2
<1>7. ctl'[i].cursor = Head(b).sequence /\ ctl'[i].gone = 0
  BY <1>3, <1>5, <1>6
<1>8. ReaderMove(p, g, Head(b).sequence, 0)
  BY <1>1, <1>2 DEF ReaderMove
<1> QED
  BY <1>1, <1>4, <1>6, <1>7, <1>8, CtlReads

\* A controller that forgets its cursor leaves the feed.
LEMMA LeaveFeeds ==
  ASSUME FollowInv, NEW i \in Controller, Leave(i)
  PROVE  [Feed!FeedNext]_(Feed!feed)
<1>0. ctl \in [Controller -> Ctl] /\ ctl[i] \in Ctl /\ CtlInv(ctl[i])
  BY CtlHere
<1>1. UNCHANGED <<events, next_sequence, published, run>>
  BY DEF Leave, daemon, execution, history
<1>2. PICK cursor \in {ctl[i].cursor, None} :
        ctl' = [ctl EXCEPT ![i] = [NoCtl EXCEPT !.cursor = cursor,
                                     !.gone = IF cursor = None THEN 0 ELSE ctl[i].gone]]
  BY DEF Leave
<1>3. /\ \A j \in Controller : j # i => ctl'[j] = ctl[j]
      /\ ctl'[i].cursor = cursor /\ ctl'[i].gone = IF cursor = None THEN 0 ELSE ctl[i].gone
  BY <1>0, <1>2 DEF NoCtl
<1>4. ctl[i].cursor = None => ctl[i].gone = 0
  BY <1>0 DEF CtlInv
<1>5. ReaderMove(ctl[i].cursor, ctl[i].gone, ctl'[i].cursor, ctl'[i].gone)
  BY <1>2, <1>3, <1>4 DEF ReaderMove
<1> QED
  BY <1>1, <1>3, <1>5, CtlReads

\* A run joins at the end, or before the turn that it waits for.
LEMMA RunJoins ==
  ASSUME FollowInv, NEW h \in Headless, RunCursor(h) \/ JobStart(h) \/ JobCancel(h)
  PROVE  [Feed!FeedNext]_(Feed!feed)
<1>0. /\ run \in [Headless -> Run] /\ run[h] \in Run /\ RunInv(run[h])
      /\ Len(published) \in Nat /\ Base \in Nat /\ next_sequence = Len(published) + 1 /\ Base <= Len(published)
  BY RunHere
<1>1. run[h].after = None /\ run[h].gone = 0
  BY <1>0 DEF RunInv, RunCursor, JobStart, JobCancel
<1>2. UNCHANGED <<events, next_sequence, published, ctl>>
  BY DEF RunCursor, JobStart, JobCancel, cancel, daemon, execution, history
<1>3. /\ \A g \in Headless : g # h => run'[g] = run[g]
      /\ run'[h].after \in Base..Len(published) /\ run'[h].gone = run[h].gone
  <2>1. CASE RunCursor(h)
    <3>1. /\ \A g \in Headless : g # h => run'[g] = run[g]
          /\ run'[h].after = next_sequence - 1 /\ run'[h].gone = run[h].gone
      BY <2>1, <1>0 DEF RunCursor, Run
    <3> QED
      BY <3>1, <1>0
  <2>2. CASE JobStart(h) \/ JobCancel(h)
    <3>1. JobTurn # None
      BY <2>2 DEF JobStart, JobCancel, JobTurn
    <3>2. JobCursor \in Base..Len(published)
      BY <3>1, <1>0, JobIs
    <3>3. /\ \A g \in Headless : g # h => run'[g] = run[g]
          /\ run'[h].after = JobCursor /\ run'[h].gone = run[h].gone
      BY <2>2, <1>0 DEF JobStart, JobCancel, Run
    <3> QED
      BY <3>2, <3>3
  <2> QED
    BY <2>1, <2>2
<1>4. ReaderMove(run[h].after, run[h].gone, run'[h].after, run'[h].gone)
  BY <1>1, <1>3 DEF ReaderMove
<1> QED
  BY <1>2, <1>3, <1>4, RunReads

\* A run is told of lost events like a controller.
LEMMA RunPollFeeds ==
  ASSUME FollowInv, NEW h \in Headless, RunPoll(h)
  PROVE  [Feed!FeedNext]_(Feed!feed)
<1>0. /\ run \in [Headless -> Run] /\ run[h] \in Run /\ RunInv(run[h]) /\ run[h].pc = "follow"
      /\ Len(published) \in Nat /\ Base \in Nat
  BY RunHere DEF RunPoll
<1>1. /\ run[h].after \in Nat /\ run[h].after <= Len(published) /\ run[h].gone \in Nat
      /\ run[h].gone <= Base + 1 /\ run[h].after # None
  BY <1>0, JournalAssumption DEF Run, RunInv
<1>2. EventsTypeOK /\ Retained
  BY DEF FollowInv, FollowTypeOK, JournalInv
<1>3. UNCHANGED <<events, next_sequence, published, ctl>> /\ After(run[h].after) # <<>>
  BY DEF RunPoll, daemon, execution, history
<1>4. PICK n, b : /\ n = Truncation(run[h].gone, run[h].after)
                  /\ run' = [run EXCEPT ![h].pc = "handle", ![h].batch = b, ![h].gone = n]
  BY DEF RunPoll
<1>5. n # run[h].gone => run[h].after + 1 < Base + 1 /\ n = Base + 1 /\ Base + 1 <= Len(published)
  BY <1>1, <1>2, <1>3, <1>4, FetchedReads
<1>6. /\ \A g \in Headless : g # h => run'[g] = run[g]
      /\ run'[h].after = run[h].after /\ run'[h].gone = n
  BY <1>0, <1>4 DEF Run
<1>7. n # run[h].gone => run[h].after < Base /\ n = Base + 1 /\ Base < Len(published)
  BY <1>0, <1>1, <1>5
<1>8. ReaderMove(run[h].after, run[h].gone, run'[h].after, run'[h].gone)
  BY <1>1, <1>6, <1>7 DEF ReaderMove
<1> QED
  BY <1>3, <1>6, <1>8, RunReads

\* A run handles one event after the other.
LEMMA RunConsumes ==
  ASSUME FollowInv, NEW h \in Headless, RunHandles(h) \/ \E line \in Line : RunAnswers(h, line)
  PROVE  [Feed!FeedNext]_(Feed!feed)
<1>0. /\ run \in [Headless -> Run] /\ run[h] \in Run /\ RunInv(run[h]) /\ run[h].pc = "handle"
      /\ Len(published) \in Nat /\ Base \in Nat
  BY RunHere DEF RunHandles, RunAnswers
<1>1. PICK p \in Nat, g \in Nat, b \in Seq(Event) :
        p = run[h].after /\ g = run[h].gone /\ b = run[h].batch /\ Reads(b, p, g) /\ p # None
  BY <1>0, JournalAssumption DEF Run, RunInv
<1>2. /\ Head(b).sequence = (IF g > p + 1 THEN g ELSE p + 1) /\ Head(b).sequence <= Len(published)
      /\ Head(b) \in Event
  BY <1>1, NextOfBatch
<1>3. PICK kind \in Kind : /\ kind = IF Mine(h) THEN Head(run[h].batch).kind ELSE "output"
                           /\ run' = [run EXCEPT ![h] = Consumed(run[h], kind)]
  <2>1. CASE RunHandles(h)
    <3>1. (IF Mine(h) THEN Head(run[h].batch).kind ELSE "output") \in Kind
      BY <1>1, <1>2 DEF Event, Kind
    <3> QED
      BY <2>1, <3>1 DEF RunHandles
  <2>2. CASE \E line \in Line : RunAnswers(h, line)
    <3>1. /\ "request" = IF Mine(h) THEN Head(run[h].batch).kind ELSE "output"
          /\ run' = [run EXCEPT ![h] = Consumed(run[h], "request")]
      BY <2>2 DEF RunAnswers
    <3> QED
      BY <3>1 DEF Kind
  <2> QED
    BY <2>1, <2>2
<1>4. UNCHANGED <<events, next_sequence, published, ctl>>
  BY DEF RunHandles, RunAnswers, approve, daemon, execution, history
<1>5. /\ Consumed(run[h], kind) \in Run /\ Consumed(run[h], kind).after = Head(b).sequence
      /\ Consumed(run[h], kind).gone = 0
  BY <1>0, <1>1, <1>3, ConsumedIs
<1>6. PICK k \in Run : k = Consumed(run[h], kind)
  BY <1>5
<1>7. /\ \A x \in Headless : x # h => run'[x] = run[x]
      /\ run'[h].after = Head(b).sequence /\ run'[h].gone = 0
  <2>1. run' = [run EXCEPT ![h] = k]
    BY <1>3, <1>6
  <2> QED
    BY <2>1, <1>0, <1>5, <1>6
<1>8. ReaderMove(p, g, Head(b).sequence, 0)
  BY <1>1, <1>2 DEF ReaderMove
<1> QED
  BY <1>1, <1>4, <1>7, <1>8, RunReads

\* A run that exits leaves the feed.
LEMMA RunExitFeeds ==
  ASSUME FollowInv, NEW h \in Headless, RunExits(h)
  PROVE  [Feed!FeedNext]_(Feed!feed)
<1>0. run \in [Headless -> Run] /\ run[h] \in Run /\ RunInv(run[h])
  BY RunHere
<1>1. UNCHANGED <<events, next_sequence, published, ctl>>
  BY DEF RunExits, daemon, execution, history
<1>2. /\ \A g \in Headless : g # h => run'[g] = run[g]
      /\ run'[h].after = None /\ run'[h].gone = 0
  BY <1>0 DEF RunExits, NoRun
<1>3. ReaderMove(run[h].after, run[h].gone, run'[h].after, run'[h].gone)
  BY <1>0, <1>2 DEF RunInv, ReaderMove
<1> QED
  BY <1>1, <1>2, <1>3, RunReads

\* The journal and the clients that follow it implement EventFeed: everyone sees
\* the events in their order, each once, and misses one only if it is lost and
\* was said to be, whatever the limits, the turns and the number of clients.
THEOREM FeedIsProved == FollowSpec => FeedIsImplemented
<1>1. FollowInit => Feed!FeedInit
  <2> SUFFICES ASSUME FollowInit PROVE Feed!FeedInit
    OBVIOUS
  <2>1. /\ published = <<>> /\ events = <<>> /\ next_sequence = 1
        /\ ctl = [i \in Controller |-> NoCtl] /\ run = [h \in Headless |-> NoRun]
    BY DEF FollowInit, EventsInit
  <2>2. next_sequence - Len(events) = 1
    BY <2>1
  <2>3. \A i \in Controller : ctl[i].cursor = None /\ ctl[i].gone = 0
    BY <2>1 DEF NoCtl
  <2>4. \A h \in Headless : run[h].after = None /\ run[h].gone = 0
    BY <2>1 DEF NoRun
  <2> QED
    BY <2>1, <2>2, <2>3, <2>4 DEF Feed!FeedInit, Client
<1>2. ASSUME FollowInv, FollowInv', [FollowNext]_vars PROVE [Feed!FeedNext]_(Feed!feed)
  <2>1. CASE UNCHANGED vars
    BY <2>1 DEF vars, daemon, execution, history, Feed!feed
  <2>2. CASE DaemonStep
    BY <1>2, <2>2, WorkerFeeds
  <2>3. ASSUME NEW i \in Controller, ControllerStep(i) \/ ControllerChoice(i)
        PROVE  [Feed!FeedNext]_(Feed!feed)
    BY <1>2, <2>3, CtlStays, EnsureCursorFeeds, ResumeFeeds, PollFeeds, HandleFeeds, LeaveFeeds
       DEF ControllerStep, ControllerChoice
  <2>4. ASSUME NEW h \in Headless, HeadlessStep(h) \/ HeadlessChoice(h)
        PROVE  [Feed!FeedNext]_(Feed!feed)
    BY <1>2, <2>4, RunStays, RunJoins, RunPollFeeds, RunConsumes, RunExitFeeds
       DEF HeadlessStep, HeadlessChoice
  <2> QED
    BY <1>2, <2>1, <2>2, <2>3, <2>4 DEF FollowNext
<1> QED
  BY <1>1, <1>2, FollowInvariance, PTL DEF FollowSpec, FeedIsImplemented, Feed!FeedSpec

=============================================================================

------------------------ MODULE ClientSessionProofs ------------------------
(***************************************************************************)
(* Proofs about the interactive client among the sessions of several       *)
(* hosts, for any sessions and hosts and any number of turns, jobs and     *)
(* lost connections.                                                       *)
(*                                                                         *)
(* First where the client is: its connections and the sessions they are    *)
(* attached to agree on both sides (Links), so the session it shows is the *)
(* one its requests reach.  Then what it knows of the turns: what it has   *)
(* noted runs in its session (Noted), and every turn its conversation      *)
(* lacks is one it has noted or is excused for (Keeps).                    *)
(***************************************************************************)
EXTENDS ClientSession, SequenceTheorems, FiniteSetTheorems, NaturalsInduction, WellFoundedInduction, TLAPS

-----------------------------------------------------------------------------
(* Types.                                                                  *)

HostTypes ==
  /\ hosted \in [Session -> Hosted] /\ task \in [Turn -> Task]
  /\ attached_session \in [Host -> Session \cup {Nil}]
  /\ conn \in [Host -> {"none", "open", "lost"}] /\ spent \in 0..MaxEvents

\* The constants are as the assumption says.
LEMMA Constants ==
  /\ Home \in Host /\ MaxSubmitted \in Nat /\ MaxEvents \in Nat /\ IsFiniteSet(Session)
  /\ Nil \notin Session /\ Nil \notin Host /\ Nil # "me" /\ Nil # "other"
  /\ Turn \subseteq Nat \ {0} /\ Nil \notin Turn /\ Idle = 0 /\ Idle \notin Turn
  /\ ShellJob \in Nat \ {0} /\ ShellJob \notin Turn /\ ShellJob # Idle /\ Nil # ShellJob /\ Nil # Idle
  /\ 0..ShellJob = Turn \cup {Idle, ShellJob}
<1>1. /\ Home \in Host /\ MaxSubmitted \in Nat /\ MaxEvents \in Nat /\ IsFiniteSet(Session)
      /\ Nil \notin Session /\ Nil \notin Host /\ Nil # "me" /\ Nil # "other" /\ Nil \notin Nat
  BY ClientAssumption
<1> QED
  BY <1>1 DEF Turn, Idle, ShellJob

\* A sequence of sessions stays one when a session is taken out.
LEMMA RemoveFirstType ==
  ASSUME NEW s \in Seq(Session), NEW x
  PROVE  RemoveFirst(s, x) \in Seq(Session)
<1>1. CASE \E i \in 1..Len(s) : s[i] = x
  <2>1. {i \in 1..Len(s) : s[i] = x} \in SUBSET Nat
    OBVIOUS
  <2>2. PICK I \in SUBSET Nat : I = {i \in 1..Len(s) : s[i] = x}
    BY <2>1
  <2>3. I # {}
    BY <1>1, <2>2
  <2>4. \E n \in I : \A m \in I : n <= m
    <3>1. PICK n \in I : \A m \in I : <<m, n>> \notin OpToRel(<, Nat)
      BY <2>2, <2>3, NatLessThanWellFounded, WFMin
    <3>2. \A m \in I : ~(m < n)
      BY <2>2, <3>1 DEF OpToRel
    <3> QED
      BY <2>2, <3>2
  <2>5. Min(I) \in I
    BY <2>4 DEF Min
  <2>6. RemoveFirst(s, x) = RemoveAt(s, Min(I))
    BY <1>1, <2>2, <2>3 DEF RemoveFirst, SelectInSeq
  <2>7. PICK k \in 1..Len(s) : k = Min(I)
    BY <2>2, <2>5
  <2>8. SubSeq(s, 1, k - 1) \in Seq(Session) /\ SubSeq(s, k + 1, Len(s)) \in Seq(Session)
    BY <2>7
  <2> QED
    BY <2>6, <2>7, <2>8 DEF RemoveAt
<1>2. CASE ~\E i \in 1..Len(s) : s[i] = x
  BY <1>2 DEF RemoveFirst
<1> QED
  BY <1>1, <1>2

\* So does one that a session is pushed to.
LEMMA PushedType ==
  ASSUME NEW h \in Seq(Session), NEW s \in Session \cup {Nil}
  PROVE  Pushed(h, s) \in Seq(Session)
<1>1. RemoveFirst(h, s) \in Seq(Session)
  BY RemoveFirstType
<1> QED
  BY <1>1 DEF Pushed

\* The fallback candidates are sequences of sessions.
LEMMA CandidatesType ==
  ASSUME NEW h \in Seq(Session), NEW id, NEW r \in FallbackCandidates(h, id)
  PROVE  r \in Seq(Session)
<1>1. PICK idle \in SUBSET Session : \E order \in SetToSeqs(idle) : r = Reverse(h) \o order
  BY DEF FallbackCandidates
<1>2. IsFiniteSet(idle) /\ Cardinality(idle) \in Nat
  BY Constants, FS_Subset, FS_CardinalityType
<1>5. PICK order \in SetToSeqs(idle) : r = Reverse(h) \o order
  BY <1>1
<1>3. order \in Seq(Session)
  BY <1>2, <1>5 DEF SetToSeqs
<1>4. Reverse(h) \in Seq(Session)
  BY DEF Reverse
<1> QED
  BY <1>3, <1>4, <1>5

\* The fields of the records.
LEMMA HostedFields ==
  ASSUME NEW x \in Hosted
  PROVE  /\ x.status \in {"unborn", "open", "closed"} /\ x.host \in Host \cup {Nil}
         /\ x.controller \in {"me", "other", Nil} /\ x.activity \in 0..ShellJob
         /\ x.activity \in Turn \cup {Idle, ShellJob}
         /\ x.turns \in SUBSET Turn /\ x.model \in {0, 1}
BY Constants DEF Hosted

\* Those of a turn.
LEMMA TaskFields ==
  ASSUME NEW x \in Task
  PROVE  /\ x.session \in Session \cup {Nil} /\ x.outcome \in {"none", "running", "completed", "failed"}
         /\ x.recorded \in BOOLEAN /\ x.cleared \in BOOLEAN /\ x.dismissed \in BOOLEAN /\ x.displaced \in BOOLEAN
BY DEF Task

\* Those of the runtime.
LEMMA RuntimeFields ==
  ASSUME NEW r \in Runtime
  PROVE  /\ r.connection \in Host \cup {Nil} /\ r.parked \in SUBSET Host /\ r.active \in Session \cup {Nil}
         /\ r.activity \in 0..ShellJob /\ r.activity \in Turn \cup {Idle, ShellJob}
         /\ r.navigation_history \in Seq(Session)
         /\ r.local \in Conversation /\ r.local.turns \in SUBSET Turn /\ r.local.model \in {0, 1}
         /\ r.local.of \in Session \cup {Nil}
BY Constants DEF Runtime, Conversation

\* Those of the place in the main loop.
LEMMA AtFields ==
  ASSUME NEW a \in At
  PROVE  /\ a.pc \in Pc /\ a.then \in Pc \cup {Nil} /\ a.back \in Pc \cup {Nil} /\ a.from \in Pc \cup {Nil}
         /\ a.ok \in BOOLEAN /\ a.was \in Session \cup {Nil} /\ a.watched \in Turn \cup {Nil}
         /\ a.choice \in [session: Session \cup {Nil}, job: BOOLEAN]
         /\ a.choice.session \in Session \cup {Nil} /\ a.rest \in Seq(Session)
BY DEF At

-----------------------------------------------------------------------------
(* The places of the main loop.                                            *)

\* What sync() may be followed by.
Thens == {"switch", "create", "connect", "close", "detach", "leave", "top"}

\* Places where the client neither is about to push or focus, nor follows a turn.
CalmPc == {"top", "prompt", "sync", "switch", "create", "connect", "close", "detach", "leave", "resume", "focus_over"}

\* A turn is followed, or is stopped by who follows it.
Follows(a) == a.pc = "follow" \/ (a.pc \in {"stop", "stop_acts"} /\ a.from \notin {"sync", "top"})

WellPlaced(a) ==
  /\ a \in At
  /\ a.pc \in {"sync", "push"} => a.then \in Thens
  /\ a.pc = "focus_switch" => a.choice.session \in Session
  /\ IF Follows(a) THEN a.watched \in Turn ELSE a.watched = Nil

Calm(a) == a.pc \in CalmPc /\ WellPlaced(a)

\* A new place, with the fields it does not name at rest.
LEMMA NowAtFields ==
  ASSUME NEW p \in Pc
  PROVE  /\ NowAt(p) \in At /\ NowAt(p).pc = p /\ NowAt(p).watched = Nil /\ NowAt(p).then = Nil
         /\ NowAt(p).back = Nil /\ NowAt(p).from = Nil
<1>1. NoChoice \in [session: Session \cup {Nil}, job: BOOLEAN]
  BY DEF NoChoice
<1>2. <<>> \in Seq(Session)
  OBVIOUS
<1> QED
  BY <1>1, <1>2 DEF NowAt, At

\* Calm places.
LEMMA CalmNow ==
  ASSUME NEW p \in CalmPc \ {"sync"}
  PROVE  Calm(NowAt(p))
BY NowAtFields DEF Calm, WellPlaced, Follows, CalmPc, Pc

\* sync(), with what follows it.
LEMMA CalmSync ==
  ASSUME NEW t \in Thens
  PROVE  Calm([NowAt("sync") EXCEPT !.then = t])
<1>1. "sync" \in Pc /\ t \in Pc
  BY DEF Pc, Thens
<1>2. NowAt("sync") \in At /\ NowAt("sync").pc = "sync" /\ NowAt("sync").watched = Nil
  BY <1>1, NowAtFields
<1>3. PICK a \in At : a = [NowAt("sync") EXCEPT !.then = t]
  BY <1>1, <1>2 DEF At
<1>4. a.pc = "sync" /\ a.watched = Nil /\ a.then = t
  BY <1>2, <1>3 DEF At
<1> QED
  BY <1>3, <1>4 DEF Calm, WellPlaced, Follows, CalmPc

\* The end of a command.
LEMMA CalmEnd == Calm(AtEnd)
BY CalmSync DEF AtEnd, Thens

\* resume_active_session, with what follows it.
LEMMA CalmResume ==
  ASSUME NEW b \in Pc \cup {Nil}
  PROVE  Calm([NowAt("resume") EXCEPT !.back = b])
<1>1. "resume" \in Pc
  BY DEF Pc
<1>2. NowAt("resume") \in At /\ NowAt("resume").pc = "resume" /\ NowAt("resume").watched = Nil
  BY <1>1, NowAtFields
<1>3. PICK a \in At : a = [NowAt("resume") EXCEPT !.back = b]
  BY <1>1, <1>2 DEF At
<1>4. a.pc = "resume" /\ a.watched = Nil
  BY <1>2, <1>3 DEF At
<1> QED
  BY <1>3, <1>4 DEF Calm, WellPlaced, Follows, CalmPc

\* sync(), resume_active_session and the focus loop return to calm places.
LEMMA SyncLands ==
  ASSUME WellPlaced(at), at.pc \in {"sync", "push"}, NEW ok, SyncReturns(ok)
  PROVE  Calm(at')
<1>1. at.then \in Thens /\ at.then \in CalmPc \ {"sync"}
  BY DEF WellPlaced, Thens, CalmPc
<1>2. Calm(NowAt(at.then)) /\ Calm(AtEnd) /\ Calm(NowAt("top")) /\ Calm(NowAt("leave"))
  BY <1>1, CalmNow, CalmEnd DEF CalmPc
<1> QED
  BY <1>2 DEF SyncReturns

\* So does resume_active_session.
LEMMA ResumeLands ==
  ASSUME NEW ok, ResumeReturns(ok)
  PROVE  Calm(at')
<1>2. Calm(AtEnd) /\ Calm(NowAt("top")) /\ Calm(NowAt("leave"))
  BY CalmNow, CalmEnd DEF CalmPc
<1> QED
  BY <1>2 DEF ResumeReturns

\* So does the focus loop.
LEMMA FocusLands ==
  ASSUME WellPlaced(at), ~Follows(at), NEW ok \in BOOLEAN, FocusReturns(ok)
  PROVE  Calm(at') /\ at'.pc = "focus_over"
<1>1. at \in At /\ at.watched = Nil /\ NoChoice \in [session: Session \cup {Nil}, job: BOOLEAN]
  BY DEF WellPlaced, NoChoice
<1>2. at'.pc = "focus_over" /\ at'.watched = Nil
  BY <1>1 DEF FocusReturns, At
<1>3. "focus_over" \in Pc
  BY DEF Pc
<1>4. at' \in At
  <2>1. CASE ok = TRUE
    BY <1>1, <1>3, <2>1 DEF FocusReturns, At
  <2>2. CASE ok = FALSE
    BY <1>1, <1>3, <2>2 DEF FocusReturns, At
  <2> QED
    BY <2>1, <2>2
<1> QED
  BY <1>2, <1>4 DEF Calm, WellPlaced, Follows, CalmPc

\* A stop returns to who asked for it, or to the turn that is followed.
LEMMA StopLands ==
  ASSUME WellPlaced(at), at.pc \in {"stop", "stop_acts"}, NEW ok \in BOOLEAN, StopReturns(ok)
  PROVE  Calm(at') \/ (WellPlaced(at') /\ at'.pc = "follow" /\ Follows(at) /\ at'.watched = at.watched)
<1>1. CASE at.from \in {"sync", "top"}
  <2>1. Calm(AtEnd) /\ Calm(NowAt("top"))
    BY CalmNow, CalmEnd DEF CalmPc
  <2> QED
    BY <1>1, <2>1 DEF StopReturns
<1>2. CASE at.from \notin {"sync", "top"} /\ ok
  <2>1. at \in At /\ at.watched \in Turn
    BY <1>2 DEF WellPlaced, Follows
  <2>2. at' = [at EXCEPT !.pc = "follow", !.from = Nil]
    BY <1>2 DEF StopReturns
  <2>3. at' \in At /\ at'.pc = "follow" /\ at'.watched = at.watched
    BY <2>1, <2>2 DEF At, Pc
  <2> QED
    BY <1>2, <2>1, <2>3 DEF WellPlaced, Follows
<1>3. CASE at.from \notin {"sync", "top"} /\ ~ok
  <2>1. ResumeReturns(FALSE)
    BY <1>3 DEF StopReturns
  <2> QED
    BY <2>1, ResumeLands
<1> QED
  BY <1>1, <1>2, <1>3

-----------------------------------------------------------------------------
(* The connections and the sessions they are attached to.                  *)

\* What a connection is attached to is open, on its host, and under its control.
HostLink(h) ==
  attached_session[h] # Nil =>
    /\ conn[h] = "open" /\ hosted[attached_session[h]].host = h
    /\ hosted[attached_session[h]].controller = "me" /\ hosted[attached_session[h]].status = "open"

\* A session the client controls is one that a connection is attached to.
SessionLink(s) ==
  /\ hosted[s].controller = "me" => hosted[s].host \in Host /\ attached_session[hosted[s].host] = s
  /\ hosted[s].status = "unborn" =>
       hosted[s].host = Nil /\ hosted[s].controller = Nil /\ hosted[s].activity = Idle /\ hosted[s].turns = {}
  /\ hosted[s].status # "unborn" => hosted[s].host \in Host
  /\ hosted[s].status = "closed" => hosted[s].controller = Nil /\ hosted[s].activity = Idle

Links == (\A h \in Host : HostLink(h)) /\ (\A s \in Session : SessionLink(s))

\* Nothing is attached or let go of.
Keeping == /\ attached_session' = attached_session /\ conn' = conn
           /\ \A s \in Session : /\ hosted'[s].host = hosted[s].host
                                 /\ hosted'[s].controller = hosted[s].controller
                                 /\ hosted'[s].status = hosted[s].status

\* A step that attaches nothing keeps the links.
LEMMA KeepingLinks ==
  ASSUME HostTypes, Links, Keeping,
         \A s \in Session : hosted[s].status # "open" =>
           hosted'[s].activity = hosted[s].activity /\ hosted'[s].turns = hosted[s].turns
  PROVE  Links'
<1>1. ASSUME NEW h \in Host PROVE HostLink(h)'
  <2>1. HostLink(h) /\ attached_session[h] \in Session \cup {Nil}
    BY DEF Links, HostTypes
  <2> QED
    BY <2>1 DEF HostLink, Keeping
<1>2. ASSUME NEW s \in Session PROVE SessionLink(s)'
  <2>1. SessionLink(s)
    BY DEF Links
  <2> QED
    BY <2>1 DEF SessionLink, Keeping
<1> QED
  BY <1>1, <1>2 DEF Links

\* Who has the sessions, apart from those that are created.
SameWork ==
  /\ task' = task
  /\ \A s \in Session : /\ hosted'[s].activity = hosted[s].activity /\ hosted'[s].turns = hosted[s].turns
                        /\ hosted'[s].status = hosted[s].status /\ hosted'[s].host = hosted[s].host
                        /\ hosted'[s].model = hosted[s].model

\* The client is let into a session.
LEMMA AttachesLinks ==
  ASSUME HostTypes, Links, NEW s \in Session, Attachable(s), Attaches(s),
         conn' \in [Host -> {"none", "open", "lost"}], conn'[hosted[s].host] = "open",
         \A h \in Host \ {hosted[s].host} : conn'[h] = conn[h], task' = task, spent' = spent
  PROVE  /\ HostTypes' /\ Links' /\ SameWork /\ attached_session'[hosted[s].host] = s
         /\ hosted[s].host \in Host /\ hosted'[s].controller = "me"
         /\ \A h \in Host \ {hosted[s].host} : attached_session'[h] = attached_session[h]
<1>1. PICK h \in Host : h = hosted[s].host
  BY DEF Links, SessionLink, Attachable
<1>2. /\ attached_session' = [attached_session EXCEPT ![h] = s]
      /\ hosted' = [x \in Session |->
           IF x = s THEN [hosted[x] EXCEPT !.controller = "me"]
           ELSE IF x = attached_session[h] THEN [hosted[x] EXCEPT !.controller = Nil]
           ELSE hosted[x]]
  BY <1>1 DEF Attaches
<1>3. ASSUME NEW x \in Session
      PROVE  /\ hosted'[x] \in Hosted
             /\ hosted'[x].activity = hosted[x].activity /\ hosted'[x].turns = hosted[x].turns
             /\ hosted'[x].status = hosted[x].status /\ hosted'[x].host = hosted[x].host
             /\ hosted'[x].model = hosted[x].model
             /\ hosted'[x].controller = IF x = s THEN "me" ELSE IF x = attached_session[h] THEN Nil ELSE hosted[x].controller
  <2>1. PICK k \in Hosted : k = hosted[x]
    BY DEF HostTypes
  <2>2. CASE x = s
    BY <1>2, <2>1, <2>2 DEF Hosted
  <2>3. CASE x # s /\ x = attached_session[h]
    BY <1>2, <2>1, <2>3 DEF Hosted
  <2>4. CASE x # s /\ x # attached_session[h]
    BY <1>2, <2>1, <2>4
  <2> QED
    BY <2>2, <2>3, <2>4
<1>4. /\ attached_session' \in [Host -> Session \cup {Nil}] /\ attached_session'[h] = s
      /\ \A g \in Host \ {h} : attached_session'[g] = attached_session[g]
  BY <1>2 DEF HostTypes
<1>5. HostTypes'
  BY <1>2, <1>3, <1>4 DEF HostTypes
<1>6. ASSUME NEW g \in Host PROVE HostLink(g)'
  <2>1. CASE g = h
    BY <1>1, <1>3, <1>4, <2>1 DEF HostLink, Attachable
  <2>2. CASE g # h
    <3>1. HostLink(g) /\ attached_session[g] \in Session \cup {Nil} /\ conn'[g] = conn[g]
      BY <1>1, <2>2 DEF Links, HostTypes
    <3>2. CASE attached_session[g] # Nil
      <4>1. PICK x \in Session : x = attached_session[g]
        BY <3>1, <3>2
      <4>2. hosted[x].host = g /\ x # s
        BY <1>1, <2>2, <3>1, <3>2, <4>1 DEF HostLink
      <4>3. x # attached_session[h]
        BY <2>2, <3>2, <4>1, <4>2 DEF Links, HostLink
      <4> QED
        BY <1>3, <1>4, <2>2, <3>1, <3>2, <4>1, <4>2, <4>3 DEF HostLink
    <3>3. CASE attached_session[g] = Nil
      BY <1>4, <2>2, <3>3 DEF HostLink
    <3> QED
      BY <3>2, <3>3
  <2> QED
    BY <2>1, <2>2
<1>7. ASSUME NEW x \in Session PROVE SessionLink(x)'
  <2>1. SessionLink(x)
    BY DEF Links
  <2>2. CASE x = s
    BY <1>1, <1>3, <1>4, <2>1, <2>2 DEF SessionLink, Attachable
  <2>3. CASE x # s /\ x = attached_session[h]
    BY <1>3, <2>1, <2>3, Constants DEF SessionLink
  <2>4. CASE x # s /\ x # attached_session[h]
    BY <1>3, <1>4, <2>1, <2>4 DEF SessionLink
  <2> QED
    BY <2>2, <2>3, <2>4
<1> QED
  BY <1>1, <1>3, <1>4, <1>5, <1>6, <1>7, Constants DEF Links, SameWork

\* A session is created and the client is let into it.
LEMMA CreatesLinks ==
  ASSUME HostTypes, Links, NEW s \in Session, NEW h \in Host, NEW model \in {0, 1}, Creates(s, h, model),
         conn' \in [Host -> {"none", "open", "lost"}], conn'[h] = "open",
         \A g \in Host \ {h} : conn'[g] = conn[g], task' = task, spent' = spent
  PROVE  /\ HostTypes' /\ Links' /\ attached_session'[h] = s /\ hosted[s].status = "unborn"
         /\ \A g \in Host \ {h} : attached_session'[g] = attached_session[g]
         /\ hosted'[s].status = "open" /\ hosted'[s].controller = "me" /\ hosted'[s].host = h
         /\ \A x \in Session : /\ hosted'[x].activity = hosted[x].activity /\ hosted'[x].turns = hosted[x].turns
                               /\ x # s => hosted'[x].status = hosted[x].status /\ hosted'[x].host = hosted[x].host
<1>1. hosted[s].status = "unborn" /\ SessionLink(s) /\ hosted[s].host = Nil /\ hosted[s].activity = Idle
  BY DEF Creates, Links, SessionLink
<1>2. /\ attached_session' = [attached_session EXCEPT ![h] = s]
      /\ hosted' = [x \in Session |->
           IF x = s THEN [hosted[x] EXCEPT !.status = "open", !.host = h, !.controller = "me", !.model = model]
           ELSE IF x = attached_session[h] THEN [hosted[x] EXCEPT !.controller = Nil]
           ELSE hosted[x]]
  BY DEF Creates
<1>3. ASSUME NEW x \in Session
      PROVE  /\ hosted'[x] \in Hosted
             /\ hosted'[x].activity = hosted[x].activity /\ hosted'[x].turns = hosted[x].turns
             /\ hosted'[x].status = IF x = s THEN "open" ELSE hosted[x].status
             /\ hosted'[x].host = IF x = s THEN h ELSE hosted[x].host
             /\ hosted'[x].controller = IF x = s THEN "me" ELSE IF x = attached_session[h] THEN Nil ELSE hosted[x].controller
  <2>1. PICK k \in Hosted : k = hosted[x]
    BY DEF HostTypes
  <2>2. CASE x = s
    BY <1>2, <2>1, <2>2 DEF Hosted
  <2>3. CASE x # s /\ x = attached_session[h]
    BY <1>2, <2>1, <2>3 DEF Hosted
  <2>4. CASE x # s /\ x # attached_session[h]
    BY <1>2, <2>1, <2>4
  <2> QED
    BY <2>2, <2>3, <2>4
<1>4. /\ attached_session' \in [Host -> Session \cup {Nil}] /\ attached_session'[h] = s
      /\ \A g \in Host \ {h} : attached_session'[g] = attached_session[g]
  BY <1>2 DEF HostTypes
<1>5. HostTypes'
  BY <1>2, <1>3, <1>4 DEF HostTypes
<1>6. ASSUME NEW g \in Host PROVE HostLink(g)'
  <2>1. CASE g = h
    BY <1>3, <1>4, <2>1 DEF HostLink
  <2>2. CASE g # h
    <3>1. HostLink(g) /\ attached_session[g] \in Session \cup {Nil} /\ conn'[g] = conn[g]
      BY <2>2 DEF Links, HostTypes
    <3>2. CASE attached_session[g] # Nil
      <4>1. PICK x \in Session : x = attached_session[g]
        BY <3>1, <3>2
      <4>2. hosted[x].host = g /\ x # s
        BY <1>1, <3>1, <3>2, <4>1, Constants DEF HostLink
      <4>3. x # attached_session[h]
        BY <2>2, <3>2, <4>1, <4>2 DEF Links, HostLink
      <4> QED
        BY <1>3, <1>4, <2>2, <3>1, <3>2, <4>1, <4>2, <4>3 DEF HostLink
    <3>3. CASE attached_session[g] = Nil
      BY <1>4, <2>2, <3>3 DEF HostLink
    <3> QED
      BY <3>2, <3>3
  <2> QED
    BY <2>1, <2>2
<1>7. ASSUME NEW x \in Session PROVE SessionLink(x)'
  <2>1. SessionLink(x)
    BY DEF Links
  <2>2. CASE x = s
    BY <1>1, <1>3, <1>4, <2>1, <2>2 DEF SessionLink
  <2>3. CASE x # s /\ x = attached_session[h]
    BY <1>3, <2>1, <2>3, Constants DEF SessionLink
  <2>4. CASE x # s /\ x # attached_session[h]
    BY <1>3, <1>4, <2>1, <2>4 DEF SessionLink
  <2> QED
    BY <2>2, <2>3, <2>4
<1> QED
  BY <1>1, <1>3, <1>4, <1>5, <1>6, <1>7, Constants DEF Links

\* The process ends, and lets go of everything.
LEMMA EndsLinks ==
  ASSUME HostTypes, Links, Ends
  PROVE  HostTypes' /\ Links' /\ SameWork
<1>1. ASSUME NEW x \in Session
      PROVE  /\ hosted'[x] \in Hosted
             /\ hosted'[x].activity = hosted[x].activity /\ hosted'[x].turns = hosted[x].turns
             /\ hosted'[x].status = hosted[x].status /\ hosted'[x].host = hosted[x].host
             /\ hosted'[x].model = hosted[x].model
             /\ hosted'[x].controller = IF hosted[x].controller = "me" THEN Nil ELSE hosted[x].controller
  <2>1. PICK k \in Hosted : k = hosted[x]
    BY DEF HostTypes
  <2>2. CASE k.controller = "me"
    BY <2>1, <2>2 DEF Hosted, Ends
  <2>3. CASE k.controller # "me"
    BY <2>1, <2>3 DEF Hosted, Ends
  <2> QED
    BY <2>2, <2>3
<1>2. HostTypes'
  BY <1>1 DEF HostTypes, Ends
<1>3. ASSUME NEW h \in Host PROVE HostLink(h)'
  BY DEF Ends, HostLink
<1>4. ASSUME NEW s \in Session PROVE SessionLink(s)'
  <2>1. SessionLink(s)
    BY DEF Links
  <2> QED
    BY <1>1, <2>1, Constants DEF SessionLink
<1> QED
  BY <1>1, <1>2, <1>3, <1>4 DEF Links, SameWork, Ends

\* A connection is lost.
LEMMA BreaksLinks ==
  ASSUME HostTypes, Links, NEW h \in Host, ConnectionBreaks(h)
  PROVE  HostTypes' /\ Links' /\ SameWork
<1>1. ASSUME NEW x \in Session
      PROVE  /\ hosted'[x] \in Hosted
             /\ hosted'[x].activity = hosted[x].activity /\ hosted'[x].turns = hosted[x].turns
             /\ hosted'[x].status = hosted[x].status /\ hosted'[x].host = hosted[x].host
             /\ hosted'[x].model = hosted[x].model
             /\ hosted'[x].controller = IF x = attached_session[h] THEN Nil ELSE hosted[x].controller
  <2>1. PICK k \in Hosted : k = hosted[x]
    BY DEF HostTypes
  <2>2. CASE x = attached_session[h]
    BY <2>1, <2>2 DEF Hosted, ConnectionBreaks
  <2>3. CASE x # attached_session[h]
    BY <2>1, <2>3 DEF Hosted, ConnectionBreaks
  <2> QED
    BY <2>2, <2>3
<1>2. /\ attached_session' \in [Host -> Session \cup {Nil}] /\ attached_session'[h] = Nil
      /\ \A g \in Host \ {h} : attached_session'[g] = attached_session[g] /\ conn'[g] = conn[g]
      /\ conn' \in [Host -> {"none", "open", "lost"}] /\ spent' \in 0..MaxEvents
  BY Constants DEF HostTypes, ConnectionBreaks
<1>3. HostTypes'
  BY <1>1, <1>2 DEF HostTypes, ConnectionBreaks
<1>4. ASSUME NEW g \in Host PROVE HostLink(g)'
  <2>1. CASE g = h
    BY <1>2, <2>1 DEF HostLink
  <2>2. CASE g # h
    <3>1. HostLink(g) /\ attached_session[g] \in Session \cup {Nil}
      BY DEF Links, HostTypes
    <3>2. attached_session[g] # Nil => attached_session[g] # attached_session[h]
      BY <2>2 DEF Links, HostLink
    <3> QED
      BY <1>1, <1>2, <2>2, <3>1, <3>2 DEF HostLink
  <2> QED
    BY <2>1, <2>2
<1>5. ASSUME NEW s \in Session PROVE SessionLink(s)'
  <2>1. SessionLink(s)
    BY DEF Links
  <2>2. CASE s = attached_session[h]
    BY <1>1, <2>1, <2>2, Constants DEF SessionLink
  <2>3. CASE s # attached_session[h]
    BY <1>1, <1>2, <2>1, <2>3 DEF SessionLink
  <2> QED
    BY <2>2, <2>3
<1> QED
  BY <1>1, <1>3, <1>4, <1>5 DEF Links, SameWork, ConnectionBreaks

\* A session is closed.
LEMMA ClosesLinks ==
  ASSUME HostTypes, Links, NEW s \in Session, Closes(s), hosted[s].status # "unborn",
         attached_session' \in [Host -> Session \cup {Nil}],
         \A h \in Host : attached_session'[h] = IF attached_session[h] = s THEN Nil ELSE attached_session[h],
         conn' = conn, spent' = spent
  PROVE  /\ HostTypes' /\ Links' /\ hosted'[s].status = "closed" /\ hosted'[s].activity = Idle
         /\ \A x \in Session : /\ hosted'[x].turns = hosted[x].turns /\ hosted'[x].host = hosted[x].host
                               /\ x # s => hosted'[x] = hosted[x]
         /\ \A t \in Turn : task'[t] = IF task[t].session = s /\ task[t].outcome = "running"
                                         THEN [task[t] EXCEPT !.outcome = "failed"] ELSE task[t]
<1>1. /\ hosted' = [hosted EXCEPT ![s] = [hosted[s] EXCEPT !.status = "closed", !.controller = Nil, !.activity = Idle]]
      /\ task' = [t \in Turn |-> IF task[t].session = s /\ task[t].outcome = "running"
                               THEN [task[t] EXCEPT !.outcome = "failed"] ELSE task[t]]
  BY DEF Closes
<1>2. PICK k \in Hosted : k = hosted[s]
  BY DEF HostTypes
<1>3. PICK m \in Hosted : m = [k EXCEPT !.status = "closed", !.controller = Nil, !.activity = Idle]
  BY <1>2, Constants DEF Hosted
<1>4. /\ m.status = "closed" /\ m.controller = Nil /\ m.activity = Idle /\ m.turns = k.turns /\ m.host = k.host
  BY <1>2, <1>3 DEF Hosted
<1>5. hosted' = [hosted EXCEPT ![s] = m]
  BY <1>1, <1>2, <1>3
<1>6. /\ hosted' \in [Session -> Hosted] /\ hosted'[s] = m /\ \A x \in Session : x # s => hosted'[x] = hosted[x]
  BY <1>5 DEF HostTypes
<1>7. ASSUME NEW t \in Turn PROVE task'[t] \in Task
  <2>1. PICK u \in Task : u = task[t]
    BY DEF HostTypes
  <2>2. [u EXCEPT !.outcome = "failed"] \in Task
    BY DEF Task
  <2> QED
    BY <1>1, <2>1, <2>2
<1>8. HostTypes'
  BY <1>1, <1>6, <1>7 DEF HostTypes
<1>9. ASSUME NEW h \in Host PROVE HostLink(h)'
  <2>1. HostLink(h) /\ attached_session[h] \in Session \cup {Nil}
    BY DEF Links, HostTypes
  <2> QED
    BY <1>6, <2>1 DEF HostLink
<1>10. ASSUME NEW x \in Session PROVE SessionLink(x)'
  <2>1. SessionLink(x)
    BY DEF Links
  <2>2. CASE x = s
    BY <1>2, <1>4, <1>6, <2>1, <2>2, Constants DEF SessionLink
  <2>3. CASE x # s
    BY <1>6, <2>1, <2>3 DEF SessionLink
  <2> QED
    BY <2>2, <2>3
<1> QED
  BY <1>1, <1>2, <1>4, <1>6, <1>8, <1>9, <1>10 DEF Links

\* Another client takes a session that nobody controls, or lets go of one.
LEMMA OtherLinks ==
  ASSUME HostTypes, Links, NEW s \in Session, OtherTakes(s) \/ OtherLeaves(s)
  PROVE  HostTypes' /\ Links' /\ SameWork
<1>1. PICK c \in {"other", Nil} : hosted' = [hosted EXCEPT ![s].controller = c] /\ (c = "other" => hosted[s].status = "open")
  <2>1. CASE OtherTakes(s)
    <3>1. hosted' = [hosted EXCEPT ![s].controller = "other"] /\ hosted[s].status = "open"
      BY <2>1 DEF OtherTakes
    <3> QED
      BY <3>1
  <2>2. CASE OtherLeaves(s)
    <3>1. hosted' = [hosted EXCEPT ![s].controller = Nil]
      BY <2>2 DEF OtherLeaves
    <3> QED
      BY <3>1, Constants
  <2> QED
    BY <2>1, <2>2
<1>2. hosted[s].controller # "me"
  BY Constants DEF OtherTakes, OtherLeaves
<1>3. PICK k \in Hosted : k = hosted[s]
  BY DEF HostTypes
<1>4. PICK m \in Hosted : m = [k EXCEPT !.controller = c]
  BY <1>1, <1>3 DEF Hosted
<1>5. /\ m.status = k.status /\ m.controller = c /\ m.activity = k.activity /\ m.turns = k.turns /\ m.host = k.host
      /\ m.model = k.model
  BY <1>3, <1>4 DEF Hosted
<1>6. hosted' = [hosted EXCEPT ![s] = m]
  BY <1>1, <1>3, <1>4
<1>7. hosted' \in [Session -> Hosted] /\ hosted'[s] = m /\ \A x \in Session : x # s => hosted'[x] = hosted[x]
  BY <1>6 DEF HostTypes
<1>8. attached_session' = attached_session /\ conn' = conn /\ task' = task /\ spent' = spent
  BY DEF OtherTakes, OtherLeaves
<1>9. HostTypes'
  BY <1>7, <1>8 DEF HostTypes
<1>10. ASSUME NEW h \in Host PROVE HostLink(h)'
  <2>1. HostLink(h) /\ attached_session[h] \in Session \cup {Nil}
    BY DEF Links, HostTypes
  <2> QED
    BY <1>2, <1>7, <1>8, <2>1 DEF HostLink
<1>11. ASSUME NEW x \in Session PROVE SessionLink(x)'
  <2>1. SessionLink(x)
    BY DEF Links
  <2>2. CASE x = s
    BY <1>1, <1>3, <1>5, <1>7, <1>8, <2>1, <2>2, Constants DEF SessionLink
  <2>3. CASE x # s
    BY <1>7, <1>8, <2>1, <2>3 DEF SessionLink
  <2> QED
    BY <2>2, <2>3
<1> QED
  BY <1>3, <1>5, <1>7, <1>8, <1>9, <1>10, <1>11 DEF Links, SameWork

-----------------------------------------------------------------------------
(* Where the client is.                                                    *)

Place ==
  /\ rt \in Runtime /\ WellPlaced(at)
  /\ at.pc = "gone" => rt = NoRuntime /\ \A h \in Host : conn[h] # "open"
  /\ at.pc # "gone" => rt.connection \in Host
  /\ at.pc = "fallback" => attached_session[rt.connection] = Nil /\ rt.active = Nil /\ rt.activity = Idle

\* The client is in a session.
Present(a) == a.pc \notin {"gone", "fallback"}

\* A client that is in a session is in one of its host's.
LEMMA Presence ==
  ASSUME HostTypes, Links, Place, ActiveIsAttached, Present(at)
  PROVE  /\ rt.connection \in Host /\ rt.active \in Session /\ hosted[rt.active] \in Hosted
         /\ rt.connection = hosted[rt.active].host /\ hosted[rt.active].status # "unborn"
         /\ Current <=> Connected
         /\ Current => /\ attached_session[rt.connection] = rt.active
                       /\ hosted[rt.active].status = "open" /\ hosted[rt.active].controller = "me"
<1>1. rt.connection \in Host /\ rt.active \in Session
  BY RuntimeFields DEF Present, Place, ActiveIsAttached
<1>2. rt.connection = hosted[rt.active].host
  BY DEF Present, ActiveIsAttached
<1>3. Connected => /\ attached_session[rt.connection] = rt.active
                   /\ hosted[rt.active].status = "open" /\ hosted[rt.active].controller = "me"
  BY DEF Present, ActiveIsAttached
<1>4. hosted[rt.active].status # "unborn"
  BY <1>1, <1>2, Constants DEF Links, SessionLink
<1>5. hosted[rt.active] \in Hosted
  BY <1>1 DEF HostTypes
<1> QED
  BY <1>1, <1>2, <1>3, <1>4, <1>5 DEF Current

\* The client stays in the session.
LEMMA StayPlace ==
  ASSUME Place, ActiveIsAttached, Present(at), HostTypes, Links, Links',
         WellPlaced(at'), Present(at'), attached_session' = attached_session, conn' = conn,
         \A s \in Session : hosted'[s].host = hosted[s].host,
         rt' \in Runtime, rt'.connection = rt.connection, rt'.active = rt.active,
         rt'.parked \in {rt.parked, Listed}
  PROVE  Place' /\ ActiveIsAttached'
<1>1. /\ rt.connection \in Host /\ rt.active \in Session /\ rt.connection = hosted[rt.active].host
  BY Presence
<1>2. Place'
  BY <1>1 DEF Place, Present
<1>3. rt.connection \notin rt.parked /\ rt.connection \notin Listed
  BY DEF ActiveIsAttached, Listed
<1>4. \A h \in Host : conn[h] = "open" => h \in rt.parked \cup {rt.connection} /\ h \in Listed \cup {rt.connection}
  BY DEF ActiveIsAttached, Listed
<1>5. \A h \in Host : conn'[h] = "open" => h \in rt'.parked \cup {rt'.connection}
  BY <1>4
<1>6. Connected' => attached_session'[rt'.connection] = rt'.active
  BY <1>1 DEF Connected, ActiveIsAttached, Present
<1>7. attached_session'[rt'.connection] = rt'.active => hosted'[rt'.active].status = "open" /\ hosted'[rt'.active].controller = "me"
  BY <1>1, Constants DEF Links, HostLink
<1>8. rt'.active # Nil /\ rt'.connection = hosted'[rt'.active].host
  BY <1>1, Constants
<1> QED
  BY <1>2, <1>3, <1>5, <1>6, <1>7, <1>8 DEF ActiveIsAttached

\* The client goes to a session.
LEMMA MovePlace ==
  ASSUME HostTypes', Links', WellPlaced(at'), Present(at'), rt' \in Runtime,
         NEW s \in Session, NEW h \in Host, rt'.active = s, rt'.connection = h,
         hosted'[s].host = h, attached_session'[h] = s, h \notin rt'.parked,
         \A g \in Host : conn'[g] = "open" => g \in rt'.parked \cup {h}
  PROVE  Place' /\ ActiveIsAttached'
<1>1. Place'
  BY DEF Place, Present
<1>2. hosted'[s].status = "open" /\ hosted'[s].controller = "me"
  BY Constants DEF Links, HostLink
<1> QED
  BY <1>1, <1>2, Constants DEF ActiveIsAttached

\* A daemon, another client or the network takes a step.
LEMMA WorldPlace ==
  ASSUME Place, ActiveIsAttached, HostTypes, Links, HostTypes', Links', rt' = rt, at' = at,
         \A s \in Session : hosted'[s].host = hosted[s].host,
         \A h \in Host : attached_session'[h] \in {attached_session[h], Nil},
         \A h \in Host : conn'[h] = "open" => conn[h] = "open" /\ attached_session'[h] = attached_session[h]
  PROVE  Place' /\ ActiveIsAttached'
<1>1. Place'
  BY DEF Place
<1>4. rt'.connection \notin rt'.parked
  BY DEF ActiveIsAttached
<1>5. \A h \in Host : conn'[h] = "open" => h \in rt'.parked \cup {rt'.connection}
  BY DEF ActiveIsAttached
<1>2. CASE Present(at)
  <2>1. rt.connection \in Host /\ rt.active \in Session /\ rt.connection = hosted[rt.active].host
    BY <1>2, Presence
  <2>2. Connected' => attached_session'[rt'.connection] = rt'.active
    BY <1>2, <2>1 DEF Connected, ActiveIsAttached, Present
  <2>3. attached_session'[rt'.connection] = rt'.active => hosted'[rt'.active].status = "open" /\ hosted'[rt'.active].controller = "me"
    BY <2>1, Constants DEF Links, HostLink
  <2>4. rt'.active # Nil /\ rt'.connection = hosted'[rt'.active].host
    BY <2>1, Constants
  <2> QED
    BY <1>1, <1>4, <1>5, <2>2, <2>3, <2>4 DEF ActiveIsAttached
<1>3. CASE ~Present(at)
  BY <1>1, <1>3, <1>4, <1>5 DEF ActiveIsAttached, Present
<1> QED
  BY <1>1, <1>2, <1>3

\* The process ends.
LEMMA EndsPlace ==
  ASSUME Ends
  PROVE  Place' /\ ActiveIsAttached'
<1>1. "gone" \in Pc
  BY DEF Pc
<1>2. at' \in At /\ at'.pc = "gone" /\ at'.watched = Nil
  BY <1>1, NowAtFields DEF Ends
<1>3. WellPlaced(at')
  BY <1>2 DEF WellPlaced, Follows
<1>4. rt' \in Runtime /\ rt'.connection = Nil /\ rt'.parked = {}
  <2>1. <<>> \in Seq(Session)
    OBVIOUS
  <2>2. Idle \in 0..ShellJob
    BY Constants
  <2> QED
    BY <2>1, <2>2 DEF Ends, NoRuntime, Runtime, Conversation
<1>5. conn' = [h \in Host |-> "none"] /\ rt' = NoRuntime
  BY DEF Ends
<1> QED
  BY <1>2, <1>3, <1>4, <1>5 DEF Place, ActiveIsAttached

-----------------------------------------------------------------------------
(* The turns.                                                              *)

Excused(t) == task[t].cleared \/ task[t].dismissed \/ task[t].displaced

\* A turn runs in the session it was submitted to, and is recorded when it has
\* ended.
TaskFits(t) ==
  /\ task[t].session = Nil => task[t].outcome # "running" /\ ~task[t].recorded
  /\ task[t].session # Nil => hosted[task[t].session].status # "unborn"
  /\ task[t].outcome = "running" => ~task[t].recorded /\ hosted[task[t].session].activity = t
  /\ \A s \in Session : hosted[s].activity = t => task[t].session = s /\ task[t].outcome = "running"
  /\ \A s \in Session : t \in hosted[s].turns => task[t].recorded

Tasks == \A t \in Turn : TaskFits(t)

\* What the client has noted of its session.  A turn that runs there is noted
\* or was dismissed, and none but the one that is followed runs.
Noted ==
  /\ rt.activity \in Turn => task[rt.activity].session = rt.active
  /\ Present(at) => \A u \in Turn : Now = u => rt.activity = u \/ (task[u].dismissed /\ rt.activity \notin Turn)
  /\ at.watched # Nil => /\ Now \in Turn => Now = at.watched
                         /\ rt.activity \in Turn => rt.activity = at.watched

\* Where the client is about to push or to forget what it has noted, that is
\* no turn its conversation needs.
Untracked ==
  /\ at.pc \in {"push", "attach"} /\ rt.activity \in Turn /\ rt.active = rt.local.of => Excused(rt.activity)
  /\ at.pc \in {"focus", "focus_switch"} => rt.activity = ShellJob

\* A turn of the session the conversation is of is in it, is excused, has left
\* nothing, or is the one the client has noted.
Kept(t) ==
  \/ t \in rt.local.turns
  \/ Excused(t)
  \/ ~task[t].recorded /\ task[t].outcome # "running"
  \/ rt.activity = t /\ rt.active = rt.local.of

Keeps ==
  /\ \A t \in rt.local.turns : task[t].recorded
  /\ Present(at) => \A t \in Turn : task[t].session = rt.local.of => Kept(t)

Mind == Noted /\ Untracked /\ Keeps
Work == Tasks /\ TurnIsKept

\* A step that neither starts nor ends a turn keeps them.
LEMMA SameWorkKeeps ==
  ASSUME HostTypes, Tasks, TurnIsKept, SameWork
  PROVE  Work'
<1>1. ASSUME NEW t \in Turn PROVE TaskFits(t)'
  <2>1. TaskFits(t) /\ task[t] \in Task
    BY DEF Tasks, HostTypes
  <2>2. task[t].session \in Session \cup {Nil}
    BY <2>1, TaskFields
  <2> QED
    BY <2>1, <2>2 DEF TaskFits, SameWork
<1>2. TurnIsKept'
  <2>1. SUFFICES ASSUME NEW t \in Turn, task'[t].recorded, hosted'[task'[t].session].status = "open",
                        t \notin hosted'[task'[t].session].turns
                 PROVE  task'[t].cleared \/ task'[t].dismissed \/ task'[t].displaced
    BY DEF TurnIsKept
  <2>2. TaskFits(t) /\ task[t] \in Task /\ task'[t] = task[t]
    BY DEF Tasks, HostTypes, SameWork
  <2>3. task[t].session \in Session
    BY <2>1, <2>2, TaskFields DEF TaskFits
  <2> QED
    BY <2>1, <2>2, <2>3 DEF TurnIsKept, SameWork
<1> QED
  BY <1>1, <1>2 DEF Work, Tasks

\* A session that is created has no turns.
LEMMA CreatesKeeps ==
  ASSUME HostTypes, Tasks, TurnIsKept, NEW s \in Session, hosted[s].status = "unborn",
         hosted'[s].status = "open", task' = task,
         \A x \in Session : /\ hosted'[x].activity = hosted[x].activity /\ hosted'[x].turns = hosted[x].turns
                            /\ x # s => hosted'[x].status = hosted[x].status /\ hosted'[x].host = hosted[x].host
  PROVE  Work'
<1>0. \A t \in Turn : TaskFits(t) /\ task[t].session \in Session \cup {Nil} /\ task[t].session # s
  <2>1. SUFFICES ASSUME NEW t \in Turn PROVE TaskFits(t) /\ task[t].session \in Session \cup {Nil} /\ task[t].session # s
    OBVIOUS
  <2>2. TaskFits(t) /\ task[t] \in Task
    BY DEF Tasks, HostTypes
  <2> QED
    BY <2>2, TaskFields, Constants DEF TaskFits
<1>1. ASSUME NEW t \in Turn PROVE TaskFits(t)'
  BY <1>0 DEF TaskFits
<1>2. TurnIsKept'
  <2>1. SUFFICES ASSUME NEW t \in Turn, task'[t].recorded, hosted'[task'[t].session].status = "open",
                        t \notin hosted'[task'[t].session].turns
                 PROVE  task'[t].cleared \/ task'[t].dismissed \/ task'[t].displaced
    BY DEF TurnIsKept
  <2>2. TaskFits(t) /\ task'[t] = task[t]
    BY <1>0
  <2>3. task[t].session \in Session
    BY <1>0, <2>1, <2>2 DEF TaskFits
  <2> QED
    BY <1>0, <2>1, <2>2, <2>3 DEF TurnIsKept
<1> QED
  BY <1>1, <1>2 DEF Work, Tasks

\* The turn of a session that is closed has failed.
LEMMA ClosesKeeps ==
  ASSUME HostTypes, Tasks, TurnIsKept, NEW s \in Session, hosted[s].status # "unborn",
         hosted'[s].status = "closed", hosted'[s].activity = Idle,
         \A x \in Session : hosted'[x].turns = hosted[x].turns /\ (x # s => hosted'[x] = hosted[x]),
         \A t \in Turn : task'[t] = IF task[t].session = s /\ task[t].outcome = "running"
                                      THEN [task[t] EXCEPT !.outcome = "failed"] ELSE task[t]
  PROVE  /\ Work'
         /\ \A t \in Turn : /\ task'[t].session = task[t].session /\ task'[t].cleared = task[t].cleared
                            /\ task'[t].dismissed = task[t].dismissed /\ task'[t].displaced = task[t].displaced
                            /\ task'[t].recorded = task[t].recorded
                            /\ task'[t].outcome = IF task[t].session = s /\ task[t].outcome = "running" THEN "failed" ELSE task[t].outcome
<1>1. ASSUME NEW t \in Turn
      PROVE  /\ task'[t].session = task[t].session /\ task'[t].cleared = task[t].cleared
             /\ task'[t].dismissed = task[t].dismissed /\ task'[t].displaced = task[t].displaced
             /\ task'[t].recorded = task[t].recorded
             /\ task'[t].outcome = IF task[t].session = s /\ task[t].outcome = "running" THEN "failed" ELSE task[t].outcome
  <2>1. PICK u \in Task : u = task[t]
    BY DEF HostTypes
  <2>2. CASE u.session = s /\ u.outcome = "running"
    BY <2>1, <2>2 DEF Task
  <2>3. CASE ~(u.session = s /\ u.outcome = "running")
    BY <2>1, <2>3
  <2> QED
    BY <2>2, <2>3
<1>2. ASSUME NEW t \in Turn PROVE TaskFits(t)'
  <2>1. TaskFits(t) /\ task[t] \in Task
    BY DEF Tasks, HostTypes
  <2>2. task[t].session \in Session \cup {Nil}
    BY <2>1, TaskFields
  <2>3. t # Idle
    BY Constants
  <2>4. \A x \in Session : hosted'[x].activity = t => x # s
    BY <2>3
  <2> QED
    BY <1>1, <2>1, <2>2, <2>4, Constants DEF TaskFits
<1>3. TurnIsKept'
  <2>1. SUFFICES ASSUME NEW t \in Turn, task'[t].recorded, hosted'[task'[t].session].status = "open",
                        t \notin hosted'[task'[t].session].turns
                 PROVE  task'[t].cleared \/ task'[t].dismissed \/ task'[t].displaced
    BY DEF TurnIsKept
  <2>2. TaskFits(t) /\ task[t] \in Task
    BY DEF Tasks, HostTypes
  <2>3. task[t].session \in Session
    BY <1>1, <2>1, <2>2, TaskFields DEF TaskFits
  <2>4. task[t].session # s
    BY <1>1, <2>1
  <2> QED
    BY <1>1, <2>1, <2>2, <2>3, <2>4 DEF TurnIsKept
<1> QED
  BY <1>1, <1>2, <1>3 DEF Work, Tasks

\* A calm place asks nothing of what is noted but that it is noted.
LEMMA CalmPlace ==
  ASSUME NEW a, Calm(a)
  PROVE  /\ a \in At /\ WellPlaced(a) /\ Present(a) /\ a.watched = Nil
         /\ a.pc \notin {"push", "attach", "focus", "focus_switch"}
BY DEF Calm, WellPlaced, Follows, CalmPc, Present

\* A conversation that is taken from the session as it is, with what runs there
\* noted, lacks nothing.
LEMMA FreshMind ==
  ASSUME HostTypes', Work', rt' \in Runtime, Calm(at'),
         NEW s \in Session, hosted'[s].status = "open", rt'.active = s, rt'.activity = hosted'[s].activity,
         rt'.local.of = s, rt'.local.turns = hosted'[s].turns
  PROVE  Mind'
<1>1. Present(at') /\ at'.watched = Nil /\ at'.pc \notin {"push", "attach", "focus", "focus_switch"}
  BY CalmPlace
<1>2. Now' = rt'.activity
  BY DEF Now
<1>3. Noted'
  BY <1>1, <1>2 DEF Noted, Work, Tasks, TaskFits
<1>4. Untracked'
  BY <1>1 DEF Untracked
<1>5. hosted'[s].turns \subseteq Turn
  BY HostedFields DEF HostTypes
<1>6. \A t \in rt'.local.turns : task'[t].recorded
  BY <1>5 DEF Work, Tasks, TaskFits
<1>7. ASSUME NEW t \in Turn, task'[t].session = rt'.local.of PROVE Kept(t)'
  <2>1. TaskFits(t)'
    BY DEF Work, Tasks
  <2>2. CASE task'[t].outcome = "running"
    <3>1. rt'.activity = t
      BY <1>7, <2>1, <2>2 DEF TaskFits
    <3> QED
      BY <3>1 DEF Kept
  <2>3. CASE task'[t].outcome # "running" /\ task'[t].recorded
    <3>1. t \in hosted'[s].turns \/ task'[t].cleared \/ task'[t].dismissed \/ task'[t].displaced
      BY <1>7, <2>3 DEF Work, TurnIsKept
    <3> QED
      BY <3>1 DEF Kept, Excused
  <2>4. CASE task'[t].outcome # "running" /\ ~task'[t].recorded
    BY <2>4 DEF Kept
  <2> QED
    BY <2>2, <2>3, <2>4
<1> QED
  BY <1>3, <1>4, <1>6, <1>7 DEF Mind, Keeps

\* What is known of the turns: nothing but more excuses, and more to excuse.
SameTasks ==
  \A t \in Turn : /\ task'[t].session = task[t].session /\ task'[t].outcome = task[t].outcome
                  /\ task'[t].recorded = task[t].recorded
                  /\ task[t].dismissed => task'[t].dismissed
                  /\ Excused(t) => Excused(t)'

\* A place that asks nothing new of what is noted.
Gentle(a) ==
  /\ WellPlaced(a) /\ Present(a) /\ a.watched \in {Nil, at.watched}
  /\ a.pc \notin {"push", "attach", "focus", "focus_switch"}

\* A calm place is one.
LEMMA CalmIsGentle ==
  ASSUME NEW a, Calm(a)
  PROVE  Gentle(a)
BY CalmPlace DEF Gentle

\* The client keeps its conversation and what it has noted.
LEMMA QuietMind ==
  ASSUME HostTypes, Place, ActiveIsAttached, Links, Mind, Present(at), Gentle(at'), SameTasks,
         hosted'[rt.active].activity = Now,
         rt'.active = rt.active, rt'.activity = rt.activity,
         rt'.local.turns = rt.local.turns, rt'.local.of = rt.local.of
  PROVE  Mind'
<1>1. Present(at') /\ at'.watched \in {Nil, at.watched} /\ at'.pc \notin {"push", "attach", "focus", "focus_switch"}
  BY DEF Gentle
<1>2. Now' = Now
  BY DEF Now
<1>3. rt.local.turns \subseteq Turn
  BY RuntimeFields DEF Place
<1>4. Noted'
  BY <1>1, <1>2 DEF Mind, Noted, SameTasks
<1>5. Untracked'
  BY <1>1 DEF Untracked
<1>6. \A t \in rt'.local.turns : task'[t].recorded
  BY <1>3 DEF Mind, Keeps, SameTasks
<1>7. ASSUME NEW t \in Turn, task'[t].session = rt'.local.of PROVE Kept(t)'
  <2>1. Kept(t)
    BY <1>7 DEF Mind, Keeps, SameTasks
  <2> QED
    BY <2>1 DEF Kept, SameTasks
<1> QED
  BY <1>4, <1>5, <1>6, <1>7 DEF Mind, Keeps

\* The client looks at what runs in its session, and keeps its conversation.
\* A turn that it no longer notes is excused.
LEMMA LookMind ==
  ASSUME HostTypes, Place, ActiveIsAttached, Links, Tasks, Mind, Present(at), WellPlaced(at'), Present(at'),
         SameTasks, hosted'[rt.active].activity = Now,
         rt'.active = rt.active, rt'.activity = Now,
         rt'.local.turns = rt.local.turns, rt'.local.of = rt.local.of,
         \A u \in Turn : rt.activity = u /\ rt.active = rt.local.of /\ Now # u => Excused(u)',
         at'.watched \in {Nil, at.watched},
         at'.pc \in {"push", "attach"} => at'.watched = Nil /\ (Now \in Turn /\ rt.active = rt.local.of => Excused(Now)),
         at'.pc \in {"focus", "focus_switch"} => Now = ShellJob
  PROVE  Mind'
<1>1. rt.active \in Session /\ Now \in 0..ShellJob
  BY Presence, HostedFields DEF Now
<1>2. Now' = Now
  BY DEF Now
<1>3. rt.local.turns \subseteq Turn
  BY RuntimeFields DEF Place
<1>4. Noted'
  <2>1. Now \in Turn => task'[Now].session = rt.active
    BY <1>1 DEF Now, Tasks, TaskFits, SameTasks
  <2>2. at'.watched # Nil => (Now \in Turn => Now = at'.watched)
    BY DEF Mind, Noted
  <2> QED
    BY <1>2, <2>1, <2>2 DEF Noted
<1>5. Untracked'
  BY DEF Untracked, SameTasks
<1>6. \A t \in rt'.local.turns : task'[t].recorded
  BY <1>3 DEF Mind, Keeps, SameTasks
<1>7. ASSUME NEW t \in Turn, task'[t].session = rt'.local.of PROVE Kept(t)'
  <2>1. Kept(t)
    BY <1>7 DEF Mind, Keeps, SameTasks
  <2>2. CASE rt.activity = t /\ rt.active = rt.local.of /\ Now # t
    <3>1. Excused(t)'
      BY <2>2
    <3> QED
      BY <3>1 DEF Kept
  <2>3. CASE rt.activity = t /\ rt.active = rt.local.of /\ Now = t
    BY <2>3 DEF Kept
  <2>4. CASE ~(rt.activity = t /\ rt.active = rt.local.of)
    BY <2>1, <2>4 DEF Kept, SameTasks
  <2> QED
    BY <2>2, <2>3, <2>4
<1> QED
  BY <1>4, <1>5, <1>6, <1>7 DEF Mind, Keeps

\* A daemon, another client or the network takes a step.
LEMMA WorldMind ==
  ASSUME HostTypes, Place, ActiveIsAttached, Links, Mind, rt' = rt, at' = at,
         \A s \in Session : hosted'[s].activity \in {hosted[s].activity, Idle},
         \A t \in Turn : /\ task'[t].session = task[t].session /\ task'[t].cleared = task[t].cleared
                         /\ task'[t].dismissed = task[t].dismissed /\ task'[t].displaced = task[t].displaced
                         /\ task[t].recorded => task'[t].recorded
                         /\ task[t].outcome # "running" => /\ task'[t].outcome = task[t].outcome
                                                           /\ task'[t].recorded = task[t].recorded
  PROVE  Mind'
<1>3. rt.local.turns \subseteq Turn
  BY RuntimeFields DEF Place
<1>0. at.watched # Nil => Present(at)
  BY DEF Place, WellPlaced, Follows, Present
<1>1. Present(at) => rt.active \in Session
  BY Presence
<1>2. Present(at) => Now' \in {Now, Idle}
  BY <1>1 DEF Now
<1>4. Noted'
  BY <1>0, <1>2, Constants DEF Mind, Noted
<1>5. Untracked'
  <2>1. \A t \in Turn : Excused(t) => Excused(t)'
    BY DEF Excused
  <2> QED
    BY <2>1 DEF Mind, Untracked
<1>6. \A t \in rt'.local.turns : task'[t].recorded
  BY <1>3 DEF Mind, Keeps
<1>7. ASSUME NEW t \in Turn, task'[t].session = rt'.local.of, Present(at) PROVE Kept(t)'
  <2>1. Kept(t)
    BY <1>7 DEF Mind, Keeps
  <2>2. Excused(t) => Excused(t)'
    BY DEF Excused
  <2> QED
    BY <2>1, <2>2 DEF Kept
<1> QED
  BY <1>4, <1>5, <1>6, <1>7 DEF Mind, Keeps

\* A client that is in no session has nothing in mind.
LEMMA AwayMind ==
  ASSUME ~Present(at'), at'.watched = Nil, rt'.activity \notin Turn, at'.pc \in {"gone", "fallback"},
         \A t \in rt'.local.turns : task'[t].recorded
  PROVE  Mind'
BY DEF Mind, Noted, Untracked, Keeps

-----------------------------------------------------------------------------
(* What the steps make of SessionRuntime.                                  *)

\* r is as q, but for its parked connections, its history, and what is named.
Alike(r, q) == r.connection = q.connection /\ r.active = q.active
SameNote(r, q) == r.activity = q.activity /\ r.local = q.local

\* A refresh drops parked connections only.
LEMMA RefreshedFields ==
  ASSUME NEW r \in Runtime
  PROVE  /\ Refreshed(r) \in Runtime /\ Refreshed(r).parked = {h \in r.parked : conn[h] = "open"}
         /\ Alike(Refreshed(r), r) /\ SameNote(Refreshed(r), r)
<1>1. PICK p \in SUBSET Host : p = {h \in r.parked : conn[h] = "open"}
  <2>1. {h \in r.parked : conn[h] = "open"} \in SUBSET Host
    BY RuntimeFields
  <2> QED
    BY <2>1
<1>2. Refreshed(r) = [r EXCEPT !.parked = p]
  BY <1>1 DEF Refreshed
<1> QED
  BY <1>1, <1>2 DEF Runtime, Alike, SameNote

\* A conversation is taken.
LEMMA LocalFields ==
  ASSUME NEW r \in Runtime, NEW l \in Conversation
  PROVE  /\ [r EXCEPT !.local = l] \in Runtime /\ [r EXCEPT !.local = l].parked = r.parked
         /\ Alike([r EXCEPT !.local = l], r) /\ [r EXCEPT !.local = l].activity = r.activity
         /\ [r EXCEPT !.local = l].local = l
BY DEF Runtime, Alike

\* The conversation of a session.
LEMMA RestoredFields ==
  ASSUME HostTypes, NEW s \in Session
  PROVE  Restored(s) \in Conversation /\ Restored(s).turns = hosted[s].turns /\ Restored(s).of = s
<1>1. hosted[s].turns \in SUBSET Turn /\ hosted[s].model \in {0, 1}
  BY HostedFields DEF HostTypes
<1> QED
  BY <1>1 DEF Restored, Snapshot, Conversation

\* The runtime of a client that has arrived at a session.
Arrived(r, s, h) ==
  /\ r \in Runtime /\ r.active = s /\ r.connection = h /\ h \notin r.parked
  /\ \A g \in Host : conn[g] = "open" => g \in r.parked \cup {h}

\* switch() arrives with what runs there noted, and the conversation as before.
LEMMA SwitchedFields ==
  ASSUME HostTypes, Place, ActiveIsAttached, rt.connection \in Host,
         NEW s \in Session, hosted[s].host \in Host
  PROVE  /\ Arrived(Switched(s), s, hosted[s].host)
         /\ Switched(s).activity = hosted[s].activity /\ Switched(s).local = rt.local
<1>1. rt \in Runtime /\ rt.navigation_history \in Seq(Session) /\ rt.active \in Session \cup {Nil}
  BY RuntimeFields DEF Place
<1>2. PICK n \in Seq(Session) : n = IF rt.active = s THEN rt.navigation_history ELSE Pushed(rt.navigation_history, rt.active)
  BY <1>1, PushedType
<1>3. (Listed \cup {rt.connection}) \ {hosted[s].host} \in SUBSET Host
  BY <1>1, RuntimeFields DEF Listed
<1>4. PICK p \in SUBSET Host, h \in Host, a \in 0..ShellJob :
        p = (Listed \cup {rt.connection}) \ {hosted[s].host} /\ h = hosted[s].host /\ a = hosted[s].activity
  BY <1>3, HostedFields DEF HostTypes
<1>5. Switched(s) = [rt EXCEPT !.connection = h, !.parked = p, !.active = s, !.activity = a, !.navigation_history = n]
  BY <1>2, <1>4 DEF Switched
<1>6. /\ Switched(s) \in Runtime /\ Switched(s).connection = h /\ Switched(s).parked = p /\ Switched(s).active = s
      /\ Switched(s).activity = a /\ Switched(s).local = rt.local
  BY <1>1, <1>5 DEF Runtime
<1>7. \A g \in Host : conn[g] = "open" => g \in p \cup {h}
  BY <1>4 DEF ActiveIsAttached, Listed
<1>8. h \notin p
  BY <1>4
<1> QED
  BY <1>4, <1>6, <1>7, <1>8 DEF Arrived

\* create() arrives with an empty conversation.
LEMMA CreatedFields ==
  ASSUME HostTypes, Place, ActiveIsAttached, rt.connection \in Host, NEW s \in Session, NEW m \in {0, 1}
  PROVE  /\ Arrived(Created(s, m), s, rt.connection) /\ Created(s, m).activity = Idle
         /\ Created(s, m).local.of = s /\ Created(s, m).local.turns = {} /\ Created(s, m).parked = rt.parked
<1>1. rt \in Runtime /\ rt.navigation_history \in Seq(Session) /\ rt.active \in Session \cup {Nil}
  BY RuntimeFields DEF Place
<1>2. PICK n \in Seq(Session) : n = Pushed(rt.navigation_history, rt.active)
  BY <1>1, PushedType
<1>3. PICK l \in Conversation : l = [turns |-> {}, model |-> m, of |-> s]
  BY DEF Conversation
<1>4. Created(s, m) = [rt EXCEPT !.active = s, !.activity = Idle, !.navigation_history = n, !.local = l]
  BY <1>2, <1>3 DEF Created
<1>5. Idle \in 0..ShellJob
  BY Constants
<1>6. /\ Created(s, m) \in Runtime /\ Created(s, m).connection = rt.connection /\ Created(s, m).parked = rt.parked
      /\ Created(s, m).active = s /\ Created(s, m).activity = Idle /\ Created(s, m).local = l
  BY <1>1, <1>4, <1>5 DEF Runtime
<1>7. l.of = s /\ l.turns = {}
  BY <1>3
<1> QED
  BY <1>6, <1>7 DEF Arrived, ActiveIsAttached

\* To refresh it, or to give it a conversation, changes nothing of that.
LEMMA ArrivedRefreshed ==
  ASSUME NEW r, NEW s, NEW h, Arrived(r, s, h)
  PROVE  Arrived(Refreshed(r), s, h) /\ SameNote(Refreshed(r), r)
BY RefreshedFields DEF Arrived, Alike

\* A conversation is taken there.
LEMMA ArrivedLocal ==
  ASSUME NEW r, NEW s, NEW h, Arrived(r, s, h), NEW l \in Conversation
  PROVE  /\ Arrived([r EXCEPT !.local = l], s, h) /\ [r EXCEPT !.local = l].activity = r.activity
         /\ [r EXCEPT !.local = l].local = l
BY LocalFields DEF Arrived, Alike

-----------------------------------------------------------------------------
(* The inductive invariant, and the kinds of steps.                        *)

Inv == HostTypes /\ Links /\ Place /\ ActiveIsAttached /\ Work /\ Mind

\* Nothing happens at the hosts.
LEMMA SameHosts ==
  ASSUME Inv, UNCHANGED hosts
  PROVE  /\ HostTypes' /\ Links' /\ Work' /\ SameWork /\ SameTasks /\ conn' = conn /\ hosted' = hosted
         /\ attached_session' = attached_session /\ task' = task
<1>1. hosted' = hosted /\ task' = task /\ attached_session' = attached_session /\ conn' = conn /\ spent' = spent
  BY DEF hosts
<1>2. HostTypes'
  BY <1>1 DEF Inv, HostTypes
<1>3. Links'
  BY <1>1 DEF Inv, Links, HostLink, SessionLink
<1>4. SameWork
  BY <1>1 DEF SameWork
<1>5. Work'
  BY <1>4, SameWorkKeeps DEF Inv, Work
<1>6. SameTasks
  BY <1>1 DEF SameTasks, Excused
<1> QED
  BY <1>1, <1>2, <1>3, <1>4, <1>5, <1>6

\* The client has decided what comes next, and at most dropped connections.
LEMMA QuietInv ==
  ASSUME Inv, UNCHANGED hosts, Present(at), rt' \in {rt, Refreshed(rt)}, Gentle(at')
  PROVE  Inv'
<1>1. /\ HostTypes' /\ Links' /\ Work' /\ SameTasks /\ conn' = conn /\ hosted' = hosted
      /\ attached_session' = attached_session
  BY SameHosts
<1>2. /\ rt' \in Runtime /\ rt'.connection = rt.connection /\ rt'.active = rt.active
      /\ rt'.parked \in {rt.parked, Listed} /\ rt'.activity = rt.activity /\ rt'.local = rt.local
  <2>1. rt \in Runtime
    BY DEF Inv, Place
  <2> QED
    BY <2>1, RefreshedFields DEF Alike, SameNote, Listed
<1>3. WellPlaced(at') /\ Present(at')
  BY DEF Gentle
<1>4. Place' /\ ActiveIsAttached'
  BY <1>1, <1>2, <1>3, StayPlace DEF Inv
<1>5. Mind'
  BY <1>1, <1>2, QuietMind DEF Inv, Now
<1> QED
  BY <1>1, <1>4, <1>5 DEF Inv

\* The client looks at its session, and goes to a place where it has its
\* conversation as before.
LEMMA LookInv ==
  ASSUME Inv, UNCHANGED hosts, Present(at), WellPlaced(at'), Present(at'),
         rt' \in Runtime, Alike(rt', rt), rt'.parked \in {rt.parked, Listed}, rt'.local = rt.local, rt'.activity = Now,
         \A u \in Turn : rt.activity = u /\ rt.active = rt.local.of /\ Now # u => Excused(u),
         at'.watched \in {Nil, at.watched},
         at'.pc \in {"push", "attach"} => at'.watched = Nil /\ (Now \in Turn /\ rt.active = rt.local.of => Excused(Now)),
         at'.pc \in {"focus", "focus_switch"} => Now = ShellJob
  PROVE  Inv'
<1>1. /\ HostTypes' /\ Links' /\ Work' /\ SameTasks /\ conn' = conn /\ hosted' = hosted
      /\ attached_session' = attached_session
  BY SameHosts
<1>2. rt'.connection = rt.connection /\ rt'.active = rt.active
  BY DEF Alike
<1>3. Place' /\ ActiveIsAttached'
  BY <1>1, <1>2, StayPlace DEF Inv
<1>4. \A u \in Turn : rt.activity = u /\ rt.active = rt.local.of /\ Now # u => Excused(u)'
  BY <1>1 DEF SameTasks
<1>5. Mind'
  BY <1>1, <1>2, <1>4, LookMind DEF Inv, Now, Work
<1> QED
  BY <1>1, <1>3, <1>5 DEF Inv

\* The client looks at its session and takes its conversation.
LEMMA FreshInv ==
  ASSUME Inv, UNCHANGED hosts, Present(at), Current, Calm(at'),
         rt' \in Runtime, Alike(rt', rt), rt'.parked \in {rt.parked, Listed},
         rt'.local = Restored(rt.active), rt'.activity = Now
  PROVE  Inv'
<1>1. /\ HostTypes' /\ Links' /\ Work' /\ conn' = conn /\ hosted' = hosted
      /\ attached_session' = attached_session
  BY SameHosts
<1>2. rt'.connection = rt.connection /\ rt'.active = rt.active
  BY DEF Alike
<1>3. WellPlaced(at') /\ Present(at')
  BY CalmPlace
<1>4. Place' /\ ActiveIsAttached'
  BY <1>1, <1>2, <1>3, StayPlace DEF Inv
<1>5. rt.active \in Session /\ hosted[rt.active].status = "open"
  BY Presence DEF Inv
<1>6. rt'.local.of = rt.active /\ rt'.local.turns = hosted[rt.active].turns
  BY <1>5, RestoredFields DEF Inv
<1>7. PICK s \in Session : s = rt.active
  BY <1>5
<1>8. Mind'
  BY <1>1, <1>2, <1>5, <1>6, <1>7, FreshMind DEF Now
<1> QED
  BY <1>1, <1>4, <1>8 DEF Inv

\* The client goes to a session that is there.
LEMMA SwitchInv ==
  ASSUME Inv, NEW s \in Session, SwitchTo(s), Arrived(rt', s, hosted[s].host), Calm(at'),
         rt'.activity = hosted[s].activity, rt'.local = Restored(s)
  PROVE  Inv'
<1>1. conn' = conn /\ task' = task /\ spent' = spent /\ conn[hosted[s].host] = "open"
  BY DEF SwitchTo, Reachable
<1>2. /\ HostTypes' /\ Links' /\ SameWork /\ attached_session'[hosted[s].host] = s /\ hosted[s].host \in Host
  BY <1>1, AttachesLinks DEF Inv, SwitchTo, HostTypes
<1>3. Work'
  BY <1>2, SameWorkKeeps DEF Inv, Work
<1>4. WellPlaced(at') /\ Present(at')
  BY CalmPlace
<1>5. hosted'[s].host = hosted[s].host /\ hosted'[s].status = "open" /\ hosted'[s].activity = hosted[s].activity
      /\ hosted'[s].turns = hosted[s].turns
  BY <1>2 DEF SameWork, SwitchTo, Attachable
<1>6. PICK h \in Host : h = hosted[s].host
  BY <1>2
<1>7. /\ rt' \in Runtime /\ rt'.active = s /\ rt'.connection = h /\ h \notin rt'.parked
      /\ \A g \in Host : conn'[g] = "open" => g \in rt'.parked \cup {h}
  BY <1>1, <1>6 DEF Arrived
<1>8. Place' /\ ActiveIsAttached'
  BY <1>2, <1>4, <1>5, <1>6, <1>7, MovePlace
<1>9. rt'.local.of = s /\ rt'.local.turns = hosted[s].turns
  BY RestoredFields DEF Inv
<1>10. Mind'
  BY <1>2, <1>3, <1>5, <1>7, <1>9, FreshMind
<1> QED
  BY <1>2, <1>3, <1>8, <1>10 DEF Inv

\* The client goes to a session that it creates beside its own.
LEMMA CreateInv ==
  ASSUME Inv, Present(at), NEW s \in Session, NEW m \in {0, 1}, CreateNew(s, m), Arrived(rt', s, rt.connection),
         Calm(at'), rt'.activity = Idle, rt'.local.of = s, rt'.local.turns = {}
  PROVE  Inv'
<1>1. conn' = conn /\ task' = task /\ spent' = spent /\ conn[rt.connection] = "open" /\ Creates(s, rt.connection, m)
  BY DEF CreateNew, Current, Connected
<1>2. PICK h \in Host : h = rt.connection
  BY Presence DEF Inv
<1>3. /\ HostTypes' /\ Links' /\ attached_session'[h] = s /\ hosted[s].status = "unborn"
      /\ hosted'[s].status = "open" /\ hosted'[s].host = h
      /\ \A x \in Session : /\ hosted'[x].activity = hosted[x].activity /\ hosted'[x].turns = hosted[x].turns
                            /\ x # s => hosted'[x].status = hosted[x].status /\ hosted'[x].host = hosted[x].host
  BY <1>1, <1>2, CreatesLinks DEF Inv, HostTypes
<1>4. Work'
  BY <1>1, <1>3, CreatesKeeps DEF Inv, Work
<1>5. WellPlaced(at') /\ Present(at')
  BY CalmPlace
<1>6. /\ rt' \in Runtime /\ rt'.active = s /\ rt'.connection = h /\ h \notin rt'.parked
      /\ \A g \in Host : conn'[g] = "open" => g \in rt'.parked \cup {h}
  BY <1>1, <1>2 DEF Arrived
<1>7. Place' /\ ActiveIsAttached'
  BY <1>3, <1>5, <1>6, MovePlace
<1>8. hosted'[s].activity = Idle /\ hosted'[s].turns = {}
  BY <1>3 DEF Inv, Links, SessionLink
<1>9. Mind'
  BY <1>3, <1>4, <1>6, <1>8, FreshMind
<1> QED
  BY <1>3, <1>4, <1>7, <1>9 DEF Inv

\* The process ends.
LEMMA EndsInv ==
  ASSUME Inv, Ends
  PROVE  Inv'
<1>1. HostTypes' /\ Links' /\ SameWork
  BY EndsLinks DEF Inv
<1>2. Work'
  BY <1>1, SameWorkKeeps DEF Inv, Work
<1>3. Place' /\ ActiveIsAttached'
  BY EndsPlace
<1>4. at'.pc = "gone" /\ at'.watched = Nil /\ rt'.activity = Idle /\ rt'.local.turns = {}
  BY NowAtFields DEF Ends, NoRuntime, Pc
<1>5. Mind'
  BY <1>4, AwayMind, Constants DEF Present
<1> QED
  BY <1>1, <1>2, <1>3, <1>5 DEF Inv

-----------------------------------------------------------------------------
(* The prompt.                                                             *)

\* Where the client starts.
LEMMA InvStart ==
  ASSUME ClientInit
  PROVE  Inv
<1>1. /\ hosted = [s \in Session |-> [status |-> "unborn", host |-> Nil, controller |-> Nil, activity |-> Idle, turns |-> {}, model |-> 0]]
      /\ task = [t \in Turn |-> NoTask] /\ attached_session = [h \in Host |-> Nil] /\ conn = [h \in Host |-> "none"]
      /\ spent = 0 /\ rt = NoRuntime /\ at = NowAt("gone")
  BY DEF ClientInit
<1>2. [status |-> "unborn", host |-> Nil, controller |-> Nil, activity |-> Idle, turns |-> {}, model |-> 0] \in Hosted
  BY Constants DEF Hosted
<1>3. NoTask \in Task
  BY DEF NoTask, Task
<1>4. HostTypes
  BY <1>1, <1>2, <1>3, Constants DEF HostTypes
<1>5. Links
  BY <1>1, Constants DEF Links, HostLink, SessionLink
<1>6. at \in At /\ at.pc = "gone" /\ at.watched = Nil
  BY <1>1, NowAtFields DEF Pc
<1>7. WellPlaced(at)
  BY <1>6 DEF WellPlaced, Follows
<1>8. rt \in Runtime /\ rt.connection = Nil /\ rt.parked = {} /\ rt.activity = Idle /\ rt.local.turns = {}
  <2>1. <<>> \in Seq(Session)
    OBVIOUS
  <2>2. Idle \in 0..ShellJob
    BY Constants
  <2> QED
    BY <1>1, <2>1, <2>2 DEF NoRuntime, Runtime, Conversation
<1>9. Place /\ ActiveIsAttached
  BY <1>1, <1>6, <1>7, <1>8 DEF Place, ActiveIsAttached
<1>10. Work
  BY <1>1, Constants DEF Work, Tasks, TaskFits, TurnIsKept, NoTask
<1>11. Mind
  BY <1>6, <1>8, Constants DEF Mind, Noted, Untracked, Keeps, Present
<1> QED
  BY <1>4, <1>5, <1>9, <1>10, <1>11 DEF Inv

\* The client starts.
LEMMA InvStartClient ==
  ASSUME Inv, NEW s \in Session, StartClient(s)
  PROVE  Inv'
<1>1. /\ HostTypes /\ Links /\ Place /\ ActiveIsAttached /\ at.pc = "gone" /\ conn' = [conn EXCEPT ![Home] = "open"]
      /\ task' = task /\ spent' = spent
  BY DEF Inv, StartClient
<1>2. /\ conn' \in [Host -> {"none", "open", "lost"}] /\ conn'[Home] = "open" /\ \A g \in Host \ {Home} : conn'[g] = conn[g]
      /\ Home \in Host /\ \A g \in Host : conn[g] # "open"
  BY <1>1, Constants DEF HostTypes, Place
<1>3. /\ HostTypes' /\ Links' /\ Work' /\ attached_session'[Home] = s
      /\ hosted'[s].status = "open" /\ hosted'[s].host = Home
      /\ hosted'[s].activity = hosted[s].activity /\ hosted'[s].turns = hosted[s].turns
  <2>1. CASE Creates(s, Home, 0)
    <3>1. /\ HostTypes' /\ Links' /\ attached_session'[Home] = s /\ hosted[s].status = "unborn"
          /\ hosted'[s].status = "open" /\ hosted'[s].host = Home
          /\ \A x \in Session : /\ hosted'[x].activity = hosted[x].activity /\ hosted'[x].turns = hosted[x].turns
                                /\ x # s => hosted'[x].status = hosted[x].status /\ hosted'[x].host = hosted[x].host
      BY <1>1, <1>2, <2>1, CreatesLinks
    <3>2. Work'
      BY <1>1, <3>1, CreatesKeeps DEF Inv, Work
    <3> QED
      BY <3>1, <3>2
  <2>2. CASE hosted[s].host = Home /\ Attachable(s) /\ Attaches(s)
    <3>1. HostTypes' /\ Links' /\ SameWork /\ attached_session'[Home] = s
      BY <1>1, <1>2, <2>2, AttachesLinks
    <3>2. Work'
      BY <3>1, SameWorkKeeps DEF Inv, Work
    <3> QED
      BY <2>2, <3>1, <3>2 DEF SameWork, Attachable
  <2> QED
    BY <2>1, <2>2 DEF StartClient
<1>4. PICK l \in Conversation, n \in 0..ShellJob : l = Restored(s) /\ n = hosted[s].activity
  BY <1>1, RestoredFields, HostedFields DEF HostTypes
<1>5. NoRuntime \in Runtime /\ NoRuntime.parked = {}
  <2>1. <<>> \in Seq(Session)
    OBVIOUS
  <2>2. Idle \in 0..ShellJob
    BY Constants
  <2> QED
    BY <2>1, <2>2 DEF NoRuntime, Runtime, Conversation
<1>6. rt' = [NoRuntime EXCEPT !.connection = Home, !.active = s, !.activity = n, !.local = l]
  BY <1>4 DEF StartClient
<1>7. rt' \in Runtime /\ rt'.connection = Home /\ rt'.active = s /\ rt'.activity = n /\ rt'.local = l /\ rt'.parked = {}
  BY <1>2, <1>5, <1>6 DEF Runtime
<1>8. Calm(at')
  BY CalmResume DEF StartClient, Pc
<1>9. WellPlaced(at') /\ Present(at')
  BY <1>8, CalmPlace
<1>10. \A g \in Host : conn'[g] = "open" => g \in rt'.parked \cup {Home}
  BY <1>2
<1>11. Place' /\ ActiveIsAttached'
  BY <1>2, <1>3, <1>7, <1>9, <1>10, MovePlace
<1>12. rt'.local.of = s /\ rt'.local.turns = hosted'[s].turns
  BY <1>1, <1>3, <1>4, <1>7, RestoredFields
<1>13. Mind'
  BY <1>3, <1>4, <1>7, <1>8, <1>12, FreshMind
<1> QED
  BY <1>3, <1>11, <1>13 DEF Inv

\* take_finished_turn.
LEMMA InvTakeFinishedTurn ==
  ASSUME Inv, TakeFinishedTurn
  PROVE  Inv'
<1>1. Present(at) /\ UNCHANGED hosts /\ Calm(at') /\ rt \in Runtime
  BY CalmNow DEF TakeFinishedTurn, Present, CalmPc, Inv, Place
<1>2. WellPlaced(at') /\ Present(at') /\ at'.watched = Nil /\ at'.pc \notin {"push", "attach", "focus", "focus_switch"}
  BY <1>1, CalmPlace
<1>3. rt.active \in Session /\ Now \in 0..ShellJob
  BY <1>1, Presence, HostedFields DEF Inv, Now
<1>7. PICK n \in 0..ShellJob, k \in Conversation : n = Now /\ k = rt.local
  BY <1>1, <1>3, RuntimeFields
<1>4. CASE rt.activity \in Turn /\ Current /\ Now \in Turn
  <2>1. rt' = [rt EXCEPT !.activity = n, !.local = k]
    BY <1>4, <1>7 DEF TakeFinishedTurn
  <2>2. rt' \in Runtime /\ Alike(rt', rt) /\ rt'.parked = rt.parked /\ rt'.local = rt.local /\ rt'.activity = Now
    BY <1>1, <1>7, <2>1 DEF Runtime, Alike
  <2>3. Now = rt.activity
    BY <1>1, <1>4 DEF Inv, Mind, Noted
  <2> QED
    BY <1>1, <1>2, <2>2, <2>3, LookInv
<1>5. CASE rt.activity \in Turn /\ Current /\ Now \notin Turn
  <2>1. PICK l \in Conversation : l = Restored(rt.active)
    BY <1>3, RestoredFields DEF Inv
  <2>2. rt' = [rt EXCEPT !.activity = n, !.local = l]
    BY <1>5, <1>7, <2>1 DEF TakeFinishedTurn
  <2>3. rt' \in Runtime /\ Alike(rt', rt) /\ rt'.parked = rt.parked /\ rt'.local = l /\ rt'.activity = Now
    BY <1>1, <1>7, <2>2 DEF Runtime, Alike
  <2> QED
    BY <1>1, <1>5, <2>1, <2>3, FreshInv
<1>6. CASE ~(rt.activity \in Turn /\ Current)
  <2>1. rt' = rt
    BY <1>6 DEF TakeFinishedTurn
  <2> QED
    BY <1>1, <2>1, QuietInv, CalmIsGentle
<1> QED
  BY <1>4, <1>5, <1>6

\* Something starts or ends in a session.
Sets(s, n) == hosted' = [hosted EXCEPT ![s].activity = n]

\* That changes nothing else.
LEMMA SetsFields ==
  ASSUME HostTypes, NEW s \in Session, NEW n \in 0..ShellJob, Sets(s, n)
  PROVE  /\ hosted' \in [Session -> Hosted]
         /\ hosted'[s].activity = n
         /\ \A x \in Session : /\ hosted'[x].turns = hosted[x].turns /\ hosted'[x].status = hosted[x].status
                               /\ hosted'[x].host = hosted[x].host /\ hosted'[x].controller = hosted[x].controller
                               /\ x # s => hosted'[x] = hosted[x]
<1>1. PICK k \in Hosted : k = hosted[s]
  BY DEF HostTypes
<1>2. PICK m \in Hosted : m = [k EXCEPT !.activity = n]
  BY DEF Hosted
<1>3. /\ m.activity = n /\ m.turns = k.turns /\ m.status = k.status /\ m.host = k.host /\ m.controller = k.controller
  BY <1>2 DEF Hosted
<1>4. hosted' = [hosted EXCEPT ![s] = m]
  BY <1>1, <1>2 DEF Sets
<1>5. hosted' \in [Session -> Hosted] /\ hosted'[s] = m /\ \A x \in Session : x # s => hosted'[x] = hosted[x]
  BY <1>4 DEF HostTypes
<1> QED
  BY <1>1, <1>3, <1>5

\* Nobody goes or comes when something starts or ends in an open session.
LEMMA SetsLinks ==
  ASSUME HostTypes, Links, NEW s \in Session, hosted[s].status = "open", NEW n \in 0..ShellJob, Sets(s, n),
         attached_session' = attached_session, conn' = conn, spent' \in 0..MaxEvents, task' \in [Turn -> Task]
  PROVE  HostTypes' /\ Links'
<1>1. hosted' \in [Session -> Hosted]
  BY SetsFields
<1>2. \A x \in Session : /\ hosted'[x].turns = hosted[x].turns /\ hosted'[x].status = hosted[x].status
                         /\ hosted'[x].host = hosted[x].host /\ hosted'[x].controller = hosted[x].controller
                         /\ x # s => hosted'[x] = hosted[x]
  BY SetsFields
<1>3. HostTypes'
  BY <1>1 DEF HostTypes
<1>4. Keeping
  BY <1>2 DEF Keeping
<1>5. \A x \in Session : hosted[x].status # "open" => hosted'[x].activity = hosted[x].activity /\ hosted'[x].turns = hosted[x].turns
  BY <1>2
<1> QED
  BY <1>3, <1>4, <1>5, KeepingLinks

\* The turn that is no longer noted is dismissed, and nothing else happens.
LEMMA DismissedFields ==
  ASSUME HostTypes
  PROVE  /\ Dismissed \in [Turn -> Task]
         /\ \A t \in Turn : /\ Dismissed[t].session = task[t].session /\ Dismissed[t].outcome = task[t].outcome
                            /\ Dismissed[t].recorded = task[t].recorded
                            /\ Dismissed[t].cleared = task[t].cleared /\ Dismissed[t].displaced = task[t].displaced
                            /\ task[t].dismissed => Dismissed[t].dismissed
                            /\ rt.activity = t /\ Now # t => Dismissed[t].dismissed
<1>1. ASSUME NEW t \in Turn
      PROVE  /\ Dismissed[t] \in Task
             /\ Dismissed[t].session = task[t].session /\ Dismissed[t].outcome = task[t].outcome
             /\ Dismissed[t].recorded = task[t].recorded
             /\ Dismissed[t].cleared = task[t].cleared /\ Dismissed[t].displaced = task[t].displaced
             /\ task[t].dismissed => Dismissed[t].dismissed
             /\ rt.activity = t /\ Now # t => Dismissed[t].dismissed
  <2>1. PICK k \in Task : k = task[t]
    BY DEF HostTypes
  <2>2. Dismissed[t] = [k EXCEPT !.dismissed = k.dismissed \/ (rt.activity = t /\ Now # t)]
    BY <2>1 DEF Dismissed
  <2>3. CASE k.dismissed \/ (rt.activity = t /\ Now # t)
    <3>1. Dismissed[t] = [k EXCEPT !.dismissed = TRUE]
      BY <2>2, <2>3
    <3> QED
      BY <2>1, <3>1 DEF Task
  <2>4. CASE ~(k.dismissed \/ (rt.activity = t /\ Now # t))
    <3>1. Dismissed[t] = [k EXCEPT !.dismissed = FALSE]
      BY <2>2, <2>4
    <3> QED
      BY <2>1, <2>4, <3>1 DEF Task
  <2> QED
    BY <2>3, <2>4
<1> QED
  BY <1>1 DEF Dismissed

\* Commands that only choose what comes next.
LEMMA InvOtherCommand ==
  ASSUME Inv, OtherCommand \/ NoCommand \/ ResumeCommand
  PROVE  Inv'
<1>1. Present(at) /\ UNCHANGED hosts /\ rt' \in {rt, Refreshed(rt)}
  BY DEF OtherCommand, NoCommand, ResumeCommand, AtPrompt, Goes, Present
<1>2. Calm(at')
  BY CalmEnd, CalmNow, CalmResume DEF OtherCommand, NoCommand, ResumeCommand, Goes, CalmPc, Pc
<1> QED
  BY <1>1, <1>2, CalmIsGentle, QuietInv

\* Commands that begin with sync().
LEMMA InvSyncedCommand ==
  ASSUME Inv, NEW then \in {"switch", "create", "connect", "close", "detach", "leave"}, SyncedCommand(then)
  PROVE  Inv'
<1>1. Present(at) /\ UNCHANGED hosts /\ rt' \in {rt, Refreshed(rt)}
  BY DEF SyncedCommand, AtPrompt, Goes, Present
<1>2. Calm(at')
  BY CalmSync DEF SyncedCommand, Goes, Thens
<1> QED
  BY <1>1, <1>2, CalmIsGentle, QuietInv

\* //stop.
LEMMA InvStopAsked ==
  ASSUME Inv, NEW back \in {"sync", "top"}, StopAsked(back)
  PROVE  Inv'
<1>1. Present(at) /\ UNCHANGED hosts /\ rt' \in {rt, Refreshed(rt)} /\ at' = [NowAt("stop") EXCEPT !.from = back]
  BY DEF StopAsked, AtPrompt, Goes, Present
<1>2. "stop" \in Pc /\ back \in Pc
  BY DEF Pc
<1>3. NowAt("stop") \in At /\ NowAt("stop").pc = "stop" /\ NowAt("stop").watched = Nil
  BY <1>2, NowAtFields
<1>4. at' \in At /\ at'.pc = "stop" /\ at'.watched = Nil /\ at'.from = back
  BY <1>1, <1>2, <1>3 DEF At
<1>5. Gentle(at')
  BY <1>4 DEF Gentle, WellPlaced, Follows, Present
<1> QED
  BY <1>1, <1>5, QuietInv

\* The escape keys at the prompt, and //switch.
LEMMA InvSwitchCommand ==
  ASSUME Inv, NEW s \in Session, PromptSwitches(s) \/ SwitchCommand(s) \/ FollowSwitches(s)
  PROVE  Inv'
<1>1. Present(at) /\ SwitchTo(s) /\ rt' = Refreshed([Switched(s) EXCEPT !.local = Restored(s)])
  BY DEF PromptSwitches, SwitchCommand, FollowSwitches, AtPrompt, Present
<1>2. Calm(at')
  <2>1. CASE PromptSwitches(s) \/ SwitchCommand(s)
    BY <2>1, CalmResume DEF PromptSwitches, SwitchCommand, Pc
  <2>2. CASE FollowSwitches(s)
    <3>1. at \in At /\ at' = [at EXCEPT !.pc = "resume", !.watched = Nil]
      BY <2>2 DEF FollowSwitches, Inv, Place, WellPlaced
    <3>2. "resume" \in Pc
      BY DEF Pc
    <3>3. at' \in At /\ at'.pc = "resume" /\ at'.watched = Nil
      BY <3>1, <3>2 DEF At
    <3> QED
      BY <3>3 DEF Calm, WellPlaced, Follows, CalmPc
  <2> QED
    BY <2>1, <2>2
<1>3. HostTypes /\ Place /\ ActiveIsAttached /\ rt.connection \in Host /\ hosted[s].host \in Host
  BY <1>1, Presence DEF Inv, Links, SessionLink, SwitchTo, Attachable
<1>4. PICK l \in Conversation : l = Restored(s)
  BY <1>3, RestoredFields
<1>5. PICK w \in Runtime : w = Switched(s) /\ Arrived(w, s, hosted[s].host) /\ w.activity = hosted[s].activity
  BY <1>3, SwitchedFields DEF Arrived
<1>6. PICK v : v = [w EXCEPT !.local = l]
  OBVIOUS
<1>7. Arrived(v, s, hosted[s].host) /\ v.activity = hosted[s].activity /\ v.local = l
  BY <1>5, <1>6, ArrivedLocal
<1>8. rt' = Refreshed(v)
  BY <1>1, <1>4, <1>5, <1>6
<1>9. Arrived(rt', s, hosted[s].host) /\ rt'.activity = hosted[s].activity /\ rt'.local = Restored(s)
  BY <1>4, <1>7, <1>8, ArrivedRefreshed DEF SameNote
<1> QED
  BY <1>1, <1>2, <1>9, SwitchInv

\* The escape keys at the prompt, and //new.
LEMMA InvCreateCommand ==
  ASSUME Inv, NEW s \in Session, PromptCreates(s) \/ CreateCommand(s) \/ FollowCreates(s)
  PROVE  Inv'
<1>1. Present(at)
  BY DEF PromptCreates, CreateCommand, FollowCreates, AtPrompt, Present
<1>2. HostTypes /\ Place /\ ActiveIsAttached /\ rt.connection \in Host /\ rt \in Runtime /\ hosted[rt.active] \in Hosted
  BY <1>1, Presence DEF Inv, Place
<1>3. SiblingModel \in {0, 1} /\ rt.local.model \in {0, 1}
  BY <1>2, HostedFields, RuntimeFields DEF SiblingModel
<1>4. PICK m \in {0, 1} : CreateNew(s, m) /\ rt' = Refreshed(Created(s, m))
  BY <1>3 DEF PromptCreates, CreateCommand, FollowCreates
<1>5. Calm(at')
  <2>1. CASE PromptCreates(s) \/ CreateCommand(s)
    BY <2>1, CalmResume, CalmEnd DEF PromptCreates, CreateCommand, Pc
  <2>2. CASE FollowCreates(s)
    <3>1. at \in At /\ at' = [at EXCEPT !.pc = "resume", !.watched = Nil]
      BY <2>2 DEF FollowCreates, Inv, Place, WellPlaced
    <3>2. "resume" \in Pc
      BY DEF Pc
    <3>3. at' \in At /\ at'.pc = "resume" /\ at'.watched = Nil
      BY <3>1, <3>2 DEF At
    <3> QED
      BY <3>3 DEF Calm, WellPlaced, Follows, CalmPc
  <2> QED
    BY <2>1, <2>2
<1>6. /\ Arrived(Created(s, m), s, rt.connection) /\ Created(s, m).activity = Idle
      /\ Created(s, m).local.of = s /\ Created(s, m).local.turns = {}
  BY <1>2, CreatedFields
<1>7. Arrived(rt', s, rt.connection) /\ rt'.activity = Idle /\ rt'.local.of = s /\ rt'.local.turns = {}
  BY <1>4, <1>6, ArrivedRefreshed DEF SameNote
<1> QED
  BY <1>1, <1>4, <1>5, <1>7, CreateInv

\* More excuses leave the turns as they are.
LEMMA ExcusingKeeps ==
  ASSUME HostTypes, Tasks, TurnIsKept, SameTasks,
         \A s \in Session : /\ hosted'[s].activity = hosted[s].activity /\ hosted'[s].turns = hosted[s].turns
                            /\ hosted'[s].status = hosted[s].status
  PROVE  Work'
<1>1. ASSUME NEW t \in Turn PROVE TaskFits(t)'
  <2>1. TaskFits(t) /\ task[t] \in Task
    BY DEF Tasks, HostTypes
  <2>2. task[t].session \in Session \cup {Nil}
    BY <2>1, TaskFields
  <2> QED
    BY <2>1, <2>2 DEF TaskFits, SameTasks
<1>2. TurnIsKept'
  <2>1. SUFFICES ASSUME NEW t \in Turn, task'[t].recorded, hosted'[task'[t].session].status = "open",
                        t \notin hosted'[task'[t].session].turns
                 PROVE  Excused(t)'
    BY DEF TurnIsKept, Excused
  <2>2. TaskFits(t) /\ task[t] \in Task
    BY DEF Tasks, HostTypes
  <2>3. task[t].session \in Session
    BY <2>1, <2>2, TaskFields DEF TaskFits, SameTasks
  <2>4. Excused(t)
    BY <2>1, <2>3 DEF TurnIsKept, Excused, SameTasks
  <2> QED
    BY <2>4 DEF SameTasks
<1> QED
  BY <1>1, <1>2 DEF Work, Tasks

\* The dismissal is such an excuse.
LEMMA DismissedSame ==
  ASSUME HostTypes, task' = Dismissed
  PROVE  /\ SameTasks /\ task' \in [Turn -> Task]
         /\ \A t \in Turn : rt.activity = t /\ Now # t => Excused(t)'
<1>1. \A t \in Turn : /\ task'[t].session = task[t].session /\ task'[t].outcome = task[t].outcome
                      /\ task'[t].recorded = task[t].recorded
                      /\ task'[t].cleared = task[t].cleared /\ task'[t].displaced = task[t].displaced
                      /\ task[t].dismissed => task'[t].dismissed
                      /\ rt.activity = t /\ Now # t => task'[t].dismissed
  BY DismissedFields
<1>2. \A t \in Turn : Excused(t) => Excused(t)'
  BY <1>1 DEF Excused
<1>3. \A t \in Turn : rt.activity = t /\ Now # t => Excused(t)'
  BY <1>1 DEF Excused
<1> QED
  BY <1>1, <1>2, <1>3, DismissedFields DEF SameTasks

\* A turn is submitted.
LEMMA InvSubmit ==
  ASSUME Inv, NEW t \in Turn, Submit(t)
  PROVE  Inv'
<1>1. Present(at) /\ task[t] = NoTask /\ at.pc = "prompt"
  BY DEF Submit, AtPrompt, Present
<1>2. CASE ~(Current /\ Now = Idle)
  <2>1. UNCHANGED hosts /\ rt' = rt /\ at' = NowAt("top")
    BY <1>2 DEF Submit, Goes
  <2> QED
    BY <1>1, <2>1, CalmNow, CalmIsGentle, QuietInv DEF CalmPc
<1>3. CASE Current /\ Now = Idle
  <2>0. PICK s \in Session, h \in Host : s = rt.active /\ h = rt.connection /\ hosted[s].status = "open"
    BY <1>1, <1>3, Presence DEF Inv
  <2>1. /\ task' = [Dismissed EXCEPT ![t] = [NoTask EXCEPT !.session = s, !.outcome = "running"]]
        /\ Sets(s, t) /\ rt' = [rt EXCEPT !.activity = t] /\ at' = [NowAt("resume") EXCEPT !.back = "top"]
        /\ attached_session' = attached_session /\ conn' = conn /\ spent' = spent
    BY <1>3, <2>0 DEF Submit, Sets
  <2>2. PICK k \in Task : k = [NoTask EXCEPT !.session = s, !.outcome = "running"]
    BY DEF NoTask, Task
  <2>3. k.session = s /\ k.outcome = "running" /\ ~k.recorded
    BY <2>2 DEF NoTask
  <2>4. PICK d \in [Turn -> Task] : d = Dismissed
    BY DismissedFields DEF Inv
  <2>5. task' \in [Turn -> Task] /\ task'[t] = k /\ \A u \in Turn : u # t => task'[u] = Dismissed[u]
    BY <2>1, <2>2, <2>4
  <2>6. \A u \in Turn : u # t =>
          /\ task'[u].session = task[u].session /\ task'[u].outcome = task[u].outcome /\ task'[u].recorded = task[u].recorded
          /\ task[u].dismissed => task'[u].dismissed
          /\ task[u].cleared = task'[u].cleared /\ task[u].displaced = task'[u].displaced
          /\ rt.activity = u => task'[u].dismissed
    <3>1. \A u \in Turn : Now # u
      BY <1>3, Constants
    <3> QED
      BY <2>5, <3>1, DismissedFields DEF Inv
  <2>7. t \in 0..ShellJob /\ HostTypes /\ Links /\ Tasks /\ TurnIsKept
    BY Constants DEF Inv, Work
  <2>8. HostTypes' /\ Links'
    BY <2>0, <2>1, <2>5, <2>7, SetsLinks DEF HostTypes
  <2>9. /\ hosted'[s].activity = t
        /\ \A x \in Session : /\ hosted'[x].turns = hosted[x].turns /\ hosted'[x].status = hosted[x].status
                              /\ hosted'[x].host = hosted[x].host
                              /\ x # s => hosted'[x] = hosted[x]
    BY <2>1, <2>7, SetsFields
  <2>10. ~task[t].recorded /\ task[t].session = Nil
    BY <1>1 DEF NoTask
  <2>11. \A x \in Session : t \notin hosted[x].turns /\ hosted[x].activity # t
    BY <2>7, <2>10, Constants DEF Tasks, TaskFits
  <2>12. ASSUME NEW u \in Turn PROVE TaskFits(u)'
    <3>1. CASE u = t
      <4>1. \A x \in Session : hosted'[x].activity = t => x = s
        BY <2>9, <2>11
      <4> QED
        BY <2>0, <2>3, <2>5, <2>9, <2>11, <3>1, <4>1, Constants DEF TaskFits
    <3>2. CASE u # t
      <4>1. TaskFits(u) /\ task[u].session \in Session \cup {Nil} /\ hosted[s].activity # u
        BY <1>3, <2>0, <2>7, TaskFields, Constants DEF Tasks, HostTypes, Now
      <4>2. task'[u].session = task[u].session /\ task'[u].outcome = task[u].outcome /\ task'[u].recorded = task[u].recorded
        BY <2>6, <3>2
      <4> QED
        BY <2>9, <3>2, <4>1, <4>2 DEF TaskFits
    <3> QED
      BY <3>1, <3>2
  <2>13. TurnIsKept'
    <3>1. SUFFICES ASSUME NEW u \in Turn, task'[u].recorded, hosted'[task'[u].session].status = "open",
                          u \notin hosted'[task'[u].session].turns
                   PROVE  Excused(u)'
      BY DEF TurnIsKept, Excused
    <3>2. u # t
      BY <2>3, <2>5, <3>1
    <3>3. TaskFits(u) /\ task[u] \in Task
      BY <2>7 DEF Tasks, HostTypes
    <3>4. task[u].session \in Session /\ task[u].recorded
      BY <2>6, <3>1, <3>2, <3>3, TaskFields DEF TaskFits
    <3>5. Excused(u)
      BY <2>6, <2>7, <2>9, <3>1, <3>2, <3>4 DEF TurnIsKept, Excused
    <3> QED
      BY <2>6, <3>2, <3>5 DEF Excused
  <2>14. rt \in Runtime
    BY DEF Inv, Place
  <2>15. rt' \in Runtime /\ Alike(rt', rt) /\ rt'.parked = rt.parked /\ rt'.local = rt.local /\ rt'.activity = t
    BY <2>1, <2>7, <2>14 DEF Runtime, Alike
  <2>16. Calm(at')
    BY <2>1, CalmResume DEF Pc
  <2>17. WellPlaced(at') /\ Present(at') /\ at'.watched = Nil /\ at'.pc \notin {"push", "attach", "focus", "focus_switch"}
    BY <2>16, CalmPlace
  <2>18. Place' /\ ActiveIsAttached'
    BY <1>1, <2>1, <2>8, <2>9, <2>15, <2>17, StayPlace DEF Inv, Alike
  <2>19. Noted'
    <3>1. Now' = t
      BY <2>0, <2>9, <2>15 DEF Now, Alike
    <3> QED
      BY <2>0, <2>3, <2>5, <2>15, <2>17, <3>1 DEF Noted, Alike
  <2>20. \A u \in rt'.local.turns : task'[u].recorded
    <3>1. rt.local.turns \subseteq Turn /\ \A u \in rt.local.turns : task[u].recorded
      BY <2>14, RuntimeFields DEF Inv, Mind, Keeps
    <3> QED
      BY <2>6, <2>10, <2>15, <3>1
  <2>21. ASSUME NEW u \in Turn, task'[u].session = rt'.local.of PROVE Kept(u)'
    <3>1. CASE u = t
      BY <2>0, <2>3, <2>5, <2>15, <2>21, <3>1 DEF Kept, Alike
    <3>2. CASE u # t
      <4>1. Kept(u)
        BY <1>1, <2>6, <2>15, <2>21, <3>2 DEF Inv, Mind, Keeps
      <4>2. Excused(u) \/ rt.activity = u => Excused(u)'
        BY <2>6, <3>2 DEF Excused
      <4> QED
        BY <2>6, <2>15, <3>2, <4>1, <4>2 DEF Kept
    <3> QED
      BY <3>1, <3>2
  <2>22. Untracked'
    BY <2>17 DEF Untracked
  <2> QED
    BY <2>8, <2>12, <2>13, <2>18, <2>19, <2>20, <2>21, <2>22 DEF Inv, Work, Tasks, Mind, Keeps
<1> QED
  BY <1>2, <1>3

\* A job starts or ends where no turn runs.
LEMMA SetsKeeps ==
  ASSUME HostTypes, Tasks, TurnIsKept, SameTasks, NEW s \in Session, NEW n \in 0..ShellJob, n \notin Turn, Sets(s, n),
         hosted[s].activity \notin Turn
  PROVE  Work'
<1>0. \A x \in Session : /\ hosted'[x].turns = hosted[x].turns /\ hosted'[x].status = hosted[x].status
                         /\ x # s => hosted'[x] = hosted[x]
  BY SetsFields
<1>4. hosted'[s].activity = n
  BY SetsFields
<1>1. ASSUME NEW t \in Turn PROVE TaskFits(t)'
  <2>1. TaskFits(t) /\ task[t] \in Task
    BY DEF Tasks, HostTypes
  <2>2. task[t].session \in Session \cup {Nil}
    BY <2>1, TaskFields
  <2>3. \A x \in Session : hosted'[x].activity = t <=> hosted[x].activity = t
    BY <1>0, <1>4
  <2> QED
    BY <1>0, <2>1, <2>2, <2>3, Constants DEF TaskFits, SameTasks
<1>2. TurnIsKept'
  <2>1. SUFFICES ASSUME NEW t \in Turn, task'[t].recorded, hosted'[task'[t].session].status = "open",
                        t \notin hosted'[task'[t].session].turns
                 PROVE  Excused(t)'
    BY DEF TurnIsKept, Excused
  <2>2. TaskFits(t) /\ task[t] \in Task
    BY DEF Tasks, HostTypes
  <2>3. task[t].session \in Session
    BY <2>1, <2>2, TaskFields DEF TaskFits, SameTasks
  <2>4. Excused(t)
    BY <1>0, <2>1, <2>3 DEF TurnIsKept, Excused, SameTasks
  <2> QED
    BY <2>4 DEF SameTasks
<1> QED
  BY <1>1, <1>2 DEF Work, Tasks

\* The client notes that no turn runs, and keeps its conversation.
LEMMA ForgetMind ==
  ASSUME Place, Mind, Present(at), WellPlaced(at'), Present(at'), SameTasks,
         rt'.active = rt.active, rt'.activity \notin Turn,
         rt'.local.turns = rt.local.turns, rt'.local.of = rt.local.of,
         \A u \in Turn : hosted'[rt.active].activity = u => task'[u].dismissed /\ at'.watched \in {Nil, u},
         \A u \in Turn : rt.activity = u /\ rt.active = rt.local.of => Excused(u)',
         at'.pc \in {"focus", "focus_switch"} => rt'.activity = ShellJob
  PROVE  Mind'
<1>1. Now' = hosted'[rt.active].activity
  BY DEF Now
<1>2. rt.local.turns \subseteq Turn
  BY RuntimeFields DEF Place
<1>3. Noted'
  BY <1>1 DEF Noted
<1>4. Untracked'
  BY DEF Untracked
<1>5. \A t \in rt'.local.turns : task'[t].recorded
  BY <1>2 DEF Mind, Keeps, SameTasks
<1>6. ASSUME NEW t \in Turn, task'[t].session = rt'.local.of PROVE Kept(t)'
  <2>1. Kept(t)
    BY <1>6 DEF Mind, Keeps, SameTasks
  <2>2. CASE rt.activity = t /\ rt.active = rt.local.of
    <3>1. Excused(t)'
      BY <2>2
    <3> QED
      BY <3>1 DEF Kept
  <2>3. CASE ~(rt.activity = t /\ rt.active = rt.local.of)
    BY <2>1, <2>3 DEF Kept, SameTasks
  <2> QED
    BY <2>2, <2>3
<1> QED
  BY <1>3, <1>4, <1>5, <1>6 DEF Mind, Keeps

\* A job is started.
LEMMA InvShellCommand ==
  ASSUME Inv, ShellCommand
  PROVE  Inv'
<1>1. Present(at) /\ at.pc = "prompt" /\ HostTypes /\ Links /\ Tasks /\ TurnIsKept /\ rt \in Runtime
      /\ rt.active \in Session /\ "focus" \in Pc /\ "focus_over" \in Pc /\ "prompt" \in Pc
  <2>1. Present(at) /\ at.pc = "prompt"
    BY DEF ShellCommand, AtPrompt, Present
  <2> QED
    BY <2>1, Presence DEF Inv, Work, Place, Pc
<1>2. CASE ~(Current /\ Now = Idle)
  <2>1. UNCHANGED hosts /\ rt' = rt
        /\ at' = [NowAt("focus_over") EXCEPT !.from = "prompt", !.was = rt.active, !.ok = FALSE]
    BY <1>2 DEF ShellCommand, Goes
  <2>2. NowAt("focus_over") \in At /\ NowAt("focus_over").pc = "focus_over" /\ NowAt("focus_over").watched = Nil
    BY <1>1, NowAtFields
  <2>3. at' \in At /\ at'.pc = "focus_over" /\ at'.watched = Nil
    BY <1>1, <2>1, <2>2 DEF At
  <2>4. Calm(at')
    BY <2>3 DEF Calm, WellPlaced, Follows, CalmPc
  <2> QED
    BY <1>1, <2>1, <2>4, CalmIsGentle, QuietInv
<1>3. CASE Current /\ Now = Idle
  <2>0. PICK s \in Session : s = rt.active /\ hosted[s].status = "open"
    BY <1>1, <1>3, Presence DEF Inv
  <2>1. /\ task' = Dismissed /\ Sets(s, ShellJob) /\ rt' = [rt EXCEPT !.activity = ShellJob]
        /\ at' = [NowAt("focus") EXCEPT !.from = "prompt", !.was = s]
        /\ attached_session' = attached_session /\ conn' = conn /\ spent' = spent + 1 /\ spent < MaxEvents
    BY <1>3, <2>0 DEF ShellCommand, Sets
  <2>2. ShellJob \in 0..ShellJob /\ ShellJob \notin Turn /\ hosted[s].activity \notin Turn /\ spent' \in 0..MaxEvents
    BY <1>1, <1>3, <2>0, <2>1, Constants DEF Now, HostTypes
  <2>3. SameTasks /\ task' \in [Turn -> Task] /\ \A t \in Turn : rt.activity = t /\ Now # t => Excused(t)'
    BY <1>1, <2>1, DismissedSame
  <2>4. HostTypes' /\ Links'
    BY <1>1, <2>0, <2>1, <2>2, <2>3, SetsLinks
  <2>5. Work'
    BY <1>1, <2>1, <2>2, <2>3, SetsKeeps
  <2>6. rt' \in Runtime /\ rt'.connection = rt.connection /\ rt'.active = rt.active /\ rt'.parked = rt.parked
        /\ rt'.local = rt.local /\ rt'.activity = ShellJob
    BY <1>1, <2>1, <2>2 DEF Runtime
  <2>7. NowAt("focus") \in At /\ NowAt("focus").pc = "focus" /\ NowAt("focus").watched = Nil
    BY <1>1, NowAtFields
  <2>8. at' \in At /\ at'.pc = "focus" /\ at'.watched = Nil
    BY <1>1, <2>1, <2>7 DEF At
  <2>9. WellPlaced(at') /\ Present(at')
    BY <2>8 DEF WellPlaced, Follows, Present
  <2>10. /\ \A x \in Session : hosted'[x].host = hosted[x].host
         /\ hosted'[s].activity = ShellJob
    BY <1>1, <2>1, <2>2, SetsFields
  <2>11. Place' /\ ActiveIsAttached'
    BY <1>1, <2>1, <2>4, <2>6, <2>9, <2>10, StayPlace DEF Inv
  <2>12. \A t \in Turn : rt.activity = t => Excused(t)'
    BY <1>3, <2>3, Constants
  <2>13. Mind'
    BY <1>1, <2>0, <2>2, <2>3, <2>6, <2>8, <2>9, <2>10, <2>12, ForgetMind DEF Inv
  <2> QED
    BY <2>4, <2>5, <2>11, <2>13 DEF Inv
<1> QED
  BY <1>2, <1>3

\* //model.
LEMMA InvModelCommand ==
  ASSUME Inv, ModelCommand
  PROVE  Inv'
<1>1. Present(at) /\ HostTypes /\ Links /\ Tasks /\ TurnIsKept /\ rt \in Runtime /\ rt.local \in Conversation
  <2>1. Present(at)
    BY DEF ModelCommand, AtPrompt, Present
  <2> QED
    BY <2>1, RuntimeFields DEF Inv, Work, Place
<1>2. /\ rt' = [rt EXCEPT !.local = [rt.local EXCEPT !.turns = {}, !.model = 1]]
      /\ task' = [t \in Turn |-> [task[t] EXCEPT !.cleared = task[t].cleared \/ task[t].session \in {rt.active, rt.local.of}]]
      /\ at' = AtEnd /\ hosted' = hosted /\ attached_session' = attached_session /\ conn' = conn /\ spent' = spent
  BY <1>1 DEF ModelCommand, Runtime, Conversation
<1>3. PICK l \in Conversation : l = [rt.local EXCEPT !.turns = {}, !.model = 1]
  BY <1>1 DEF Conversation
<1>4. l.turns = {} /\ l.of = rt.local.of
  BY <1>1, <1>3 DEF Conversation
<1>5. rt' \in Runtime /\ rt'.connection = rt.connection /\ rt'.active = rt.active /\ rt'.parked = rt.parked
      /\ rt'.activity = rt.activity /\ rt'.local = l
  BY <1>1, <1>2, <1>3 DEF Runtime
<1>6. ASSUME NEW t \in Turn
      PROVE  /\ task'[t] \in Task
             /\ task'[t].session = task[t].session /\ task'[t].outcome = task[t].outcome
             /\ task'[t].recorded = task[t].recorded /\ task'[t].dismissed = task[t].dismissed
             /\ task'[t].displaced = task[t].displaced /\ (task[t].cleared => task'[t].cleared)
             /\ task[t].session \in {rt.active, rt.local.of} => task'[t].cleared
  <2>1. PICK k \in Task : k = task[t]
    BY <1>1 DEF HostTypes
  <2>2. task'[t] = [k EXCEPT !.cleared = k.cleared \/ k.session \in {rt.active, rt.local.of}]
    BY <1>2, <2>1
  <2>3. CASE k.cleared \/ k.session \in {rt.active, rt.local.of}
    <3>1. task'[t] = [k EXCEPT !.cleared = TRUE]
      BY <2>2, <2>3
    <3> QED
      BY <2>1, <3>1 DEF Task
  <2>4. CASE ~(k.cleared \/ k.session \in {rt.active, rt.local.of})
    <3>1. task'[t] = [k EXCEPT !.cleared = FALSE]
      BY <2>2, <2>4
    <3> QED
      BY <2>1, <2>4, <3>1 DEF Task
  <2> QED
    BY <2>3, <2>4
<1>7. SameTasks
  <2>1. \A t \in Turn : Excused(t) => Excused(t)'
    BY <1>6 DEF Excused
  <2> QED
    BY <1>6, <2>1 DEF SameTasks
<1>8. HostTypes' /\ Links'
  <2>1. task' \in [Turn -> Task]
    BY <1>2, <1>6
  <2> QED
    BY <1>1, <1>2, <2>1 DEF HostTypes, Links, HostLink, SessionLink
<1>9. Work'
  BY <1>1, <1>2, <1>7, ExcusingKeeps
<1>10. Calm(at') /\ WellPlaced(at') /\ Present(at') /\ at'.watched = Nil /\ at'.pc \notin {"push", "attach", "focus", "focus_switch"}
  BY <1>2, CalmEnd, CalmPlace
<1>11. Place' /\ ActiveIsAttached'
  BY <1>1, <1>2, <1>5, <1>8, <1>10, StayPlace DEF Inv
<1>12. Noted'
  <2>1. Now' = Now
    BY <1>2, <1>5 DEF Now
  <2> QED
    BY <1>1, <1>5, <1>6, <1>10, <2>1 DEF Inv, Mind, Noted
<1>13. Untracked'
  BY <1>10 DEF Untracked
<1>14. ASSUME NEW t \in Turn, task'[t].session = rt'.local.of PROVE Kept(t)'
  BY <1>4, <1>5, <1>6, <1>14 DEF Kept, Excused
<1> QED
  BY <1>4, <1>5, <1>8, <1>9, <1>11, <1>12, <1>13, <1>14 DEF Inv, Mind, Keeps

-----------------------------------------------------------------------------
(* sync(), and what follows it.                                            *)

\* The session cannot be reached.
LEMMA InvSyncFails ==
  ASSUME Inv, SyncFails
  PROVE  Inv'
<1>1. Present(at) /\ UNCHANGED hosts /\ rt' \in {rt, Refreshed(rt)} /\ SyncReturns(FALSE) /\ WellPlaced(at)
      /\ at.pc \in {"sync", "push"}
  BY DEF SyncFails, Present, Inv, Place
<1>2. Calm(at')
  BY <1>1, SyncLands
<1> QED
  BY <1>1, <1>2, CalmIsGentle, QuietInv

\* A command is refused.
LEMMA InvCommandRefused ==
  ASSUME Inv, CommandRefused
  PROVE  Inv'
<1>1. Present(at) /\ UNCHANGED hosts /\ rt' \in {rt, Refreshed(rt)} /\ Calm(at')
  BY CalmEnd DEF CommandRefused, Present
<1> QED
  BY <1>1, CalmIsGentle, QuietInv

\* The client leaves.
LEMMA InvLeave ==
  ASSUME Inv, DetachCommand \/ Leave
  PROVE  Inv'
<1>1. CASE Ends
  BY <1>1, EndsInv
<1>2. CASE ~Ends
  <2>1. Present(at) /\ UNCHANGED hosts /\ rt' \in {rt, Refreshed(rt)} /\ Calm(at')
    BY <1>2, CalmNow DEF DetachCommand, Leave, Goes, Present, CalmPc
  <2> QED
    BY <2>1, CalmIsGentle, QuietInv
<1> QED
  BY <1>1, <1>2

\* sync() looks at what runs.
LEMMA InvSyncLooks ==
  ASSUME Inv, SyncLooks
  PROVE  Inv'
<1>1. /\ Present(at) /\ UNCHANGED hosts /\ WellPlaced(at) /\ at.pc = "sync" /\ rt \in Runtime /\ rt.activity # Idle
      /\ rt.activity \in Turn \cup {Idle, ShellJob} /\ at \in At /\ at.watched = Nil
  <2>1. Present(at) /\ UNCHANGED hosts /\ WellPlaced(at) /\ at.pc = "sync" /\ rt \in Runtime /\ rt.activity # Idle
    BY DEF SyncLooks, Present, Inv, Place
  <2> QED
    BY <2>1, RuntimeFields DEF WellPlaced, Follows
<1>2. PICK n \in 0..ShellJob : n = Now /\ n \in Turn \cup {Idle, ShellJob}
  BY <1>1, Presence, HostedFields DEF Inv, Now
<1>3. CASE rt' = [rt EXCEPT !.activity = n] /\ Calm(at') /\ (rt.activity \in Turn => n \in Turn)
  <2>1. rt' \in Runtime /\ Alike(rt', rt) /\ rt'.parked = rt.parked /\ rt'.local = rt.local /\ rt'.activity = Now
    BY <1>1, <1>2, <1>3 DEF Runtime, Alike
  <2>2. \A u \in Turn : rt.activity = u => Now = u
    BY <1>1, <1>2, <1>3 DEF Inv, Mind, Noted
  <2>3. WellPlaced(at') /\ Present(at') /\ at'.watched = Nil /\ at'.pc \notin {"push", "attach", "focus", "focus_switch"}
    BY <1>3, CalmPlace
  <2> QED
    BY <1>1, <2>1, <2>2, <2>3, LookInv
<1>4. CASE rt' = rt /\ Calm(at')
  BY <1>1, <1>4, CalmIsGentle, QuietInv
<1>5. CASE rt.activity = ShellJob /\ rt' = [rt EXCEPT !.activity = n] /\ at' = [at EXCEPT !.pc = "push"]
  <2>1. rt' \in Runtime /\ Alike(rt', rt) /\ rt'.parked = rt.parked /\ rt'.local = rt.local /\ rt'.activity = Now
    BY <1>1, <1>2, <1>5 DEF Runtime, Alike
  <2>2. "push" \in Pc
    BY DEF Pc
  <2>3. at' \in At /\ at'.pc = "push" /\ at'.then = at.then /\ at'.watched = Nil
    BY <1>1, <1>5, <2>2 DEF At
  <2>4. WellPlaced(at') /\ Present(at')
    BY <1>1, <2>3 DEF WellPlaced, Follows, Present
  <2>5. Now \in Turn => Excused(Now)
    BY <1>1, <1>5, Constants DEF Inv, Mind, Noted, Excused
  <2> QED
    BY <1>1, <1>5, <2>1, <2>3, <2>4, <2>5, LookInv, Constants
<1>6. \A ok : SyncReturns(ok) => Calm(at')
  BY <1>1, SyncLands
<1>7. CASE rt.activity \in Turn
  <2>1. /\ rt' = IF Now \in Turn THEN [rt EXCEPT !.activity = Now] ELSE rt
        /\ SyncReturns(Now \in Turn => rt.local.model = hosted[rt.active].model)
    BY <1>7 DEF SyncLooks
  <2>2. Calm(at')
    BY <1>6, <2>1
  <2> QED
    BY <1>2, <1>3, <1>4, <2>1, <2>2
<1>8. CASE rt.activity = ShellJob
  <2>1. /\ rt' = [rt EXCEPT !.activity = Now]
        /\ IF Now = ShellJob THEN SyncReturns(Unchanged) ELSE at' = [at EXCEPT !.pc = "push"]
    BY <1>8, Constants DEF SyncLooks
  <2>2. CASE Now = ShellJob
    BY <1>2, <1>3, <1>6, <1>8, <2>1, <2>2, Constants
  <2>3. CASE Now # ShellJob
    BY <1>2, <1>5, <1>8, <2>1, <2>3
  <2> QED
    BY <2>2, <2>3
<1> QED
  BY <1>1, <1>7, <1>8

\* The conversation is pushed.
LEMMA InvSyncPushes ==
  ASSUME Inv, SyncPushes
  PROVE  Inv'
<1>1. /\ Present(at) /\ WellPlaced(at) /\ at.pc \in {"sync", "push"} /\ rt \in Runtime /\ Current /\ HostTypes
      /\ Links /\ Tasks /\ TurnIsKept /\ rt.local \in Conversation /\ rt.local.turns \in SUBSET Turn
      /\ rt.local.model \in {0, 1}
  <2>1. Present(at) /\ WellPlaced(at) /\ at.pc \in {"sync", "push"} /\ rt \in Runtime /\ Current /\ HostTypes
    BY DEF SyncPushes, Present, Inv, Place
  <2> QED
    BY <2>1, RuntimeFields DEF Inv, Work
<1>2. \A ok : SyncReturns(ok) => Calm(at')
  BY <1>1, SyncLands
<1>3. PICK s \in Session : s = rt.active /\ hosted[s].status = "open"
  BY <1>1, Presence DEF Inv
<1>4. \A u \in Turn : rt.activity = u /\ rt.active = rt.local.of => Excused(u)
  BY <1>1, Constants DEF SyncPushes, Inv, Mind, Untracked
<1>5. CASE Now # Idle
  <2>1. /\ rt' = IF Now = ShellJob /\ Unchanged THEN [rt EXCEPT !.activity = ShellJob] ELSE rt
        /\ SyncReturns(Now = ShellJob /\ Unchanged)
        /\ UNCHANGED hosts
    BY <1>5 DEF SyncPushes
  <2>2. Calm(at')
    BY <1>2, <2>1
  <2>3. CASE Now = ShellJob /\ Unchanged
    <3>1. rt' \in Runtime /\ Alike(rt', rt) /\ rt'.parked = rt.parked /\ rt'.local = rt.local /\ rt'.activity = Now
      BY <1>1, <2>1, <2>3, Constants DEF Runtime, Alike
    <3>2. WellPlaced(at') /\ Present(at') /\ at'.watched = Nil /\ at'.pc \notin {"push", "attach", "focus", "focus_switch"}
      BY <2>2, CalmPlace
    <3> QED
      BY <1>1, <1>4, <2>1, <3>1, <3>2, LookInv
  <2>4. CASE ~(Now = ShellJob /\ Unchanged)
    BY <1>1, <2>1, <2>2, <2>4, CalmIsGentle, QuietInv
  <2> QED
    BY <2>3, <2>4
<1>6. CASE Now = Idle
  <2>1. /\ hosted' = [hosted EXCEPT ![s] = [hosted[s] EXCEPT !.turns = rt.local.turns, !.model = rt.local.model]]
        /\ task' = [t \in Turn |->
             [task[t] EXCEPT !.displaced = task[t].displaced \/ (task[t].session = s /\ rt.local.of # s)]]
        /\ rt' = [rt EXCEPT !.activity = Idle]
        /\ SyncReturns(TRUE)
        /\ attached_session' = attached_session /\ conn' = conn /\ spent' = spent
    BY <1>1, <1>3, <1>6 DEF SyncPushes, HostTypes, Hosted
  <2>2. PICK k \in Hosted, c \in SUBSET Turn, m \in {0, 1} : k = hosted[s] /\ c = rt.local.turns /\ m = rt.local.model
    BY <1>1 DEF HostTypes
  <2>3. PICK g \in Hosted : g = [k EXCEPT !.turns = c, !.model = m]
    BY DEF Hosted
  <2>4. /\ g.activity = k.activity /\ g.turns = c /\ g.status = k.status /\ g.host = k.host /\ g.controller = k.controller
    BY <2>3 DEF Hosted
  <2>5. /\ hosted' \in [Session -> Hosted] /\ hosted'[s] = g /\ \A x \in Session : x # s => hosted'[x] = hosted[x]
    BY <1>1, <2>1, <2>2, <2>3 DEF HostTypes
  <2>6. ASSUME NEW t \in Turn
        PROVE  /\ task'[t] \in Task
               /\ task'[t].session = task[t].session /\ task'[t].outcome = task[t].outcome
               /\ task'[t].recorded = task[t].recorded /\ task'[t].dismissed = task[t].dismissed
               /\ task'[t].cleared = task[t].cleared /\ (task[t].displaced => task'[t].displaced)
               /\ task[t].session = s /\ rt.local.of # s => task'[t].displaced
    <3>1. PICK u \in Task : u = task[t]
      BY <1>1 DEF HostTypes
    <3>2. task'[t] = [u EXCEPT !.displaced = u.displaced \/ (u.session = s /\ rt.local.of # s)]
      BY <2>1, <3>1
    <3>3. CASE u.displaced \/ (u.session = s /\ rt.local.of # s)
      <4>1. task'[t] = [u EXCEPT !.displaced = TRUE]
        BY <3>2, <3>3
      <4> QED
        BY <3>1, <4>1 DEF Task
    <3>4. CASE ~(u.displaced \/ (u.session = s /\ rt.local.of # s))
      <4>1. task'[t] = [u EXCEPT !.displaced = FALSE]
        BY <3>2, <3>4
      <4> QED
        BY <3>1, <3>4, <4>1 DEF Task
    <3> QED
      BY <3>3, <3>4
  <2>7. SameTasks
    <3>1. \A t \in Turn : Excused(t) => Excused(t)'
      BY <2>6 DEF Excused
    <3> QED
      BY <2>6, <3>1 DEF SameTasks
  <2>8. \A x \in Session : /\ hosted'[x].activity = hosted[x].activity /\ hosted'[x].status = hosted[x].status
                           /\ hosted'[x].host = hosted[x].host /\ hosted'[x].controller = hosted[x].controller
                           /\ x # s => hosted'[x].turns = hosted[x].turns
    BY <2>2, <2>4, <2>5
  <2>9. HostTypes'
    BY <1>1, <2>1, <2>5, <2>6 DEF HostTypes
  <2>10. Links'
    BY <1>1, <1>3, <2>1, <2>8, KeepingLinks DEF Keeping
  <2>11. hosted'[s].turns = rt.local.turns
    BY <2>2, <2>4, <2>5
  <2>12. ASSUME NEW t \in Turn PROVE TaskFits(t)'
    <3>1. TaskFits(t) /\ task[t].session \in Session \cup {Nil}
      BY <1>1, TaskFields DEF Tasks, HostTypes
    <3>2. \A x \in Session : t \in hosted'[x].turns => task[t].recorded
      BY <2>8, <2>11, <3>1 DEF TaskFits, Inv, Mind, Keeps
    <3> QED
      BY <2>6, <2>8, <3>1, <3>2 DEF TaskFits
  <2>13. TurnIsKept'
    <3>1. SUFFICES ASSUME NEW t \in Turn, task'[t].recorded, hosted'[task'[t].session].status = "open",
                          t \notin hosted'[task'[t].session].turns
                   PROVE  Excused(t)'
      BY DEF TurnIsKept, Excused
    <3>2. TaskFits(t) /\ task[t] \in Task
      BY <1>1 DEF Tasks, HostTypes
    <3>3. task[t].session \in Session /\ task[t].recorded
      BY <2>6, <3>1, <3>2, TaskFields DEF TaskFits
    <3>4. CASE task[t].session # s
      <4>1. Excused(t)
        BY <1>1, <2>6, <2>8, <3>1, <3>3, <3>4 DEF TurnIsKept, Excused
      <4> QED
        BY <2>7, <4>1 DEF SameTasks
    <3>5. CASE task[t].session = s /\ rt.local.of # s
      BY <2>6, <3>5 DEF Excused
    <3>6. CASE task[t].session = s /\ rt.local.of = s
      <4>1. Kept(t) /\ t \notin rt.local.turns
        BY <1>1, <2>6, <2>11, <3>1, <3>6 DEF Inv, Mind, Keeps
      <4>2. Excused(t)
        BY <1>3, <1>4, <3>3, <3>6, <4>1 DEF Kept
      <4> QED
        BY <2>7, <4>2 DEF SameTasks
    <3> QED
      BY <3>4, <3>5, <3>6
  <2>14. Calm(at') /\ WellPlaced(at') /\ Present(at') /\ at'.watched = Nil /\ at'.pc \notin {"push", "attach", "focus", "focus_switch"}
    BY <1>2, <2>1, CalmPlace
  <2>15. rt' \in Runtime /\ rt'.connection = rt.connection /\ rt'.active = rt.active /\ rt'.parked = rt.parked
         /\ rt'.local = rt.local /\ rt'.activity = Idle
    BY <1>1, <2>1, Constants DEF Runtime
  <2>16. Place' /\ ActiveIsAttached'
    BY <1>1, <2>1, <2>8, <2>9, <2>10, <2>14, <2>15, StayPlace DEF Inv
  <2>17. \A u \in Turn : rt.activity = u /\ rt.active = rt.local.of => Excused(u)'
    BY <1>4, <2>7 DEF SameTasks
  <2>18. hosted'[rt.active].activity = Idle
    BY <1>3, <1>6, <2>8 DEF Now
  <2>19. Mind'
    BY <1>1, <2>7, <2>14, <2>15, <2>17, <2>18, ForgetMind, Constants DEF Inv
  <2> QED
    BY <2>9, <2>10, <2>12, <2>13, <2>16, <2>19 DEF Inv, Work, Tasks
<1> QED
  BY <1>5, <1>6

\* //connect.
LEMMA InvConnectCommand ==
  ASSUME Inv, NEW s \in Session, NEW h \in Host, ConnectCommand(s, h)
  PROVE  Inv'
<1>1. /\ Present(at) /\ HostTypes /\ Links /\ Place /\ ActiveIsAttached /\ rt \in Runtime
      /\ h \notin rt.parked \cup {rt.connection} /\ conn' = [conn EXCEPT ![h] = "open"]
      /\ task' = task /\ spent' = spent /\ at' = AtEnd
  BY DEF ConnectCommand, Present, Inv, Place
<1>2. rt.connection \in Host /\ rt.active \in Session /\ rt.local.model \in {0, 1}
  BY <1>1, Presence, RuntimeFields
<1>3. /\ conn' \in [Host -> {"none", "open", "lost"}] /\ conn'[h] = "open" /\ \A g \in Host \ {h} : conn'[g] = conn[g]
  BY <1>1 DEF HostTypes
<1>4. Calm(at') /\ WellPlaced(at') /\ Present(at')
  BY <1>1, CalmEnd, CalmPlace
<1>5. CASE /\ Creates(s, h, rt.local.model)
           /\ rt' = [Refreshed([Created(s, rt.local.model) EXCEPT !.parked = @ \cup {rt.connection}]) EXCEPT !.connection = h]
  <2>1. PICK m \in {0, 1} : m = rt.local.model
    BY <1>2
  <2>2. /\ HostTypes' /\ Links' /\ attached_session'[h] = s /\ hosted[s].status = "unborn"
        /\ hosted'[s].status = "open" /\ hosted'[s].host = h
        /\ \A x \in Session : /\ hosted'[x].activity = hosted[x].activity /\ hosted'[x].turns = hosted[x].turns
                              /\ x # s => hosted'[x].status = hosted[x].status /\ hosted'[x].host = hosted[x].host
    BY <1>1, <1>3, <1>5, <2>1, CreatesLinks
  <2>3. Work'
    BY <1>1, <2>2, CreatesKeeps DEF Inv, Work
  <2>4. PICK w \in Runtime : /\ w = Created(s, m) /\ Arrived(w, s, rt.connection) /\ w.activity = Idle
                             /\ w.local.of = s /\ w.local.turns = {} /\ w.parked = rt.parked
    BY <1>1, <1>2, CreatedFields DEF Arrived
  <2>5. PICK p \in SUBSET Host : p = rt.parked \cup {rt.connection}
    BY <1>1, <1>2, RuntimeFields
  <2>6. PICK v \in Runtime : v = [w EXCEPT !.parked = p]
    BY <2>4 DEF Runtime
  <2>7. v.active = s /\ v.activity = Idle /\ v.local = w.local /\ v.parked = p
    BY <2>4, <2>6 DEF Runtime, Arrived
  <2>8. PICK x \in Runtime : x = Refreshed(v)
    BY RefreshedFields
  <2>9. x.active = s /\ x.activity = Idle /\ x.local = w.local /\ x.parked = {g \in p : conn[g] = "open"}
    BY <2>7, <2>8, RefreshedFields DEF Alike, SameNote
  <2>10. rt' = [x EXCEPT !.connection = h]
    BY <1>5, <2>1, <2>4, <2>5, <2>6, <2>8
  <2>11. /\ rt' \in Runtime /\ rt'.connection = h /\ rt'.active = s /\ rt'.activity = Idle /\ rt'.local = w.local
         /\ rt'.parked = {g \in p : conn[g] = "open"}
    BY <2>9, <2>10 DEF Runtime
  <2>12. h \notin rt'.parked /\ \A g \in Host : conn'[g] = "open" => g \in rt'.parked \cup {h}
    BY <1>1, <1>3, <2>5, <2>11 DEF ActiveIsAttached
  <2>13. Place' /\ ActiveIsAttached'
    BY <1>4, <2>2, <2>11, <2>12, MovePlace
  <2>14. hosted'[s].activity = Idle /\ hosted'[s].turns = {}
    BY <1>1, <2>2 DEF Links, SessionLink
  <2>15. Mind'
    BY <1>4, <2>2, <2>3, <2>4, <2>11, <2>14, FreshMind
  <2> QED
    BY <2>2, <2>3, <2>13, <2>15 DEF Inv
<1>6. CASE /\ hosted[s].host = h /\ Attachable(s) /\ Attaches(s)
           /\ rt' = [Refreshed(Switched(s)) EXCEPT !.local = Restored(s)]
  <2>1. HostTypes' /\ Links' /\ SameWork /\ attached_session'[h] = s
    BY <1>1, <1>3, <1>6, AttachesLinks
  <2>2. Work'
    BY <2>1, SameWorkKeeps DEF Inv, Work
  <2>3. /\ hosted'[s].status = "open" /\ hosted'[s].host = h
        /\ hosted'[s].activity = hosted[s].activity /\ hosted'[s].turns = hosted[s].turns
    BY <1>6, <2>1 DEF SameWork, Attachable
  <2>4. PICK l \in Conversation : l = Restored(s) /\ l.of = s /\ l.turns = hosted[s].turns
    BY <1>1, RestoredFields
  <2>5. Arrived(Switched(s), s, h) /\ Switched(s).activity = hosted[s].activity
    BY <1>1, <1>2, <1>6, SwitchedFields
  <2>6. PICK w \in Runtime : w = Refreshed(Switched(s)) /\ Arrived(w, s, h) /\ w.activity = hosted[s].activity
    BY <2>5, ArrivedRefreshed DEF SameNote, Arrived
  <2>7. rt' = [w EXCEPT !.local = l]
    BY <1>6, <2>4, <2>6
  <2>8. Arrived(rt', s, h) /\ rt'.activity = hosted[s].activity /\ rt'.local = l
    BY <2>6, <2>7 DEF Runtime, Arrived
  <2>9. /\ rt' \in Runtime /\ rt'.active = s /\ rt'.connection = h /\ h \notin rt'.parked
        /\ \A g \in Host : conn'[g] = "open" => g \in rt'.parked \cup {h}
    BY <1>3, <2>8 DEF Arrived
  <2>10. Place' /\ ActiveIsAttached'
    BY <1>4, <2>1, <2>3, <2>9, MovePlace
  <2>11. Mind'
    BY <1>4, <2>1, <2>2, <2>3, <2>4, <2>8, <2>9, FreshMind
  <2> QED
    BY <2>1, <2>2, <2>10, <2>11 DEF Inv
<1> QED
  BY <1>5, <1>6 DEF ConnectCommand

\* //close.
LEMMA InvCloseCommand ==
  ASSUME Inv, CloseCommand
  PROVE  Inv'
<1>1. Present(at) /\ HostTypes /\ Links /\ Place /\ ActiveIsAttached /\ rt \in Runtime
  BY DEF CloseCommand, Present, Inv, Place
<1>2. CASE ~Connected
  <2>1. UNCHANGED hosts /\ rt' \in {rt, Refreshed(rt)} /\ Calm(at')
    BY <1>2, CalmNow DEF CloseCommand, CalmPc
  <2> QED
    BY <1>1, <2>1, CalmIsGentle, QuietInv
<1>3. CASE Connected
  <2>1. PICK s \in Session, h \in Host : /\ s = rt.active /\ h = rt.connection /\ attached_session[h] = s
                                         /\ hosted[s].status = "open" /\ conn[h] = "open"
    BY <1>1, <1>3, Presence DEF Connected
  <2>2. PICK n \in Seq(Session) : n = RemoveFirst(rt.navigation_history, rt.active)
    BY <1>1, RuntimeFields, RemoveFirstType
  <2>3. /\ Closes(s) /\ attached_session' = [attached_session EXCEPT ![h] = Nil]
        /\ rt' = Refreshed([rt EXCEPT !.active = Nil, !.activity = Idle, !.navigation_history = n])
        /\ \E rest \in FallbackCandidates(n, s) : at' = [NowAt("fallback") EXCEPT !.rest = rest]
        /\ conn' = conn /\ spent' = spent
    BY <1>3, <2>1, <2>2 DEF CloseCommand
  <2>4. /\ attached_session' \in [Host -> Session \cup {Nil}]
        /\ \A g \in Host : attached_session'[g] = IF attached_session[g] = s THEN Nil ELSE attached_session[g]
    <3>1. \A g \in Host : g # h => attached_session[g] # s
      BY <1>1, <2>1, Constants DEF Links, HostLink
    <3> QED
      BY <1>1, <2>1, <2>3, <3>1 DEF HostTypes
  <2>5. /\ HostTypes' /\ Links' /\ hosted'[s].status = "closed" /\ hosted'[s].activity = Idle
        /\ \A x \in Session : /\ hosted'[x].turns = hosted[x].turns /\ hosted'[x].host = hosted[x].host
                              /\ x # s => hosted'[x] = hosted[x]
        /\ \A t \in Turn : task'[t] = IF task[t].session = s /\ task[t].outcome = "running"
                                         THEN [task[t] EXCEPT !.outcome = "failed"] ELSE task[t]
    BY <1>1, <2>1, <2>3, <2>4, ClosesLinks
  <2>6. Work' /\ \A t \in Turn : task'[t].recorded = task[t].recorded
    <3>1. hosted[s].status # "unborn" /\ Tasks /\ TurnIsKept
      BY <2>1 DEF Inv, Work
    <3>2. \A x \in Session : hosted'[x].turns = hosted[x].turns /\ (x # s => hosted'[x] = hosted[x])
      BY <2>5
    <3> QED
      BY <1>1, <2>5, <3>1, <3>2, ClosesKeeps
  <2>7. PICK v \in Runtime : v = [rt EXCEPT !.active = Nil, !.activity = Idle, !.navigation_history = n]
    BY <1>1, Constants DEF Runtime
  <2>8. v.active = Nil /\ v.activity = Idle /\ v.connection = h /\ v.parked = rt.parked /\ v.local = rt.local
    BY <1>1, <2>1, <2>7 DEF Runtime
  <2>9. /\ rt' \in Runtime /\ rt'.active = Nil /\ rt'.activity = Idle /\ rt'.connection = h /\ rt'.local = rt.local
        /\ rt'.parked = {g \in rt.parked : conn[g] = "open"}
    BY <2>3, <2>7, <2>8, RefreshedFields DEF Alike, SameNote
  <2>10. PICK rest \in Seq(Session) : at' = [NowAt("fallback") EXCEPT !.rest = rest]
    BY <2>3, CandidatesType
  <2>11. NowAt("fallback") \in At /\ NowAt("fallback").pc = "fallback" /\ NowAt("fallback").watched = Nil
    BY NowAtFields DEF Pc
  <2>12. at' \in At /\ at'.pc = "fallback" /\ at'.watched = Nil
    BY <2>10, <2>11 DEF At
  <2>13. WellPlaced(at') /\ ~Present(at')
    BY <2>12 DEF WellPlaced, Follows, Present
  <2>14. attached_session'[h] = Nil
    BY <2>1, <2>4
  <2>15. Place'
    BY <2>9, <2>12, <2>13, <2>14 DEF Place
  <2>16. ActiveIsAttached'
    BY <1>1, <2>1, <2>3, <2>9, <2>12 DEF ActiveIsAttached
  <2>17. \A t \in rt'.local.turns : task'[t].recorded
    <3>1. rt.local.turns \subseteq Turn /\ \A t \in rt.local.turns : task[t].recorded
      BY <1>1, RuntimeFields DEF Inv, Mind, Keeps
    <3> QED
      BY <2>6, <2>9, <3>1
  <2>18. Mind'
    BY <2>9, <2>12, <2>13, <2>17, AwayMind, Constants
  <2> QED
    BY <2>5, <2>6, <2>15, <2>16, <2>18 DEF Inv
<1> QED
  BY <1>2, <1>3

\* The next fallback is tried, or the client leaves.
LEMMA InvFallback ==
  ASSUME Inv, Fallback
  PROVE  Inv'
<1>1. /\ at.pc = "fallback" /\ ~Present(at) /\ HostTypes /\ Links /\ Place /\ ActiveIsAttached /\ rt \in Runtime
      /\ rt.connection \in Host /\ at \in At /\ at.rest \in Seq(Session) /\ at.watched = Nil
  <2>1. at.pc = "fallback" /\ Place /\ WellPlaced(at)
    BY DEF Fallback, Inv, Place
  <2> QED
    BY <2>1, AtFields DEF Inv, Place, Present, WellPlaced, Follows
<1>2. CASE Ends
  BY <1>2, EndsInv
<1>3. CASE ~Ends
  <2>1. at.rest # <<>>
    BY <1>3 DEF Fallback
  <2>2. PICK s \in Session, r \in Seq(Session) : s = Head(at.rest) /\ r = Tail(at.rest)
    <3>1. PICK q \in Seq(Session) : q = at.rest /\ q # <<>>
      BY <1>1, <2>1
    <3>2. Head(q) \in Session /\ Tail(q) \in Seq(Session)
      BY <3>1, HeadTailProperties
    <3> QED
      BY <3>1, <3>2
  <2>3. CASE Attachable(s) /\ Reachable(s)
    <3>1. SwitchTo(s) /\ at' = AtEnd
          /\ rt' = Refreshed([Switched(s) EXCEPT !.local = Restored(s), !.navigation_history = RemoveFirst(@, s)])
      BY <2>1, <2>2, <2>3 DEF Fallback
    <3>2. hosted[s].host \in Host
      BY <1>1, <2>3 DEF Links, SessionLink, Attachable
    <3>3. PICK l \in Conversation : l = Restored(s)
      BY <1>1, RestoredFields
    <3>4. PICK w \in Runtime : w = Switched(s) /\ Arrived(w, s, hosted[s].host) /\ w.activity = hosted[s].activity
      BY <1>1, <3>2, SwitchedFields DEF Arrived
    <3>5. PICK n \in Seq(Session) : n = RemoveFirst(w.navigation_history, s)
      BY RuntimeFields, RemoveFirstType
    <3>6. PICK v \in Runtime : v = [w EXCEPT !.local = l, !.navigation_history = n]
      BY DEF Runtime
    <3>7. Arrived(v, s, hosted[s].host) /\ v.activity = hosted[s].activity /\ v.local = l
      BY <3>4, <3>6 DEF Runtime, Arrived
    <3>8. rt' = Refreshed(v)
      BY <3>1, <3>3, <3>4, <3>5, <3>6
    <3>9. Arrived(rt', s, hosted[s].host) /\ rt'.activity = hosted[s].activity /\ rt'.local = Restored(s)
      BY <3>3, <3>7, <3>8, ArrivedRefreshed DEF SameNote
    <3>10. Calm(at')
      BY <3>1, CalmEnd
    <3> QED
      BY <3>1, <3>9, <3>10, SwitchInv
  <2>4. CASE ~(Attachable(s) /\ Reachable(s))
    <3>1. rt' = Refreshed(rt) /\ at' = [at EXCEPT !.rest = r] /\ UNCHANGED hosts
      BY <2>1, <2>2, <2>4 DEF Fallback
    <3>2. HostTypes' /\ Links' /\ Work' /\ conn' = conn /\ attached_session' = attached_session /\ task' = task
      BY <3>1, SameHosts
    <3>3. at' \in At /\ at'.pc = "fallback" /\ at'.watched = Nil
      BY <1>1, <2>2, <3>1 DEF At
    <3>4. WellPlaced(at') /\ ~Present(at')
      BY <3>3 DEF WellPlaced, Follows, Present
    <3>5. /\ rt' \in Runtime /\ rt'.connection = rt.connection /\ rt'.active = rt.active /\ rt'.activity = rt.activity
          /\ rt'.local = rt.local /\ rt'.parked = {g \in rt.parked : conn[g] = "open"}
      BY <1>1, <3>1, RefreshedFields DEF Alike, SameNote
    <3>6. Place'
      BY <1>1, <3>2, <3>3, <3>4, <3>5 DEF Place
    <3>7. ActiveIsAttached'
      BY <1>1, <3>2, <3>3, <3>5 DEF ActiveIsAttached
    <3>8. \A t \in rt'.local.turns : task'[t].recorded
      BY <3>2, <3>5 DEF Inv, Mind, Keeps
    <3>9. rt'.activity \notin Turn
      BY <1>1, <3>5, Constants DEF Place
    <3>10. Mind'
      BY <3>3, <3>4, <3>8, <3>9, AwayMind
    <3> QED
      BY <3>2, <3>6, <3>7, <3>10 DEF Inv
  <2> QED
    BY <2>3, <2>4
<1> QED
  BY <1>2, <1>3

-----------------------------------------------------------------------------
(* resume_active_session, and stop_current_activity.                       *)

\* A turn that runs is followed.
LEMMA InvResumeFollows ==
  ASSUME Inv, ResumeFollows
  PROVE  Inv'
<1>1. /\ Present(at) /\ UNCHANGED hosts /\ rt' = rt /\ at.pc = "resume" /\ rt.activity \in Turn /\ at \in At
      /\ at' = [at EXCEPT !.pc = "follow", !.watched = rt.activity] /\ "follow" \in Pc /\ rt \in Runtime
  BY DEF ResumeFollows, Goes, Present, Inv, Place, WellPlaced, Pc
<1>2. PICK w \in Turn : w = rt.activity
  BY <1>1
<1>3. at' \in At /\ at'.pc = "follow" /\ at'.watched = w
  BY <1>1, <1>2 DEF At
<1>4. WellPlaced(at') /\ Present(at')
  BY <1>3 DEF WellPlaced, Follows, Present
<1>5. HostTypes' /\ Links' /\ Work' /\ conn' = conn /\ attached_session' = attached_session /\ task' = task /\ hosted' = hosted
  BY <1>1, SameHosts
<1>6. Place' /\ ActiveIsAttached'
  BY <1>1, <1>4, <1>5, StayPlace DEF Inv
<1>7. Now' = Now
  BY <1>1, <1>5 DEF Now
<1>8. Now \in Turn => Now = w
  BY <1>1, <1>2 DEF Inv, Mind, Noted
<1>9. Noted'
  BY <1>1, <1>2, <1>3, <1>5, <1>7, <1>8 DEF Inv, Mind, Noted
<1>10. Untracked'
  BY <1>3 DEF Untracked
<1>11. Keeps'
  <2>1. \A t \in rt'.local.turns : task'[t].recorded
    BY <1>1, <1>5 DEF Inv, Mind, Keeps
  <2>2. ASSUME NEW t \in Turn, task'[t].session = rt'.local.of PROVE Kept(t)'
    <3>1. Kept(t)
      BY <1>1, <1>5, <2>2 DEF Inv, Mind, Keeps
    <3> QED
      BY <1>1, <1>5, <3>1 DEF Kept, Excused
  <2> QED
    BY <2>1, <2>2 DEF Keeps
<1> QED
  BY <1>5, <1>6, <1>9, <1>10, <1>11 DEF Inv, Mind

\* The client looks whether a job runs.
LEMMA InvResumeLooks ==
  ASSUME Inv, ResumeLooks
  PROVE  Inv'
<1>1. /\ Present(at) /\ UNCHANGED hosts /\ at.pc = "resume" /\ rt.activity \notin Turn /\ at \in At /\ at.watched = Nil
      /\ rt \in Runtime
  <2>1. at.pc = "resume" /\ UNCHANGED hosts /\ rt.activity \notin Turn /\ WellPlaced(at) /\ rt \in Runtime
    BY DEF ResumeLooks, Inv, Place
  <2> QED
    BY <2>1 DEF Present, WellPlaced, Follows
<1>2. CASE ~Current
  <2>1. rt' = rt /\ ResumeReturns(FALSE)
    BY <1>2 DEF ResumeLooks
  <2> QED
    BY <1>1, <2>1, ResumeLands, CalmIsGentle, QuietInv
<1>3. CASE Current
  <2>1. rt.active \in Session /\ Now \in 0..ShellJob
    BY <1>1, Presence, HostedFields DEF Inv, Now
  <2>2. PICK n \in 0..ShellJob, s \in Session : n = Now /\ s = rt.active
    BY <2>1
  <2>3. /\ rt' = [rt EXCEPT !.activity = n]
        /\ IF n = ShellJob THEN at' = [at EXCEPT !.pc = "attach", !.from = "resume", !.was = s] ELSE ResumeReturns(TRUE)
    BY <1>3, <2>2 DEF ResumeLooks
  <2>4. rt' \in Runtime /\ Alike(rt', rt) /\ rt'.parked = rt.parked /\ rt'.local = rt.local /\ rt'.activity = Now
    BY <1>1, <2>2, <2>3 DEF Runtime, Alike
  <2>5. CASE n = ShellJob
    <3>1. "attach" \in Pc /\ "resume" \in Pc
      BY DEF Pc
    <3>0. at' = [at EXCEPT !.pc = "attach", !.from = "resume", !.was = s]
      BY <2>3, <2>5
    <3>2. at' \in At /\ at'.pc = "attach" /\ at'.watched = Nil
      BY <1>1, <3>0, <3>1 DEF At
    <3>4. rt'.activity \notin Turn
      BY <2>2, <2>4, <2>5, Constants
    <3>3. WellPlaced(at') /\ Present(at')
      BY <3>2 DEF WellPlaced, Follows, Present
    <3> QED
      BY <1>1, <2>4, <3>2, <3>3, <3>4, LookInv
  <2>6. CASE n # ShellJob
    <3>1. Calm(at')
      BY <2>3, <2>6, ResumeLands
    <3>2. WellPlaced(at') /\ Present(at') /\ at'.watched = Nil /\ at'.pc \notin {"push", "attach", "focus", "focus_switch"}
      BY <3>1, CalmPlace
    <3> QED
      BY <1>1, <2>4, <3>2, LookInv
  <2> QED
    BY <2>5, <2>6
<1> QED
  BY <1>2, <1>3

\* The turn is left as it is.
LEMMA InvFollowLeaves ==
  ASSUME Inv, FollowLost \/ FollowDetaches \/ FollowCannotSwitch
  PROVE  Inv'
<1>1. Present(at) /\ UNCHANGED hosts /\ rt' \in {rt, Refreshed(rt)}
  BY DEF FollowLost, FollowDetaches, FollowCannotSwitch, Present
<1>2. Calm(at')
  BY ResumeLands DEF FollowLost, FollowDetaches, FollowCannotSwitch
<1> QED
  BY <1>1, <1>2, CalmIsGentle, QuietInv

\* The turn that is followed is to be stopped.
LEMMA InvFollowStops ==
  ASSUME Inv, FollowStops
  PROVE  Inv'
<1>1. /\ Present(at) /\ UNCHANGED hosts /\ rt' \in {rt, Refreshed(rt)} /\ at \in At /\ at.watched \in Turn
      /\ at' = [at EXCEPT !.pc = "stop", !.from = "follow"] /\ "stop" \in Pc /\ "follow" \in Pc
  BY DEF FollowStops, Goes, Present, Inv, Place, WellPlaced, Follows, Pc
<1>2. at' \in At /\ at'.pc = "stop" /\ at'.from = "follow" /\ at'.watched = at.watched
  BY <1>1 DEF At
<1>3. Gentle(at')
  BY <1>1, <1>2 DEF Gentle, WellPlaced, Follows, Present
<1> QED
  BY <1>1, <1>3, QuietInv

\* One turn is dismissed.
Dismisses(w) == task' = [task EXCEPT ![w].dismissed = TRUE]

\* That changes nothing else.
LEMMA DismissesFields ==
  ASSUME HostTypes, NEW w, Dismisses(w)
  PROVE  /\ task' \in [Turn -> Task] /\ SameTasks
         /\ \A t \in Turn : t = w => task'[t].dismissed /\ Excused(t)'
<1>1. ASSUME NEW t \in Turn
      PROVE  /\ task'[t] \in Task
             /\ task'[t].session = task[t].session /\ task'[t].outcome = task[t].outcome
             /\ task'[t].recorded = task[t].recorded /\ task'[t].cleared = task[t].cleared
             /\ task'[t].displaced = task[t].displaced
             /\ task[t].dismissed => task'[t].dismissed
             /\ t = w => task'[t].dismissed
  <2>1. PICK k \in Task : k = task[t]
    BY DEF HostTypes
  <2>2. CASE t = w
    <3>1. task'[t] = [k EXCEPT !.dismissed = TRUE]
      BY <2>1, <2>2 DEF Dismisses, HostTypes
    <3> QED
      BY <2>1, <3>1 DEF Task
  <2>3. CASE t # w
    <3>1. task'[t] = task[t]
      BY <2>3 DEF Dismisses, HostTypes
    <3> QED
      BY <2>1, <2>3, <3>1
  <2> QED
    BY <2>2, <2>3
<1>2. task' \in [Turn -> Task]
  BY <1>1 DEF Dismisses, HostTypes
<1>3. \A t \in Turn : Excused(t) => Excused(t)'
  BY <1>1 DEF Excused
<1>4. \A t \in Turn : t = w => Excused(t)'
  BY <1>1 DEF Excused
<1> QED
  BY <1>1, <1>2, <1>3, <1>4 DEF SameTasks

\* The hosts' side when only excuses are added.
LEMMA ExcusingHosts ==
  ASSUME Inv, SameTasks, task' \in [Turn -> Task], hosted' = hosted, attached_session' = attached_session,
         conn' = conn, spent' = spent
  PROVE  HostTypes' /\ Links' /\ Work'
<1>1. HostTypes'
  BY DEF Inv, HostTypes
<1>2. Links'
  BY DEF Inv, Links, HostLink, SessionLink
<1>3. Work'
  BY ExcusingKeeps DEF Inv, Work
<1> QED
  BY <1>1, <1>2, <1>3

\* The turn that is followed has ended.
LEMMA InvFollowEnds ==
  ASSUME Inv, FollowEnds
  PROVE  Inv'
<1>1. /\ Present(at) /\ Current /\ WellPlaced(at) /\ at.watched \in Turn /\ rt \in Runtime /\ at.pc = "follow"
      /\ hosted' = hosted /\ attached_session' = attached_session /\ conn' = conn /\ spent' = spent
  <2>1. at.pc = "follow" /\ Current /\ WellPlaced(at) /\ rt \in Runtime
    BY DEF FollowEnds, Inv, Place
  <2> QED
    BY <2>1 DEF FollowEnds, Present, WellPlaced, Follows
<1>2. rt.active \in Session /\ Now \in 0..ShellJob
  BY <1>1, Presence, HostedFields DEF Inv, Now
<1>3. Calm(at')
  BY ResumeLands DEF FollowEnds
<1>4. CASE task[at.watched].outcome = "completed"
  <2>1. task' = task /\ rt' = Refreshed([rt EXCEPT !.activity = Now, !.local = Restored(rt.active)])
    BY <1>4 DEF FollowEnds
  <2>2. PICK n \in 0..ShellJob, l \in Conversation : n = Now /\ l = Restored(rt.active)
    BY <1>2, RestoredFields DEF Inv
  <2>3. PICK v \in Runtime : v = [rt EXCEPT !.activity = n, !.local = l]
    BY <1>1 DEF Runtime
  <2>4. v.connection = rt.connection /\ v.active = rt.active /\ v.activity = n /\ v.local = l /\ v.parked = rt.parked
    BY <1>1, <2>3 DEF Runtime
  <2>5. /\ rt' \in Runtime /\ Alike(rt', rt) /\ rt'.parked = Listed /\ rt'.local = Restored(rt.active) /\ rt'.activity = Now
    BY <2>1, <2>2, <2>3, <2>4, RefreshedFields DEF Alike, SameNote, Listed
  <2>6. UNCHANGED hosts
    BY <1>1, <2>1 DEF hosts
  <2> QED
    BY <1>1, <1>3, <2>5, <2>6, FreshInv
<1>5. CASE task[at.watched].outcome # "completed"
  <2>1. Dismisses(at.watched) /\ rt' = [rt EXCEPT !.activity = Idle]
    BY <1>5 DEF FollowEnds, Dismisses
  <2>2. /\ task' \in [Turn -> Task] /\ SameTasks
        /\ \A t \in Turn : t = at.watched => task'[t].dismissed /\ Excused(t)'
    BY <2>1, DismissesFields DEF Inv
  <2>3. HostTypes' /\ Links' /\ Work'
    BY <1>1, <2>2, ExcusingHosts
  <2>4. rt' \in Runtime /\ rt'.connection = rt.connection /\ rt'.active = rt.active /\ rt'.parked = rt.parked
        /\ rt'.local = rt.local /\ rt'.activity = Idle
    BY <1>1, <2>1, Constants DEF Runtime
  <2>5. WellPlaced(at') /\ Present(at') /\ at'.watched = Nil /\ at'.pc \notin {"push", "attach", "focus", "focus_switch"}
    BY <1>3, CalmPlace
  <2>6. Place' /\ ActiveIsAttached'
    BY <1>1, <2>3, <2>4, <2>5, StayPlace DEF Inv
  <2>7. at.watched # Nil /\ (Now \in Turn => Now = at.watched) /\ (rt.activity \in Turn => rt.activity = at.watched)
    BY <1>1, Constants DEF Inv, Mind, Noted
  <2>8. \A u \in Turn : hosted'[rt.active].activity = u => task'[u].dismissed /\ at'.watched \in {Nil, u}
    BY <1>1, <2>2, <2>5, <2>7 DEF Now
  <2>9. \A u \in Turn : rt.activity = u /\ rt.active = rt.local.of => Excused(u)'
    BY <2>2, <2>7
  <2>10. Mind'
    BY <1>1, <2>2, <2>4, <2>5, <2>8, <2>9, ForgetMind, Constants DEF Inv
  <2> QED
    BY <2>3, <2>6, <2>10 DEF Inv
<1> QED
  BY <1>4, <1>5

\* The client looks, and dismisses what it had noted.
LEMMA DismissingInv ==
  ASSUME Inv, Present(at), Gentle(at'), task' = Dismissed, hosted' = hosted, attached_session' = attached_session,
         conn' = conn, spent' = spent,
         rt' \in Runtime, Alike(rt', rt), rt'.parked = rt.parked, rt'.local = rt.local, rt'.activity = Now
  PROVE  Inv'
<1>1. SameTasks /\ task' \in [Turn -> Task] /\ \A t \in Turn : rt.activity = t /\ Now # t => Excused(t)'
  BY DismissedSame DEF Inv
<1>2. HostTypes' /\ Links' /\ Work'
  BY <1>1, ExcusingHosts
<1>3. rt'.connection = rt.connection /\ rt'.active = rt.active
  BY DEF Alike
<1>4. WellPlaced(at') /\ Present(at') /\ at'.watched \in {Nil, at.watched} /\ at'.pc \notin {"push", "attach", "focus", "focus_switch"}
  BY DEF Gentle
<1>5. Place' /\ ActiveIsAttached'
  BY <1>2, <1>3, <1>4, StayPlace DEF Inv
<1>6. Mind'
  BY <1>1, <1>3, <1>4, LookMind DEF Inv, Work, Now
<1> QED
  BY <1>2, <1>5, <1>6 DEF Inv

\* What can be stopped is looked at.
LEMMA InvStopLooks ==
  ASSUME Inv, StopLooks
  PROVE  Inv'
<1>1. /\ Present(at) /\ WellPlaced(at) /\ at.pc = "stop" /\ rt \in Runtime /\ at \in At
      /\ hosted' = hosted /\ attached_session' = attached_session /\ conn' = conn /\ spent' = spent
  BY DEF StopLooks, Present, Inv, Place, WellPlaced
<1>2. Gentle(at')
  <2>1. CASE StopReturns(FALSE)
    BY <1>1, <2>1, StopLands, CalmIsGentle DEF Gentle, Present
  <2>2. CASE at' = [at EXCEPT !.pc = "stop_acts"]
    <3>1. "stop_acts" \in Pc
      BY DEF Pc
    <3>2. at' \in At /\ at'.pc = "stop_acts" /\ at'.from = at.from /\ at'.watched = at.watched
      BY <1>1, <2>2, <3>1 DEF At
    <3> QED
      BY <1>1, <3>2 DEF Gentle, WellPlaced, Follows, Present
  <2> QED
    BY <2>1, <2>2 DEF StopLooks
<1>3. CASE Current
  <2>1. PICK n \in 0..ShellJob : n = Now
    BY <1>1, Presence, HostedFields DEF Inv, Now
  <2>2. rt' = [rt EXCEPT !.activity = n] /\ task' = Dismissed
    BY <1>3, <2>1 DEF StopLooks
  <2>3. rt' \in Runtime /\ Alike(rt', rt) /\ rt'.parked = rt.parked /\ rt'.local = rt.local /\ rt'.activity = Now
    BY <1>1, <2>1, <2>2 DEF Runtime, Alike
  <2> QED
    BY <1>1, <1>2, <2>2, <2>3, DismissingInv
<1>4. CASE ~Current
  <2>1. rt' = rt /\ UNCHANGED hosts
    BY <1>1, <1>4 DEF StopLooks, hosts
  <2> QED
    BY <1>1, <1>2, <2>1, QuietInv
<1> QED
  BY <1>3, <1>4

\* It is stopped.
LEMMA InvStopActs ==
  ASSUME Inv, StopActs
  PROVE  Inv'
<1>1. Present(at) /\ WellPlaced(at) /\ at.pc = "stop_acts" /\ rt \in Runtime
  BY DEF StopActs, Present, Inv, Place
<1>2. Gentle(at')
  <2>1. \E ok \in BOOLEAN : StopReturns(ok)
    BY DEF StopActs
  <2> QED
    BY <1>1, <2>1, StopLands, CalmIsGentle DEF Gentle, Present
<1>3. CASE ~(Current /\ Now = rt.activity)
  <2>1. rt' = rt /\ UNCHANGED hosts
    BY <1>3 DEF StopActs
  <2> QED
    BY <1>1, <1>2, <2>1, QuietInv
<1>4. CASE Current /\ Now = rt.activity
  <2>1. PICK s \in Session : s = rt.active /\ hosted[s].status = "open"
    BY <1>1, <1>4, Presence DEF Inv
  <2>2. /\ rt' = [rt EXCEPT !.activity = Idle] /\ attached_session' = attached_session /\ conn' = conn /\ spent' = spent
        /\ IF Now = ShellJob THEN Sets(s, Idle) /\ task' = task ELSE hosted' = hosted /\ Dismisses(Now)
    BY <1>4, <2>1 DEF StopActs, Sets, Dismisses
  <2>3. HostTypes /\ Links /\ Tasks /\ TurnIsKept /\ Idle \in 0..ShellJob /\ Idle \notin Turn /\ spent' \in 0..MaxEvents
    BY <2>2, Constants DEF Inv, Work, HostTypes
  <2>4. /\ HostTypes' /\ Links' /\ Work' /\ SameTasks /\ \A x \in Session : hosted'[x].host = hosted[x].host
        /\ \A u \in Turn : hosted'[s].activity = u => Now = u /\ task'[u].dismissed
        /\ \A u \in Turn : Now = u => Excused(u)'
    <3>1. CASE Now = ShellJob
      <4>1. SameTasks
        BY <2>2, <3>1 DEF SameTasks, Excused
      <4>2. HostTypes' /\ Links'
        BY <2>1, <2>2, <2>3, <3>1, SetsLinks DEF HostTypes
      <4>3. hosted[s].activity \notin Turn
        BY <2>1, <3>1, Constants DEF Now
      <4>4. Work'
        BY <2>2, <2>3, <3>1, <4>1, <4>3, SetsKeeps
      <4>5. hosted'[s].activity = Idle /\ \A x \in Session : hosted'[x].host = hosted[x].host
        BY <2>2, <2>3, <3>1, SetsFields
      <4> QED
        BY <3>1, <4>1, <4>2, <4>4, <4>5, Constants
    <3>2. CASE Now # ShellJob
      <4>1. /\ task' \in [Turn -> Task] /\ SameTasks /\ hosted' = hosted
            /\ \A t \in Turn : t = Now => task'[t].dismissed /\ Excused(t)'
        BY <2>2, <2>3, <3>2, DismissesFields
      <4>2. HostTypes' /\ Links' /\ Work'
        BY <2>2, <4>1, ExcusingHosts
      <4> QED
        BY <2>1, <4>1, <4>2 DEF Now
    <3> QED
      BY <3>1, <3>2
  <2>5. rt' \in Runtime /\ rt'.connection = rt.connection /\ rt'.active = rt.active /\ rt'.parked = rt.parked
        /\ rt'.local = rt.local /\ rt'.activity = Idle
    BY <1>1, <2>2, Constants DEF Runtime
  <2>6. WellPlaced(at') /\ Present(at') /\ at'.watched \in {Nil, at.watched} /\ at'.pc \notin {"push", "attach", "focus", "focus_switch"}
    BY <1>2 DEF Gentle
  <2>7. Place' /\ ActiveIsAttached'
    BY <1>1, <2>2, <2>4, <2>5, <2>6, StayPlace DEF Inv
  <2>8. at.watched # Nil => (Now \in Turn => Now = at.watched)
    BY DEF Inv, Mind, Noted
  <2>9. \A u \in Turn : hosted'[rt.active].activity = u => task'[u].dismissed /\ at'.watched \in {Nil, u}
    BY <2>1, <2>4, <2>6, <2>8
  <2>10. \A u \in Turn : rt.activity = u /\ rt.active = rt.local.of => Excused(u)'
    BY <1>4, <2>4
  <2>11. Mind'
    BY <1>1, <2>3, <2>4, <2>5, <2>6, <2>9, <2>10, ForgetMind DEF Inv
  <2> QED
    BY <2>4, <2>7, <2>11 DEF Inv
<1> QED
  BY <1>3, <1>4

-----------------------------------------------------------------------------
(* run_pty_focus_loop.                                                     *)

\* Within the loop the client is in a session, and follows no turn.
LEMMA Focused ==
  ASSUME Inv, at.pc \in {"attach", "focus", "focus_switch", "focus_over"}
  PROVE  /\ Present(at) /\ WellPlaced(at) /\ ~Follows(at) /\ at \in At /\ at.watched = Nil /\ rt \in Runtime
         /\ rt.active \in Session /\ rt.connection \in Host /\ Now \in 0..ShellJob
<1>1. Present(at) /\ WellPlaced(at) /\ rt \in Runtime
  BY DEF Present, Inv, Place
<1>2. ~Follows(at)
  BY DEF Follows
<1> QED
  BY <1>1, <1>2, Presence, HostedFields DEF Inv, WellPlaced, Now

\* pty_attach_stream.
LEMMA InvFocusAttaches ==
  ASSUME Inv, FocusAttaches
  PROVE  Inv'
<1>1. /\ Present(at) /\ WellPlaced(at) /\ ~Follows(at) /\ at \in At /\ at.watched = Nil /\ rt \in Runtime
      /\ Now \in 0..ShellJob /\ UNCHANGED hosts /\ at.pc = "attach"
  BY Focused DEF FocusAttaches
<1>2. CASE ~Current
  <2>1. rt' = rt /\ FocusReturns(FALSE)
    BY <1>2 DEF FocusAttaches
  <2> QED
    BY <1>1, <2>1, FocusLands, CalmIsGentle, QuietInv
<1>3. CASE Current
  <2>1. PICK n \in 0..ShellJob : n = Now
    BY <1>1
  <2>2. rt' = [rt EXCEPT !.activity = n]
    BY <1>3, <2>1 DEF FocusAttaches
  <2>3. rt' \in Runtime /\ Alike(rt', rt) /\ rt'.parked = rt.parked /\ rt'.local = rt.local /\ rt'.activity = Now
    BY <1>1, <2>1, <2>2 DEF Runtime, Alike
  <2>4. \A u \in Turn : rt.activity = u /\ rt.active = rt.local.of /\ Now # u => Excused(u)
    BY <1>1 DEF Inv, Mind, Untracked
  <2>5. WellPlaced(at') /\ Present(at') /\ at'.watched = Nil /\ at'.pc \notin {"push", "attach", "focus_switch"}
        /\ (at'.pc = "focus" => Now = ShellJob)
    <3>1. CASE Now = ShellJob
      <4>1. PICK c \in [session: Session \cup {Nil}, job: BOOLEAN] : c = NoChoice
        BY DEF NoChoice
      <4>2. at' = [at EXCEPT !.pc = "focus", !.choice = c] /\ "focus" \in Pc
        BY <1>3, <3>1, <4>1 DEF FocusAttaches, Pc
      <4>3. at' \in At /\ at'.pc = "focus" /\ at'.watched = Nil
        BY <1>1, <4>2 DEF At
      <4> QED
        BY <3>1, <4>3 DEF WellPlaced, Follows, Present
    <3>2. CASE Now # ShellJob
      <4>1. FocusReturns(FALSE)
        BY <3>2 DEF FocusAttaches
      <4>2. Calm(at') /\ at'.pc = "focus_over"
        BY <1>1, <4>1, FocusLands
      <4> QED
        BY <4>2, CalmPlace
    <3> QED
      BY <3>1, <3>2
  <2> QED
    BY <1>1, <2>3, <2>4, <2>5, LookInv
<1> QED
  BY <1>2, <1>3

\* The job has ended, is left, or cannot be attached to again.
LEMMA InvFocusLeaves ==
  ASSUME Inv, FocusEnds \/ FocusDetaches \/ FocusFails
  PROVE  Inv'
<1>1. /\ Present(at) /\ WellPlaced(at) /\ ~Follows(at) /\ UNCHANGED hosts /\ rt' \in {rt, Refreshed(rt)}
  BY Focused DEF FocusEnds, FocusDetaches, FocusFails
<1>2. Connected \in BOOLEAN
  BY DEF Connected
<1>3. \E ok \in BOOLEAN : FocusReturns(ok)
  BY <1>2 DEF FocusEnds, FocusDetaches, FocusFails
<1> QED
  BY <1>1, <1>3, FocusLands, CalmIsGentle, QuietInv

\* The client notes that no turn runs, as before, and moves within the loop.
LEMMA InLoopInv ==
  ASSUME Inv, at.pc \in {"focus", "focus_switch"}, UNCHANGED hosts, rt' \in {rt, Refreshed(rt)},
         WellPlaced(at'), Present(at'), at'.watched = Nil, at'.pc # "push"
  PROVE  Inv'
<1>1. Present(at) /\ rt \in Runtime /\ rt.activity = ShellJob /\ at.watched = Nil
  BY Focused DEF Inv, Mind, Untracked
<1>2. /\ HostTypes' /\ Links' /\ Work' /\ SameTasks /\ conn' = conn /\ hosted' = hosted
      /\ attached_session' = attached_session
  BY SameHosts
<1>3. /\ rt' \in Runtime /\ rt'.connection = rt.connection /\ rt'.active = rt.active /\ rt'.parked \in {rt.parked, Listed}
      /\ rt'.activity = ShellJob /\ rt'.local = rt.local
  BY <1>1, RefreshedFields DEF Alike, SameNote, Listed
<1>4. Place' /\ ActiveIsAttached'
  BY <1>1, <1>2, <1>3, StayPlace DEF Inv
<1>5. \A u \in Turn : hosted'[rt.active].activity = u => task'[u].dismissed
  <2>1. \A u \in Turn : Now = u => task[u].dismissed
    BY <1>1, Constants DEF Inv, Mind, Noted
  <2> QED
    BY <1>2, <2>1 DEF Now, SameTasks
<1>6. rt'.activity \notin Turn /\ rt.activity \notin Turn
  BY <1>1, <1>3, Constants
<1>7. Mind'
  BY <1>1, <1>2, <1>3, <1>5, <1>6, ForgetMind DEF Inv
<1> QED
  BY <1>2, <1>4, <1>7 DEF Inv

\* The terminal is attached again.
LEMMA InvFocusReattaches ==
  ASSUME Inv, FocusReattaches
  PROVE  Inv'
<1>1. at.pc = "focus" /\ UNCHANGED hosts /\ rt' = Refreshed(rt) /\ at' = [at EXCEPT !.pc = "attach"]
  BY DEF FocusReattaches
<1>2. at \in At /\ at.watched = Nil /\ "attach" \in Pc
  BY <1>1, Focused DEF Pc
<1>3. at' \in At /\ at'.pc = "attach" /\ at'.watched = Nil
  BY <1>1, <1>2 DEF At
<1>4. WellPlaced(at') /\ Present(at')
  BY <1>3 DEF WellPlaced, Follows, Present
<1> QED
  BY <1>1, <1>3, <1>4, InLoopInv

\* A session is chosen from the catalog.
LEMMA InvFocusChooses ==
  ASSUME Inv, NEW s \in Session, FocusChooses(s)
  PROVE  Inv'
<1>1. PICK j \in BOOLEAN : j = (hosted[s].activity = ShellJob)
  OBVIOUS
<1>2. PICK c \in [session: Session \cup {Nil}, job: BOOLEAN] : c = [session |-> s, job |-> j]
  OBVIOUS
<1>3. at.pc = "focus" /\ UNCHANGED hosts /\ rt' = Refreshed(rt) /\ at' = [at EXCEPT !.pc = "focus_switch", !.choice = c]
  BY <1>1, <1>2 DEF FocusChooses
<1>4. at \in At /\ at.watched = Nil /\ "focus_switch" \in Pc
  BY <1>3, Focused DEF Pc
<1>5. at' \in At /\ at'.pc = "focus_switch" /\ at'.watched = Nil /\ at'.choice = c
  BY <1>3, <1>4 DEF At
<1>6. WellPlaced(at') /\ Present(at')
  BY <1>2, <1>5 DEF WellPlaced, Follows, Present
<1> QED
  BY <1>3, <1>5, <1>6, InLoopInv

\* The client goes to another session, where it notes what runs, and keeps the
\* conversation of the session before.  A turn that runs where the conversation
\* is from is excused, for it is neither recorded nor noted.
LEMMA CarriedMind ==
  ASSUME HostTypes, HostTypes', Tasks', Mind, Present(at), rt.activity \notin Turn, task' = task, rt' \in Runtime,
         NEW s \in Session, rt'.active = s, rt'.activity = hosted'[s].activity, rt'.local = rt.local,
         Present(at'), at'.watched = Nil, at'.pc \notin {"push", "focus", "focus_switch"}
  PROVE  Mind'
<1>1. ASSUME NEW u \in Turn, hosted'[s].activity = u
      PROVE  task[u].session = s /\ task[u].outcome = "running" /\ ~task[u].recorded
  BY <1>1 DEF Tasks, TaskFits
<1>2. Noted'
  <2>1. rt'.activity \in Turn => task'[rt'.activity].session = rt'.active
    BY <1>1
  <2>2. \A u \in Turn : Now' = u => rt'.activity = u
    BY DEF Now
  <2> QED
    BY <2>1, <2>2 DEF Noted
<1>3. ASSUME NEW t \in Turn, task[t].session = rt.local.of
      PROVE  t \in rt.local.turns \/ Excused(t) \/ (~task[t].recorded /\ task[t].outcome # "running")
  BY <1>3 DEF Mind, Keeps, Kept
<1>4. Untracked'
  <2>1. SUFFICES ASSUME NEW u \in Turn, rt'.activity = u, rt'.active = rt'.local.of
                 PROVE  Excused(u)'
    BY DEF Untracked, Excused
  <2>2. hosted'[s].activity = u
    BY <2>1
  <2>3. task[u].session = rt.local.of /\ task[u].outcome = "running" /\ ~task[u].recorded
    BY <1>1, <2>1, <2>2
  <2>4. u \notin rt.local.turns
    BY <2>3 DEF Mind, Keeps
  <2>5. Excused(u)
    BY <1>3, <2>3, <2>4
  <2> QED
    BY <2>2, <2>5 DEF Excused
<1>5. Keeps'
  <2>1. \A t \in rt'.local.turns : task'[t].recorded
    BY DEF Mind, Keeps
  <2>2. ASSUME NEW t \in Turn, task'[t].session = rt'.local.of PROVE Kept(t)'
    BY <1>3, <2>2 DEF Kept, Excused
  <2> QED
    BY <2>1, <2>2 DEF Keeps
<1> QED
  BY <1>2, <1>4, <1>5 DEF Mind

\* A new session, with the conversation of the one before.
LEMMA InvFocusCreates ==
  ASSUME Inv, NEW s \in Session, FocusCreates(s)
  PROVE  Inv'
<1>1. /\ Present(at) /\ WellPlaced(at) /\ ~Follows(at) /\ rt \in Runtime /\ rt.connection \in Host
      /\ at.pc = "focus" /\ FocusReturns(TRUE) /\ rt.activity = ShellJob
  BY Focused DEF FocusCreates, Inv, Mind, Untracked
<1>2. HostTypes /\ Place /\ ActiveIsAttached /\ hosted[rt.active] \in Hosted
  BY <1>1, Presence DEF Inv
<1>3. PICK m \in {0, 1} : m = SiblingModel
  BY <1>2, HostedFields DEF SiblingModel
<1>4. CreateNew(s, m) /\ rt' = Refreshed([Created(s, m) EXCEPT !.local = rt.local])
  BY <1>3 DEF FocusCreates
<1>5. PICK h \in Host : h = rt.connection
  BY <1>1
<1>6. PICK l \in Conversation : l = rt.local
  BY <1>1, RuntimeFields
<1>7. PICK w \in Runtime : w = Created(s, m) /\ Arrived(w, s, h) /\ w.activity = Idle
  BY <1>2, <1>5, CreatedFields DEF Arrived
<1>8. PICK v : v = [w EXCEPT !.local = l]
  OBVIOUS
<1>9. Arrived(v, s, h) /\ v.activity = Idle /\ v.local = l
  BY <1>7, <1>8, ArrivedLocal
<1>10. rt' = Refreshed(v)
  BY <1>4, <1>6, <1>7, <1>8
<1>11. Arrived(rt', s, h) /\ rt'.activity = Idle /\ rt'.local = rt.local
  BY <1>6, <1>9, <1>10, ArrivedRefreshed DEF SameNote
<1>12. conn' = conn /\ task' = task /\ spent' = spent /\ conn[h] = "open" /\ Creates(s, h, m)
  BY <1>4, <1>5 DEF CreateNew, Current, Connected
<1>13. /\ HostTypes' /\ Links' /\ attached_session'[h] = s /\ hosted[s].status = "unborn"
       /\ hosted'[s].status = "open" /\ hosted'[s].host = h
       /\ \A x \in Session : /\ hosted'[x].activity = hosted[x].activity /\ hosted'[x].turns = hosted[x].turns
                             /\ x # s => hosted'[x].status = hosted[x].status /\ hosted'[x].host = hosted[x].host
  BY <1>12, CreatesLinks DEF Inv, HostTypes
<1>14. Work'
  BY <1>12, <1>13, CreatesKeeps DEF Inv, Work
<1>15. WellPlaced(at') /\ Present(at') /\ at'.watched = Nil /\ at'.pc \notin {"push", "attach", "focus", "focus_switch"}
  <2>1. Calm(at')
    BY <1>1, FocusLands
  <2> QED
    BY <2>1, CalmPlace
<1>16. /\ rt' \in Runtime /\ rt'.active = s /\ rt'.connection = h /\ h \notin rt'.parked
       /\ \A g \in Host : conn'[g] = "open" => g \in rt'.parked \cup {h}
  BY <1>11, <1>12 DEF Arrived
<1>17. Place' /\ ActiveIsAttached'
  BY <1>13, <1>15, <1>16, MovePlace
<1>18. hosted'[s].activity = Idle
  BY <1>13 DEF Inv, Links, SessionLink
<1>19. rt.activity \notin Turn
  BY <1>1, Constants
<1>20. Mind'
  BY <1>1, <1>2, <1>11, <1>12, <1>13, <1>14, <1>15, <1>16, <1>18, <1>19, CarriedMind DEF Inv, Work
<1> QED
  BY <1>13, <1>14, <1>17, <1>20 DEF Inv

\* The job is ended.
LEMMA InvFocusTerminates ==
  ASSUME Inv, FocusTerminates
  PROVE  Inv'
<1>1. /\ Present(at) /\ WellPlaced(at) /\ ~Follows(at) /\ at.watched = Nil /\ rt \in Runtime
      /\ rt.activity = ShellJob /\ rt.active \in Session
  BY Focused DEF FocusTerminates, Inv, Mind, Untracked
<1>2. Calm(at')
  <2>1. \E ok \in BOOLEAN : FocusReturns(ok)
    BY DEF FocusTerminates, Current
  <2> QED
    BY <1>1, <2>1, FocusLands
<1>3. CASE ~(Current /\ Now = ShellJob)
  <2>1. rt' = rt /\ UNCHANGED hosts
    BY <1>3 DEF FocusTerminates
  <2> QED
    BY <1>1, <1>2, <2>1, CalmIsGentle, QuietInv
<1>4. CASE Current /\ Now = ShellJob
  <2>1. PICK s \in Session : s = rt.active /\ hosted[s].status = "open"
    BY <1>1, <1>4, Presence DEF Inv
  <2>2. /\ rt' = [rt EXCEPT !.activity = Idle] /\ Sets(s, Idle) /\ task' = task
        /\ attached_session' = attached_session /\ conn' = conn /\ spent' = spent
    BY <1>4, <2>1 DEF FocusTerminates, Sets
  <2>3. HostTypes /\ Links /\ Tasks /\ TurnIsKept /\ Idle \in 0..ShellJob /\ Idle \notin Turn /\ spent' \in 0..MaxEvents
    BY <2>2, Constants DEF Inv, Work, HostTypes
  <2>4. SameTasks
    BY <2>2 DEF SameTasks, Excused
  <2>5. HostTypes' /\ Links'
    BY <2>1, <2>2, <2>3, SetsLinks DEF HostTypes
  <2>6. hosted[s].activity \notin Turn
    BY <1>4, <2>1, Constants DEF Now
  <2>7. Work'
    BY <2>2, <2>3, <2>4, <2>6, SetsKeeps
  <2>8. hosted'[s].activity = Idle /\ \A x \in Session : hosted'[x].host = hosted[x].host
    BY <2>2, <2>3, SetsFields
  <2>9. rt' \in Runtime /\ rt'.connection = rt.connection /\ rt'.active = rt.active /\ rt'.parked = rt.parked
        /\ rt'.local = rt.local /\ rt'.activity = Idle
    BY <1>1, <2>2, Constants DEF Runtime
  <2>10. WellPlaced(at') /\ Present(at') /\ at'.watched = Nil /\ at'.pc \notin {"push", "attach", "focus", "focus_switch"}
    BY <1>2, CalmPlace
  <2>11. Place' /\ ActiveIsAttached'
    BY <1>1, <2>2, <2>3, <2>5, <2>8, <2>9, <2>10, StayPlace DEF Inv
  <2>12. /\ \A u \in Turn : hosted'[rt.active].activity = u => task'[u].dismissed /\ at'.watched \in {Nil, u}
         /\ \A u \in Turn : rt.activity = u /\ rt.active = rt.local.of => Excused(u)'
    BY <1>1, <2>1, <2>8, Constants
  <2>13. Mind'
    BY <1>1, <2>3, <2>4, <2>9, <2>10, <2>12, ForgetMind DEF Inv
  <2> QED
    BY <2>5, <2>7, <2>11, <2>13 DEF Inv
<1> QED
  BY <1>3, <1>4

\* Where the client is when it has switched within the loop.
LEMMA ArrivesLands ==
  ASSUME Inv, at.pc = "focus_switch",
         IF at.choice.job THEN at' = [at EXCEPT !.pc = "attach"] ELSE FocusReturns(TRUE)
  PROVE  /\ WellPlaced(at') /\ Present(at') /\ at'.watched = Nil
         /\ at'.pc \notin {"push", "focus", "focus_switch"}
<1>1. WellPlaced(at) /\ ~Follows(at) /\ at \in At /\ at.watched = Nil
  BY Focused
<1>2. CASE at' = [at EXCEPT !.pc = "attach"]
  <2>1. "attach" \in Pc
    BY DEF Pc
  <2>2. at' \in At /\ at'.pc = "attach" /\ at'.watched = Nil
    BY <1>1, <1>2, <2>1 DEF At
  <2> QED
    BY <2>2 DEF WellPlaced, Follows, Present
<1>3. CASE FocusReturns(TRUE)
  <2>1. Calm(at') /\ at'.pc = "focus_over"
    BY <1>1, <1>3, FocusLands
  <2> QED
    BY <2>1, CalmPlace
<1> QED
  BY <1>2, <1>3

\* The client switches within the loop.
LEMMA InvFocusSwitches ==
  ASSUME Inv, FocusSwitches
  PROVE  Inv'
<1>1. /\ Present(at) /\ WellPlaced(at) /\ ~Follows(at) /\ rt \in Runtime /\ rt.connection \in Host
      /\ at.pc = "focus_switch" /\ rt.activity = ShellJob /\ rt.activity \notin Turn
  BY Focused, Constants DEF FocusSwitches, Inv, Mind, Untracked
<1>2. PICK s \in Session : s = at.choice.session
  BY <1>1 DEF WellPlaced
<1>3. CASE s = rt.active
  <2>1. /\ UNCHANGED <<rt, hosts>>
        /\ IF at.choice.job THEN at' = [at EXCEPT !.pc = "attach"] ELSE FocusReturns(TRUE)
    BY <1>2, <1>3 DEF FocusSwitches
  <2>2. /\ WellPlaced(at') /\ Present(at') /\ at'.watched = Nil
        /\ at'.pc \notin {"push", "focus", "focus_switch"}
    BY <1>1, <2>1, ArrivesLands
  <2> QED
    BY <1>1, <2>1, <2>2, InLoopInv
<1>4. CASE s # rt.active /\ ~(Attachable(s) /\ Reachable(s))
  <2>1. rt' = Refreshed(rt) /\ FocusReturns(FALSE) /\ UNCHANGED hosts
    BY <1>2, <1>4 DEF FocusSwitches
  <2> QED
    BY <1>1, <2>1, FocusLands, CalmIsGentle, QuietInv
<1>5. CASE s # rt.active /\ Attachable(s) /\ Reachable(s)
  <2>1. /\ SwitchTo(s) /\ rt' = Switched(s)
        /\ IF at.choice.job THEN at' = [at EXCEPT !.pc = "attach"] ELSE FocusReturns(TRUE)
    BY <1>2, <1>5 DEF FocusSwitches
  <2>2. /\ WellPlaced(at') /\ Present(at') /\ at'.watched = Nil
        /\ at'.pc \notin {"push", "focus", "focus_switch"}
    BY <1>1, <2>1, ArrivesLands
  <2>3. conn' = conn /\ task' = task /\ spent' = spent /\ conn[hosted[s].host] = "open"
    BY <2>1 DEF SwitchTo, Reachable
  <2>4. HostTypes' /\ Links' /\ SameWork /\ attached_session'[hosted[s].host] = s /\ hosted[s].host \in Host
    BY <2>1, <2>3, AttachesLinks DEF Inv, SwitchTo, HostTypes
  <2>5. Work'
    BY <2>4, SameWorkKeeps DEF Inv, Work
  <2>6. PICK h \in Host : h = hosted[s].host
    BY <2>4
  <2>7. hosted'[s].host = h /\ hosted'[s].activity = hosted[s].activity
    BY <2>4, <2>6 DEF SameWork
  <2>8. Arrived(rt', s, h) /\ rt'.activity = hosted[s].activity /\ rt'.local = rt.local
    BY <1>1, <2>1, <2>6, SwitchedFields DEF Inv
  <2>9. /\ rt' \in Runtime /\ rt'.active = s /\ rt'.connection = h /\ h \notin rt'.parked
        /\ \A g \in Host : conn'[g] = "open" => g \in rt'.parked \cup {h}
    BY <2>3, <2>8 DEF Arrived
  <2>10. Place' /\ ActiveIsAttached'
    BY <2>2, <2>4, <2>6, <2>7, <2>9, MovePlace
  <2>11. Mind'
    BY <1>1, <2>2, <2>3, <2>4, <2>5, <2>7, <2>8, <2>9, CarriedMind DEF Inv, Work
  <2> QED
    BY <2>4, <2>5, <2>10, <2>11 DEF Inv
<1> QED
  BY <1>3, <1>4, <1>5

\* The loop is over, and the client looks at the session it is in.
LEMMA InvFocusOver ==
  ASSUME Inv, FocusOver
  PROVE  Inv'
<1>1. /\ Present(at) /\ WellPlaced(at) /\ rt \in Runtime /\ rt.active \in Session /\ Now \in 0..ShellJob /\ at \in At
      /\ at.pc = "focus_over"
      /\ hosted' = hosted /\ attached_session' = attached_session /\ conn' = conn /\ spent' = spent
  BY Focused DEF FocusOver
<1>2. Calm(at')
  <2>1. CASE \E ok : ResumeReturns(ok)
    BY <2>1, ResumeLands
  <2>2. CASE at' \in {NowAt("leave"), NowAt("top")}
    BY <2>2, CalmNow DEF CalmPc
  <2>3. CASE \E b \in {"leave", at.back} : at' = [NowAt("resume") EXCEPT !.back = b]
    <3>1. {"leave", at.back} \subseteq Pc \cup {Nil}
      BY <1>1, AtFields DEF Pc
    <3> QED
      BY <2>3, <3>1, CalmResume
  <2> QED
    BY <2>1, <2>2, <2>3 DEF FocusOver
<1>3. CASE rt' = rt /\ task' = task
  <2>1. UNCHANGED hosts
    BY <1>1, <1>3 DEF hosts
  <2> QED
    BY <1>1, <1>2, <1>3, <2>1, CalmIsGentle, QuietInv
<1>4. CASE /\ Current /\ task' = task
           /\ rt' = Refreshed([rt EXCEPT !.activity = Now, !.local = Restored(rt.active)])
  <2>1. PICK n \in 0..ShellJob, l \in Conversation : n = Now /\ l = Restored(rt.active)
    BY <1>1, RestoredFields DEF Inv
  <2>2. PICK v \in Runtime : v = [rt EXCEPT !.activity = n, !.local = l]
    BY <1>1 DEF Runtime
  <2>3. v.connection = rt.connection /\ v.active = rt.active /\ v.activity = n /\ v.local = l /\ v.parked = rt.parked
    BY <1>1, <2>2 DEF Runtime
  <2>4. /\ rt' \in Runtime /\ Alike(rt', rt) /\ rt'.parked = Listed /\ rt'.local = Restored(rt.active) /\ rt'.activity = Now
    BY <1>4, <2>1, <2>2, <2>3, RefreshedFields DEF Alike, SameNote, Listed
  <2>5. UNCHANGED hosts
    BY <1>1, <1>4 DEF hosts
  <2> QED
    BY <1>1, <1>2, <1>4, <2>4, <2>5, FreshInv
<1>5. CASE Current /\ task' = Dismissed /\ rt' = [rt EXCEPT !.activity = Now]
  <2>1. PICK n \in 0..ShellJob : n = Now
    BY <1>1
  <2>2. rt' = [rt EXCEPT !.activity = n]
    BY <1>5, <2>1
  <2>3. rt' \in Runtime /\ Alike(rt', rt) /\ rt'.parked = rt.parked /\ rt'.local = rt.local /\ rt'.activity = Now
    BY <1>1, <2>1, <2>2 DEF Runtime, Alike
  <2> QED
    BY <1>1, <1>2, <1>5, <2>3, CalmIsGentle, DismissingInv
<1>6. \/ rt' = rt /\ task' = task
      \/ /\ Current /\ task' = task
         /\ rt' = Refreshed([rt EXCEPT !.activity = Now, !.local = Restored(rt.active)])
      \/ Current /\ task' = Dismissed /\ rt' = [rt EXCEPT !.activity = Now]
  <2>1. CASE at.from = "prompt"
    BY <2>1 DEF FocusOver
  <2>2. CASE at.from # "prompt"
    BY <2>2 DEF FocusOver
  <2> QED
    BY <2>1, <2>2
<1> QED
  BY <1>3, <1>4, <1>5, <1>6

-----------------------------------------------------------------------------
(* The daemons, their other clients and the network.                       *)

\* What a turn that ends changes.
TurnEnded(t, o, r) ==
  /\ hosted' \in [Session -> Hosted] /\ task' \in [Turn -> Task]
  /\ task'[t].session = task[t].session /\ task'[t].outcome = o /\ task'[t].recorded = r
  /\ task'[t].cleared = task[t].cleared /\ task'[t].dismissed = task[t].dismissed
  /\ task'[t].displaced = task[t].displaced
  /\ \A u \in Turn : u # t => task'[u] = task[u]
  /\ task[t].session \in Session /\ hosted[task[t].session].status = "open" /\ hosted[task[t].session].activity = t
  /\ hosted'[task[t].session].activity = Idle
  /\ hosted'[task[t].session].turns = IF r THEN hosted[task[t].session].turns \cup {t} ELSE hosted[task[t].session].turns
  /\ \A x \in Session : /\ hosted'[x].host = hosted[x].host /\ hosted'[x].controller = hosted[x].controller
                        /\ hosted'[x].status = hosted[x].status
                        /\ x # task[t].session => hosted'[x] = hosted[x]

\* So it does.
LEMMA TurnEndsFields ==
  ASSUME HostTypes, Links, Tasks, NEW t \in Turn, NEW o \in {"completed", "failed"}, NEW r \in BOOLEAN, TurnEnds(t, o, r)
  PROVE  TurnEnded(t, o, r)
<1>1. PICK k \in Task : k = task[t]
  BY DEF HostTypes
<1>2. task'[t] = [k EXCEPT !.outcome = o, !.recorded = r] /\ \A u \in Turn : u # t => task'[u] = task[u]
  BY <1>1 DEF TurnEnds, HostTypes
<1>3. /\ task'[t] \in Task
      /\ task'[t].session = task[t].session /\ task'[t].outcome = o /\ task'[t].recorded = r
      /\ task'[t].cleared = task[t].cleared /\ task'[t].dismissed = task[t].dismissed
      /\ task'[t].displaced = task[t].displaced
  BY <1>1, <1>2 DEF Task
<1>4. task' \in [Turn -> Task]
  BY <1>2, <1>3 DEF TurnEnds, HostTypes
<1>5. PICK s \in Session : s = task[t].session
  BY <1>1, TaskFields DEF Tasks, TaskFits, TurnEnds
<1>6. hosted[s].activity = t /\ hosted[s].status = "open"
  <2>1. hosted[s].activity = t /\ hosted[s].activity # Idle /\ hosted[s] \in Hosted
    BY <1>5, Constants DEF Tasks, TaskFits, TurnEnds, HostTypes
  <2> QED
    BY <2>1, HostedFields DEF Links, SessionLink
<1>7. PICK b \in Hosted : b = hosted[s]
  BY DEF HostTypes
<1>8. PICK n \in SUBSET Turn : n = IF r THEN b.turns \cup {t} ELSE b.turns
  BY <1>7, HostedFields
<1>9. hosted'[s] = [b EXCEPT !.activity = Idle, !.turns = n] /\ \A x \in Session : x # s => hosted'[x] = hosted[x]
  BY <1>5, <1>7, <1>8 DEF TurnEnds, HostTypes
<1>10. /\ hosted'[s] \in Hosted /\ hosted'[s].activity = Idle /\ hosted'[s].turns = n
       /\ hosted'[s].host = b.host /\ hosted'[s].controller = b.controller /\ hosted'[s].status = b.status
  BY <1>7, <1>9, Constants DEF Hosted
<1>11. hosted' \in [Session -> Hosted]
  BY <1>9, <1>10 DEF TurnEnds, HostTypes
<1> QED
  BY <1>2, <1>3, <1>4, <1>5, <1>6, <1>7, <1>8, <1>9, <1>10, <1>11 DEF TurnEnded

\* A turn ends.
LEMMA InvTurnEnds ==
  ASSUME Inv, NEW t \in Turn, NEW o \in {"completed", "failed"}, NEW r \in BOOLEAN, TurnEnds(t, o, r)
  PROVE  Inv'
<1>0. TurnEnded(t, o, r)
  BY TurnEndsFields DEF Inv, Work
<1>1. PICK s \in Session : s = task[t].session
  BY <1>0 DEF TurnEnded
<1>2. /\ hosted' \in [Session -> Hosted] /\ task' \in [Turn -> Task]
      /\ task'[t].session = task[t].session /\ task'[t].outcome = o /\ task'[t].recorded = r
      /\ task'[t].cleared = task[t].cleared /\ task'[t].dismissed = task[t].dismissed
      /\ task'[t].displaced = task[t].displaced
      /\ \A u \in Turn : u # t => task'[u] = task[u]
      /\ hosted[s].status = "open" /\ hosted[s].activity = t /\ hosted'[s].activity = Idle
      /\ hosted'[s].turns = IF r THEN hosted[s].turns \cup {t} ELSE hosted[s].turns
      /\ \A x \in Session : /\ hosted'[x].host = hosted[x].host /\ hosted'[x].controller = hosted[x].controller
                            /\ hosted'[x].status = hosted[x].status
                            /\ x # s => hosted'[x] = hosted[x]
  BY <1>1, <1>0 DEF TurnEnded
<1>3. /\ attached_session' = attached_session /\ conn' = conn /\ spent' = spent /\ rt' = rt /\ at' = at
      /\ task[t].outcome = "running"
  BY DEF TurnEnds
<1>4. HostTypes /\ Links /\ Tasks /\ TurnIsKept /\ HostTypes'
  BY <1>1, <1>2, <1>3 DEF Inv, Work, HostTypes
<1>5. Links'
  BY <1>1, <1>2, <1>3, <1>4, KeepingLinks DEF Keeping
<1>6. ASSUME NEW u \in Turn PROVE TaskFits(u)'
  <2>1. TaskFits(u) /\ task[u] \in Task /\ TaskFits(t)
    BY <1>4 DEF Tasks, HostTypes
  <2>2. CASE u = t
    <3>1. task'[u].session = s /\ task'[u].outcome # "running"
      BY <1>1, <1>2, <2>2
    <3>2. hosted'[s].status # "unborn"
      BY <1>1, <1>2
    <3>3. ASSUME NEW x \in Session PROVE hosted'[x].activity # u
      BY <1>1, <1>2, <2>1, <2>2, Constants DEF TaskFits
    <3>4. ASSUME NEW x \in Session, u \in hosted'[x].turns PROVE task'[u].recorded
      <4>1. CASE r
        BY <1>1, <1>2, <2>2, <4>1
      <4>2. CASE ~r
        BY <1>1, <1>2, <1>3, <2>1, <2>2, <3>4, <4>2 DEF TaskFits
      <4> QED
        BY <4>1, <4>2
    <3> QED
      BY <3>1, <3>2, <3>3, <3>4, Constants DEF TaskFits
  <2>3. CASE u # t
    <3>1. task'[u] = task[u] /\ task[u].session \in Session \cup {Nil}
      BY <1>1, <1>2, <2>1, <2>3, TaskFields
    <3>2. task[u].session # Nil => hosted'[task[u].session].status # "unborn"
      BY <1>1, <1>2, <2>1, <3>1 DEF TaskFits
    <3>3. task[u].outcome = "running" => ~task[u].recorded /\ hosted'[task[u].session].activity = u
      BY <1>1, <1>2, <2>1, <2>3, <3>1 DEF TaskFits
    <3>4. ASSUME NEW x \in Session, hosted'[x].activity = u PROVE task[u].session = x /\ task[u].outcome = "running"
      BY <1>1, <1>2, <2>1, <3>4, Constants DEF TaskFits
    <3>5. ASSUME NEW x \in Session, u \in hosted'[x].turns PROVE task[u].recorded
      BY <1>1, <1>2, <2>1, <2>3, <3>5 DEF TaskFits
    <3> QED
      BY <2>1, <3>1, <3>2, <3>3, <3>4, <3>5 DEF TaskFits
  <2> QED
    BY <2>2, <2>3
<1>7. TurnIsKept'
  <2>1. SUFFICES ASSUME NEW u \in Turn, task'[u].recorded, hosted'[task'[u].session].status = "open",
                        u \notin hosted'[task'[u].session].turns
                 PROVE  Excused(u)'
    BY DEF TurnIsKept, Excused
  <2>2. CASE u = t
    BY <1>1, <1>2, <2>1, <2>2
  <2>3. CASE u # t
    <3>1. task'[u] = task[u] /\ task[u] \in Task /\ TaskFits(u)
      BY <1>1, <1>2, <1>4, <2>3 DEF Tasks, HostTypes
    <3>2. task[u].session \in Session
      BY <2>1, <3>1, TaskFields DEF TaskFits
    <3>3. u \notin hosted[task[u].session].turns /\ hosted[task[u].session].status = "open"
      BY <1>1, <1>2, <2>1, <3>1, <3>2
    <3> QED
      BY <1>4, <2>1, <3>1, <3>3 DEF TurnIsKept, Excused
  <2> QED
    BY <2>2, <2>3
<1>8. Place' /\ ActiveIsAttached'
  BY <1>1, <1>2, <1>3, <1>4, <1>5, WorldPlace DEF Inv
<1>9. \A x \in Session : hosted'[x].activity \in {hosted[x].activity, Idle}
  BY <1>1, <1>2
<1>10. \A u \in Turn : /\ task'[u].session = task[u].session /\ task'[u].cleared = task[u].cleared
                       /\ task'[u].dismissed = task[u].dismissed /\ task'[u].displaced = task[u].displaced
                       /\ task[u].recorded => task'[u].recorded
                       /\ task[u].outcome # "running" => /\ task'[u].outcome = task[u].outcome
                                                         /\ task'[u].recorded = task[u].recorded
  <2>1. ~task[t].recorded
    BY <1>3, <1>4 DEF Tasks, TaskFits
  <2>2. ASSUME NEW u \in Turn
        PROVE  /\ task'[u].session = task[u].session /\ task'[u].cleared = task[u].cleared
               /\ task'[u].dismissed = task[u].dismissed /\ task'[u].displaced = task[u].displaced
               /\ task[u].recorded => task'[u].recorded
               /\ task[u].outcome # "running" => /\ task'[u].outcome = task[u].outcome
                                                 /\ task'[u].recorded = task[u].recorded
    BY <1>1, <1>2, <1>3, <2>1
  <2> QED
    BY <2>2
<1>11. Mind'
  BY <1>3, <1>9, <1>10, WorldMind DEF Inv
<1> QED
  BY <1>4, <1>5, <1>6, <1>7, <1>8, <1>11 DEF Inv, Work, Tasks

\* A job exits.
LEMMA InvJobExits ==
  ASSUME Inv, NEW s \in Session, JobExits(s)
  PROVE  Inv'
<1>1. /\ Sets(s, Idle) /\ hosted[s].activity = ShellJob
      /\ task' = task /\ attached_session' = attached_session /\ conn' = conn /\ spent' = spent /\ rt' = rt /\ at' = at
  BY DEF JobExits, Sets
<1>2. HostTypes /\ Links /\ Tasks /\ TurnIsKept /\ Idle \in 0..ShellJob /\ Idle \notin Turn /\ spent' \in 0..MaxEvents
      /\ task' \in [Turn -> Task] /\ SameTasks
  BY <1>1, Constants DEF Inv, Work, HostTypes, SameTasks, Excused
<1>3. hosted[s].activity # Idle /\ hosted[s].activity \notin Turn /\ hosted[s] \in Hosted
  BY <1>1, <1>2, Constants DEF HostTypes
<1>4. hosted[s].status = "open"
  BY <1>2, <1>3, HostedFields DEF Links, SessionLink
<1>5. HostTypes' /\ Links'
  BY <1>1, <1>2, <1>4, SetsLinks
<1>6. Work'
  BY <1>1, <1>2, <1>3, SetsKeeps
<1>7. hosted'[s].activity = Idle /\ \A x \in Session : hosted'[x].host = hosted[x].host /\ (x # s => hosted'[x] = hosted[x])
  BY <1>1, <1>2, SetsFields
<1>8. Place' /\ ActiveIsAttached'
  BY <1>1, <1>2, <1>5, <1>7, WorldPlace DEF Inv
<1>9. Mind'
  BY <1>1, <1>2, <1>7, WorldMind DEF Inv
<1> QED
  BY <1>5, <1>6, <1>8, <1>9 DEF Inv

\* Another client takes a session, or leaves it.
LEMMA InvOtherClient ==
  ASSUME Inv, NEW s \in Session, OtherTakes(s) \/ OtherLeaves(s)
  PROVE  Inv'
<1>1. task' = task /\ attached_session' = attached_session /\ conn' = conn /\ rt' = rt /\ at' = at
  BY DEF OtherTakes, OtherLeaves
<1>2. HostTypes' /\ Links' /\ SameWork
  BY OtherLinks DEF Inv
<1>3. Work'
  BY <1>2, SameWorkKeeps DEF Inv, Work
<1>4. \A x \in Session : hosted'[x].host = hosted[x].host /\ hosted'[x].activity = hosted[x].activity
  BY <1>2 DEF SameWork
<1>5. Place' /\ ActiveIsAttached'
  BY <1>1, <1>2, <1>4, WorldPlace DEF Inv
<1>6. Mind'
  BY <1>1, <1>4, WorldMind DEF Inv
<1> QED
  BY <1>2, <1>3, <1>5, <1>6 DEF Inv

\* Another client closes the session it controls.
LEMMA InvOtherCloses ==
  ASSUME Inv, NEW s \in Session, OtherCloses(s)
  PROVE  Inv'
<1>1. /\ Closes(s) /\ hosted[s].controller = "other"
      /\ attached_session' = attached_session /\ conn' = conn /\ spent' = spent /\ rt' = rt /\ at' = at
  BY DEF OtherCloses
<1>2. HostTypes /\ Links /\ Tasks /\ TurnIsKept /\ hosted[s].status # "unborn"
  BY <1>1, Constants DEF Inv, Work, Links, SessionLink
<1>3. /\ attached_session' \in [Host -> Session \cup {Nil}]
      /\ \A h \in Host : attached_session'[h] = IF attached_session[h] = s THEN Nil ELSE attached_session[h]
  BY <1>1, <1>2, Constants DEF HostTypes, Links, HostLink
<1>4. /\ HostTypes' /\ Links' /\ hosted'[s].status = "closed" /\ hosted'[s].activity = Idle
      /\ \A x \in Session : /\ hosted'[x].turns = hosted[x].turns /\ hosted'[x].host = hosted[x].host
                            /\ x # s => hosted'[x] = hosted[x]
      /\ \A t \in Turn : task'[t] = IF task[t].session = s /\ task[t].outcome = "running"
                                      THEN [task[t] EXCEPT !.outcome = "failed"] ELSE task[t]
  BY <1>1, <1>2, <1>3, ClosesLinks
<1>5. /\ Work'
      /\ \A t \in Turn : /\ task'[t].session = task[t].session /\ task'[t].cleared = task[t].cleared
                         /\ task'[t].dismissed = task[t].dismissed /\ task'[t].displaced = task[t].displaced
                         /\ task'[t].recorded = task[t].recorded
                         /\ task'[t].outcome = IF task[t].session = s /\ task[t].outcome = "running" THEN "failed" ELSE task[t].outcome
  BY <1>2, <1>4, ClosesKeeps
<1>6. Place' /\ ActiveIsAttached'
  BY <1>1, <1>2, <1>4, WorldPlace DEF Inv
<1>7. /\ \A x \in Session : hosted'[x].activity \in {hosted[x].activity, Idle}
      /\ \A t \in Turn : task[t].outcome # "running" => task'[t].outcome = task[t].outcome
  BY <1>4, <1>5
<1>8. Mind'
  BY <1>1, <1>5, <1>7, WorldMind DEF Inv
<1> QED
  BY <1>4, <1>5, <1>6, <1>8 DEF Inv

\* A connection is lost.
LEMMA InvConnectionBreaks ==
  ASSUME Inv, NEW h \in Host, ConnectionBreaks(h)
  PROVE  Inv'
<1>1. task' = task /\ rt' = rt /\ at' = at
  BY DEF ConnectionBreaks
<1>2. HostTypes' /\ Links' /\ SameWork
  BY BreaksLinks DEF Inv
<1>3. Work'
  BY <1>2, SameWorkKeeps DEF Inv, Work
<1>4. \A x \in Session : hosted'[x].host = hosted[x].host /\ hosted'[x].activity = hosted[x].activity
  BY <1>2 DEF SameWork
<1>5. \A g \in Host : /\ attached_session'[g] = IF g = h THEN Nil ELSE attached_session[g]
                      /\ conn'[g] = IF g = h THEN "lost" ELSE conn[g]
  BY DEF ConnectionBreaks, Inv, HostTypes
<1>6. Place' /\ ActiveIsAttached'
  BY <1>1, <1>2, <1>4, <1>5, WorldPlace DEF Inv
<1>7. Mind'
  BY <1>1, <1>4, WorldMind DEF Inv
<1> QED
  BY <1>2, <1>3, <1>6, <1>7 DEF Inv

-----------------------------------------------------------------------------
(* The theorems.                                                           *)

\* Every step keeps the invariant.
LEMMA InvNext ==
  ASSUME Inv, [ClientNext]_clientVars
  PROVE  Inv'
<1>1. CASE UNCHANGED clientVars
  BY <1>1 DEF clientVars, hosts, Inv, HostTypes, Links, HostLink, SessionLink, Place, WellPlaced, Follows, Connected,
              ActiveIsAttached, Work, Tasks, TaskFits, TurnIsKept, Mind, Noted, Untracked, Keeps, Kept, Excused, Present, Now
<1>2. CASE PromptStep
  <2>1. CASE TakeFinishedTurn \/ ShellCommand \/ ModelCommand \/ OtherCommand \/ NoCommand \/ ResumeCommand
    BY <2>1, InvTakeFinishedTurn, InvShellCommand, InvModelCommand, InvOtherCommand
  <2>2. CASE \E t \in Turn : Submit(t)
    BY <2>2, InvSubmit
  <2>3. CASE \E then \in {"switch", "create", "connect", "close", "detach", "leave"} : SyncedCommand(then)
    BY <2>3, InvSyncedCommand
  <2>4. CASE \E back \in {"sync", "top"} : StopAsked(back)
    BY <2>4, InvStopAsked
  <2>5. CASE \E s \in Session : StartClient(s) \/ PromptSwitches(s) \/ PromptCreates(s)
    BY <2>5, InvStartClient, InvSwitchCommand, InvCreateCommand
  <2> QED
    BY <1>2, <2>1, <2>2, <2>3, <2>4, <2>5 DEF PromptStep
<1>3. CASE CommandStep
  <2>1. CASE SyncLooks \/ SyncPushes \/ SyncFails
    BY <2>1, InvSyncLooks, InvSyncPushes, InvSyncFails
  <2>2. CASE CommandRefused \/ CloseCommand \/ Fallback \/ DetachCommand \/ Leave
    BY <2>2, InvCommandRefused, InvCloseCommand, InvFallback, InvLeave
  <2>3. CASE StopLooks \/ StopActs
    BY <2>3, InvStopLooks, InvStopActs
  <2>4. CASE \E s \in Session : SwitchCommand(s) \/ CreateCommand(s)
    BY <2>4, InvSwitchCommand, InvCreateCommand
  <2>5. CASE \E s \in Session, h \in Host : ConnectCommand(s, h)
    BY <2>5, InvConnectCommand
  <2> QED
    BY <1>3, <2>1, <2>2, <2>3, <2>4, <2>5 DEF CommandStep
<1>4. CASE FollowStep
  <2>1. CASE ResumeFollows \/ ResumeLooks
    BY <2>1, InvResumeFollows, InvResumeLooks
  <2>2. CASE FollowEnds \/ FollowLost \/ FollowDetaches \/ FollowStops \/ FollowCannotSwitch
    BY <2>2, InvFollowEnds, InvFollowLeaves, InvFollowStops
  <2>3. CASE FocusAttaches \/ FocusEnds \/ FocusDetaches \/ FocusTerminates \/ FocusReattaches \/ FocusFails
    BY <2>3, InvFocusAttaches, InvFocusLeaves, InvFocusTerminates, InvFocusReattaches
  <2>4. CASE FocusSwitches \/ FocusOver
    BY <2>4, InvFocusSwitches, InvFocusOver
  <2>5. CASE \E s \in Session : FollowSwitches(s) \/ FollowCreates(s) \/ FocusChooses(s) \/ FocusCreates(s)
    BY <2>5, InvSwitchCommand, InvCreateCommand, InvFocusChooses, InvFocusCreates
  <2> QED
    BY <1>4, <2>1, <2>2, <2>3, <2>4, <2>5 DEF FollowStep
<1>5. CASE HostStep
  <2>1. CASE \E t \in Turn, outcome \in {"completed", "failed"}, recorded \in BOOLEAN : TurnEnds(t, outcome, recorded)
    BY <2>1, InvTurnEnds
  <2>2. CASE \E s \in Session : JobExits(s) \/ OtherTakes(s) \/ OtherLeaves(s) \/ OtherCloses(s)
    BY <2>2, InvJobExits, InvOtherClient, InvOtherCloses
  <2>3. CASE \E h \in Host : ConnectionBreaks(h)
    BY <2>3, InvConnectionBreaks
  <2> QED
    BY <1>5, <2>1, <2>2, <2>3 DEF HostStep
<1> QED
  BY <1>1, <1>2, <1>3, <1>4, <1>5 DEF ClientNext

\* The invariant holds of the client wherever its commands, the daemons and the
\* network take it (main.rs: run_interactive, session.rs: SessionRuntime).
THEOREM ClientInvariant == ClientSpec => []Inv
<1>1. ClientInit => Inv
  BY InvStart
<1>2. Inv /\ [ClientNext]_clientVars => Inv'
  BY InvNext
<1> QED
  BY <1>1, <1>2, PTL DEF ClientSpec

\* Every variable keeps its type, the conversations and the place in the main
\* loop included.
THEOREM ClientTypesHold == ClientSpec => []ClientTypeOK
<1>1. Inv => ClientTypeOK
  BY DEF Inv, HostTypes, Place, WellPlaced, ClientTypeOK
<1> QED
  BY <1>1, ClientInvariant, PTL

\* The session the client shows is the one its connection is attached to, and
\* every connection it has open is that one or parked, however it got there
\* (session.rs: switch, connect_ssh, close_current_and_fallback).
THEOREM ShownIsAttached == ClientSpec => []ActiveIsAttached
<1>1. Inv => ActiveIsAttached
  BY DEF Inv
<1> QED
  BY <1>1, ClientInvariant, PTL

\* What a turn has left in its session's conversation stays there, but for
\* //model, turns the client has dismissed, and conversations left over from
\* another session (session.rs: sync, take_finished_turn).
THEOREM TurnsAreKept == ClientSpec => []TurnIsKept
<1>1. Inv => TurnIsKept
  BY DEF Inv, Work
<1> QED
  BY <1>1, ClientInvariant, PTL

=============================================================================

-------------------------- MODULE TurnEngineProofs --------------------------
(***************************************************************************)
(* Proofs about the decision on a tool call (policy.rs) and about the      *)
(* engine that acts on it (engine.rs, compaction.rs), for every policy of  *)
(* the host, every overlay and limits of a client, and any answers of the  *)
(* provider.                                                               *)
(*                                                                         *)
(* First what a decision guarantees by itself.  Then that the state stays  *)
(* well typed and within the turn's budget, and that what is done was      *)
(* decided on for the call and the object it is done with, by an agent     *)
(* that was given the tool, once.  Then that every request pairs the calls *)
(* of the history with their answers, whatever earlier turns came to, and  *)
(* that what a turn did stays in the conversation.                         *)
(***************************************************************************)
EXTENDS TurnEngine, FiniteSetTheorems, SequenceTheorems, NaturalsInduction, WellFoundedInduction, TLAPS

-----------------------------------------------------------------------------
(* The decision.                                                           *)

RuleSet == [base: Policy, overlay: {None} \cup Policy]

\* CallFacts as the engine makes them: only run_shell has a command.
SoundFacts == {c \in Facts : c.command # None => c.tool = "run_shell"}

-----------------------------------------------------------------------------
(* The invariant of the engine.                                            *)

Role == {"system", "user", "assistant", "tool"}
Msg  == [role: Role, calls: Seq(Nat), of: Nat, size: Nat, reasoning: Nat, turn: Nat]
Hist == Seq(Msg)

\* What CallIds makes of a provider's id.
ScopedId == Nat \X Nat

Agent == [history: Hist, rollback: Hist, response: Seq(ToolCall), ids: Seq(ScopedId), index: Nat, observed: BOOLEAN,
          auto: Nat, retried: BOOLEAN, delegations: Nat, tools: SUBSET Tool, scope: Nat, seen: SUBSET ScopedId]

Object == {"f", "secret", None}

Deed == [scope: Nat, id: ScopedId, call: ToolCall, object: Object, facts: SoundFacts, human: BOOLEAN, tools: SUBSET Tool]

\* The variables that say nothing of an agent.
Plain ==
  /\ setup \in Setups
  /\ requests \in 0..limits.provider_requests
  /\ calls \in 0..limits.tool_calls
  /\ {expired, cancelled, evicted} \subseteq BOOLEAN
  /\ stops \in 0..MaxStops /\ answers \in 0..MaxAnswers /\ turn \in Nat
  /\ binding \in Binding \cup {None}
  /\ shell \in {"none", "running", "held", "closed", "left", "gone"}
  /\ decided \in [decision: {"approve", "deny", "abort_turn", "prompt", None}, human: BOOLEAN]

\* An object is opened beneath its own name, and only when it is not blocked.
WalkInv ==
  /\ walk \in [at: {None, "stat", "readlink", "open", "opened", "failed"}, reached: Object, object: Object]
  /\ walk.object = IF walk.at = "opened" THEN walk.reached ELSE None
  /\ walk.at \in {"stat", "readlink", "open", "opened"} => walk.reached # None
  /\ walk.at = "opened" => ~matches(setup.blocked, Components(walk.reached))

\* An agent: the ids of its response are distinct and on record.
SoundAgent(f) ==
  /\ f.index \in 1..(Len(f.response) + 1)
  /\ Len(f.ids) = Len(f.response)
  /\ f.auto <= auto_continues
  /\ IsFiniteSet(f.seen)
  /\ \A j \in DOMAIN f.ids : f.ids[j] \in f.seen
  /\ \A j, k \in DOMAIN f.ids : f.ids[j] = f.ids[k] => j = k

\* The agents at work.  A subagent is the latest delegation of the root agent,
\* and has no delegations of its own.
Agents ==
  /\ stack \in Seq(Agent) /\ Len(stack) \in 1..2
  /\ \A n \in DOMAIN stack : SoundAgent(stack[n])
  /\ stack[1].scope = 0
  /\ IsChild => /\ stack[2].scope = stack[1].delegations
                /\ stack[1].delegations > 0
                /\ "delegate_task" \notin stack[2].tools
                /\ stack[1].index <= Len(stack[1].response)

Deciding == {"prepare", "decide", "approve", "decided"}
Acting   == {"shell", "after", "aborted"}

\* What the uppermost agent is at.
Stage ==
  /\ pc \in {"idle", "charge", "provider", "calls", "direct"} \cup Deciding \cup Acting
  /\ pc \in {"idle", "direct"} => ~IsChild
  /\ outcome \in {"completed", "cancelled", "exhausted", "failed", "aborted", None}
  /\ pc = "idle" <=> outcome # None
  /\ shell # "none" <=> pc \in {"shell", "direct"}
  /\ pc \in Deciding \cup Acting => top.index <= Len(top.response)
  /\ pc \in Deciding => Call.tool \in top.tools

\* A call that is put to a human is one that the rules put to a human, and one
\* that may run is one that they, or a human, let run.
Verdict ==
  /\ pc = "approve" => RulesDecide(setup.rules, CallFacts, mode) = "prompt"
  /\ pc = "decided" /\ decided.decision = "approve" =>
       RulesDecide(setup.rules, CallFacts, mode) = IF decided.human THEN "prompt" ELSE "run"

\* A deed that was authorized.
SoundDeed(a) ==
  /\ a.call.tool \in a.tools
  /\ a.scope # 0 => a.call.tool # "delegate_task"
  /\ Forbidden(setup.rules, a.facts) => a.human /\ a.call.command # None /\ ~a.call.command.checked
  /\ a.call.tool = "run_shell" => Authorized(a, \A w \in a.call.command.runs : HostAllows("run_shell", w))
  /\ a.object # "outside" /\ a.object = a.facts.path
  /\ a.object # None =>
       /\ ~matches(setup.blocked, Components(a.object))
       /\ matches(setup.sensitive, Components(a.object)) => Authorized(a, HostNames(a.object))

\* The position of the next call that the n-th agent may act on.
Upcoming(n) == IF n < Len(stack) \/ pc \in Acting THEN stack[n].index + 1 ELSE stack[n].index

\* The id is one that the agent f has seen, of a call before the next one.
Past(f, next, id) ==
  /\ id \in f.seen
  /\ \A j \in DOMAIN f.ids : f.ids[j] = id => j < next

\* A deed of an agent that is at work is one of its past.
Remembered(a) ==
  /\ a.scope <= stack[1].delegations
  /\ \A n \in DOMAIN stack : a.scope = stack[n].scope => Past(stack[n], Upcoming(n), a.id)

Deeds ==
  /\ acted \in Seq(Deed)
  /\ Len(acted) <= calls
  /\ pc \in Deciding => Len(acted) < calls
  /\ \A k \in DOMAIN acted : SoundDeed(acted[k])
  /\ \A j, k \in DOMAIN acted : j # k => <<acted[j].scope, acted[j].id>> # <<acted[k].scope, acted[k].id>>
  /\ pc \notin {"idle", "direct"} => \A k \in DOMAIN acted : Remembered(acted[k])

EngineInv == Plain /\ WalkInv /\ Agents /\ Stage /\ Verdict /\ Deeds

-----------------------------------------------------------------------------

\* default_decision returns a decision.
LEMMA DefaultIsADecision ==
  ASSUME NEW call, NEW m \in Mode
  PROVE  default_decision(call, m) \in Decision
  BY DEF default_decision, Mode, Decision

\* Policy::decide_by_rules returns a decision.
LEMMA ByRulesIsADecision ==
  ASSUME NEW p, NEW call, NEW m \in Mode, NEW base \in BOOLEAN
  PROVE  decide_by_rules(p, call, m, base) \in Decision
  <1> DEFINE always  == AnyAllows(p.always_allowed, call)
             allowed == p.allowed # None /\ AnyAllows(p.allowed, call)
             denied  == \E k \in DOMAIN p.denied : denies(p.denied[k], call)
             named   == FirstAllowing(p.always_allowed, call).kind = "path"
             asks    == IF always THEN call.sensitive /\ ~(base /\ named) ELSE TRUE
  <1> HIDE DEF always, allowed, denied, asks
  <1>1. decide_by_rules(p, call, m, base) =
          CASE denied -> "deny"
            [] OTHER ->
          CASE p.allowed # None /\ ~always /\ ~allowed -> "deny"
            [] (always \/ allowed) /\ m = "off"      -> "deny"
            [] (always \/ allowed) /\ m # "off"      -> IF asks /\ m = "ask" THEN "prompt" ELSE "run"
            [] OTHER                                    -> IF base THEN default_decision(call, m) ELSE "run"
    BY Zenon DEF decide_by_rules, always, allowed, denied, asks
  <1>2. allowed => p.allowed # None
    BY DEF allowed
  <1> QED
    BY <1>1, <1>2, DefaultIsADecision DEF Decision, Mode

\* Stricter returns one of its arguments, and none that permits more.
LEMMA StricterIsStricter ==
  ASSUME NEW d \in Decision, NEW e \in Decision
  PROVE  /\ Stricter(d, e) \in Decision
         /\ Rank(Stricter(d, e)) <= Rank(d)
         /\ Rank(Stricter(d, e)) <= Rank(e)
         /\ d = "deny" \/ e = "deny" => Stricter(d, e) = "deny"
         /\ d # "run" \/ e # "run" => Stricter(d, e) # "run"
  <1>1. Rank("deny") = 0 /\ Rank("prompt") = 1 /\ Rank("run") = 2
    BY Zenon DEF Rank
  <1> QED
    BY <1>1 DEF Stricter, Decision

\* Policy::decide returns a decision, and none that permits more than its rules.
LEMMA DecideIsADecision ==
  ASSUME NEW p, NEW call, NEW m \in Mode, NEW base \in BOOLEAN
  PROVE  /\ decide(p, call, m, base) \in Decision
         /\ decide_by_rules(p, call, m, base) = "deny" => decide(p, call, m, base) = "deny"
         /\ denial_is_uncheckable(p, call) => decide(p, call, m, base) # "run"
  <1>1. decide_by_rules(p, call, m, base) \in Decision
    BY ByRulesIsADecision
  <1>2. (IF m = "ask" THEN "prompt" ELSE "deny") \in Decision \ {"run"}
    BY DEF Decision
  <1> QED
    BY <1>1, <1>2, StricterIsStricter DEF decide

-----------------------------------------------------------------------------

\* A client's overlay never makes the daemon do more than its own policy does
\* (ApprovalRules::decide).
THEOREM OverlayOnlyTightens ==
  ASSUME NEW rules \in RuleSet, NEW call, NEW m \in Mode
  PROVE  Rank(RulesDecide(rules, call, m)) <= Rank(decide(rules.base, call, m, TRUE))
  <1>1. /\ decide(rules.base, call, m, TRUE) \in Decision
        /\ decide(rules.overlay, call, m, FALSE) \in Decision
    BY DecideIsADecision
  <1>2. \A d \in Decision : Rank(d) <= Rank(d)
    <2>1. Rank("deny") = 0 /\ Rank("prompt") = 1 /\ Rank("run") = 2
      BY Zenon DEF Rank
    <2> QED
      BY <2>1 DEF Decision
  <1>3. CASE rules.overlay = None
    BY <1>1, <1>2, <1>3 DEF RulesDecide
  <1>4. CASE rules.overlay # None
    <2>1. RulesDecide(rules, call, m) = Stricter(decide(rules.base, call, m, TRUE),
                                                    decide(rules.overlay, call, m, FALSE))
      BY <1>4 DEF RulesDecide
    <2> QED
      BY <1>1, <2>1, StricterIsStricter
  <1> QED
    BY <1>3, <1>4

\* What the host's policy or the overlay refuses is refused.
LEMMA EitherRefuses ==
  ASSUME NEW rules \in RuleSet, NEW call, NEW m \in Mode
  PROVE  /\ decide(rules.base, call, m, TRUE) = "deny" => RulesDecide(rules, call, m) = "deny"
         /\ decide(rules.base, call, m, TRUE) # "run" => RulesDecide(rules, call, m) # "run"
         /\ rules.overlay # None /\ decide(rules.overlay, call, m, FALSE) # "run"
              => RulesDecide(rules, call, m) # "run"
  <1>1. /\ decide(rules.base, call, m, TRUE) \in Decision
        /\ decide(rules.overlay, call, m, FALSE) \in Decision
    BY DecideIsADecision
  <1> QED
    BY <1>1, StricterIsStricter DEF RulesDecide

\* Where the mode is off, a gated call is denied, whatever the
\* lists of either say (Policy::decide_by_rules, default_decision).
THEOREM OffDeniesWhatIsGated ==
  ASSUME NEW rules \in RuleSet, NEW call \in Facts, call.gated
  PROVE  RulesDecide(rules, call, "off") = "deny"
  <1> DEFINE p == rules.base
             always  == AnyAllows(p.always_allowed, call)
             allowed == p.allowed # None /\ AnyAllows(p.allowed, call)
             denied  == \E k \in DOMAIN p.denied : denies(p.denied[k], call)
             named   == FirstAllowing(p.always_allowed, call).kind = "path"
             asks    == IF always THEN call.sensitive /\ ~(TRUE /\ named) ELSE TRUE
  <1>1. decide_by_rules(p, call, "off", TRUE) =
          CASE denied -> "deny"
            [] OTHER ->
          CASE p.allowed # None /\ ~always /\ ~allowed -> "deny"
            [] (always \/ allowed) /\ "off" = "off"      -> "deny"
            [] (always \/ allowed) /\ "off" # "off"      -> IF asks /\ "off" = "ask" THEN "prompt" ELSE "run"
            [] OTHER                                    -> IF TRUE THEN default_decision(call, "off") ELSE "run"
    BY Zenon DEF decide_by_rules
  <1>2. default_decision(call, "off") = "deny"
    BY DEF default_decision
  <1>3. decide_by_rules(p, call, "off", TRUE) = "deny"
    <2> HIDE DEF always, allowed, denied, asks, p
    <2> QED
      BY <1>1, <1>2
  <1>4. decide(rules.base, call, "off", TRUE) = "deny"
    BY <1>3, DecideIsADecision DEF Mode
  <1> QED
    BY <1>4, EitherRefuses DEF Mode

\* An entry of the denied list denies (Policy::decide_by_rules).
LEMMA DeniedIsDenied ==
  ASSUME NEW p, NEW call, NEW m \in Mode, NEW base \in BOOLEAN,
         NEW k \in DOMAIN p.denied, denies(p.denied[k], call)
  PROVE  decide(p, call, m, base) = "deny"
  <1> DEFINE always  == AnyAllows(p.always_allowed, call)
             allowed == p.allowed # None /\ AnyAllows(p.allowed, call)
             denied  == \E j \in DOMAIN p.denied : denies(p.denied[j], call)
             named   == FirstAllowing(p.always_allowed, call).kind = "path"
             asks    == IF always THEN call.sensitive /\ ~(base /\ named) ELSE TRUE
  <1>1. decide_by_rules(p, call, m, base) =
          CASE denied -> "deny"
            [] OTHER ->
          CASE p.allowed # None /\ ~always /\ ~allowed -> "deny"
            [] (always \/ allowed) /\ m = "off"      -> "deny"
            [] (always \/ allowed) /\ m # "off"      -> IF asks /\ m = "ask" THEN "prompt" ELSE "run"
            [] OTHER                                    -> IF base THEN default_decision(call, m) ELSE "run"
    BY Zenon DEF decide_by_rules
  <1>2. denied
    OBVIOUS
  <1>3. decide_by_rules(p, call, m, base) = "deny"
    <2> HIDE DEF always, allowed, denied, asks
    <2> QED
      BY <1>1, <1>2
  <1> QED
    BY <1>3, DecideIsADecision

\* A policy does not let run what an entry of its denied list is about, also
\* when the command cannot be read as it is written (denial_is_uncheckable).
LEMMA ForbiddenIsRefused ==
  ASSUME NEW p \in Policy, NEW call \in SoundFacts, NEW m \in Mode, NEW base \in BOOLEAN,
         NEW k \in DOMAIN p.denied,
         IF p.denied[k].kind = "shell" THEN call.command # None /\ p.denied[k].pattern \in call.command.runs
                                       ELSE allows(p.denied[k], call)
  PROVE  decide(p, call, m, base) # "run"
  <1> DEFINE rule == p.denied[k]
  <1>1. CASE rule.kind # "shell"
    <2>1. denies(rule, call)
      BY <1>1 DEF denies
    <2> QED
      BY <2>1, DeniedIsDenied
  <1>2. CASE rule.kind = "shell"
    <2>1. p.denied \in Seq(Rule)
      BY DEF Policy
    <2>2. rule \in Rule
      BY <2>1
    <2>3. rule.tool = "run_shell"
      BY <1>2, <2>2 DEF Rule
    <2>4. call.command # None /\ rule.pattern \in call.command.runs
      BY <1>2
    <2>5. call.tool = "run_shell" /\ call.command \in Command
      BY <2>4 DEF SoundFacts, Facts
    <2>6. CASE call.command.checked
      <3>1. rule.pattern \in call.command.parts
        BY <2>4, <2>5, <2>6 DEF Command
      <3>2. denies(rule, call)
        BY <1>2, <2>3, <2>4, <2>5, <3>1 DEF denies
      <3> QED
        BY <3>2, DeniedIsDenied
    <2>7. CASE ~call.command.checked
      <3>1. denial_is_uncheckable(p, call)
        BY <1>2, <2>5, <2>7 DEF denial_is_uncheckable
      <3> QED
        BY <3>1, DecideIsADecision
    <2> QED
      BY <2>6, <2>7
  <1> QED
    BY <1>1, <1>2

\* What a rule of the host or of the client forbids never runs by the rules
\* alone: the call is denied, or a human is asked about a command that cannot
\* be read (ApprovalRules::decide, Rule::denies).
THEOREM ForbiddenNeverRuns ==
  ASSUME NEW rules \in RuleSet, NEW call \in SoundFacts, NEW m \in Mode,
         Forbidden(rules, call)
  PROVE  RulesDecide(rules, call, m) # "run"
  <1>1. PICK p \in {rules.base} \cup ({rules.overlay} \ {None}) : \E k \in DOMAIN p.denied :
          IF p.denied[k].kind = "shell" THEN call.command # None /\ p.denied[k].pattern \in call.command.runs
                                        ELSE allows(p.denied[k], call)
    BY Zenon DEF Forbidden
  <1>2. PICK k \in DOMAIN p.denied :
          IF p.denied[k].kind = "shell" THEN call.command # None /\ p.denied[k].pattern \in call.command.runs
                                        ELSE allows(p.denied[k], call)
    BY <1>1
  <1>3. p \in Policy
    BY <1>1 DEF RuleSet
  <1>4. \A base \in BOOLEAN : decide(p, call, m, base) # "run"
    BY <1>2, <1>3, ForbiddenIsRefused
  <1> QED
    BY <1>1, <1>4, EitherRefuses

-----------------------------------------------------------------------------
(* What a decision says of a call.                                         *)

\* A non-empty set of naturals has a least element.
LEMMA LeastNat ==
  ASSUME NEW S, S \subseteq Nat, S # {}
  PROVE  \E n \in S : \A m \in S : n <= m
<1>1. PICK n \in S : \A m \in S : ~(<<m, n>> \in OpToRel(<, Nat))
  BY NatLessThanWellFounded, WFMin, Zenon
<1>2. \A m \in S : ~(m < n)
  BY <1>1 DEF OpToRel
<1> QED
  BY <1>2

\* The first entry of a list that allows a call is in the list, and allows it.
LEMMA FirstAllows ==
  ASSUME NEW list \in Seq(Rule), NEW call, AnyAllows(list, call)
  PROVE  \E k \in DOMAIN list : FirstAllowing(list, call) = list[k] /\ allows(list[k], call)
<1> DEFINE S == {k \in DOMAIN list : allows(list[k], call)}
<1>1. S \subseteq Nat /\ S # {} /\ DOMAIN list = 1..Len(list) /\ Len(list) \in Nat
  BY DEF AnyAllows
<1>2. PICK k \in S : \A j \in S : k <= j
  BY <1>1, LeastNat
<1>3. \A j \in 1..(k - 1) : ~allows(list[j], call)
  <2>1. SUFFICES ASSUME NEW j \in 1..(k - 1), allows(list[j], call) PROVE FALSE
    OBVIOUS
  <2>2. j \in S /\ k \in Nat
    BY <1>1, <2>1
  <2> QED
    BY <1>2, <2>1, <2>2
<1>4. \E j \in DOMAIN list : allows(list[j], call) /\ \A i \in 1..(j - 1) : ~allows(list[i], call)
  BY <1>2, <1>3
<1>5. PICK j \in DOMAIN list : j = CHOOSE i \in DOMAIN list : allows(list[i], call) /\ \A h \in 1..(i - 1) : ~allows(list[h], call)
  BY <1>4
<1>6. allows(list[j], call)
  BY <1>4, <1>5
<1> QED
  BY <1>5, <1>6 DEF FirstAllowing

\* In mode ask, a gated call runs without a human only if the host's policy
\* always allows it, and a sensitive one only if it names the path.
LEMMA HostListsIt ==
  ASSUME NEW rules \in RuleSet, NEW call, call.gated, RulesDecide(rules, call, "ask") = "run"
  PROVE  /\ AnyAllows(rules.base.always_allowed, call)
         /\ call.sensitive => FirstAllowing(rules.base.always_allowed, call).kind = "path"
  <1> DEFINE p == rules.base
             always  == AnyAllows(p.always_allowed, call)
             allowed == p.allowed # None /\ AnyAllows(p.allowed, call)
             denied  == \E k \in DOMAIN p.denied : denies(p.denied[k], call)
             named   == FirstAllowing(p.always_allowed, call).kind = "path"
             asks    == IF always THEN call.sensitive /\ ~(TRUE /\ named) ELSE TRUE
  <1>1. decide_by_rules(p, call, "ask", TRUE) =
          CASE denied -> "deny"
            [] OTHER ->
          CASE p.allowed # None /\ ~always /\ ~allowed -> "deny"
            [] (always \/ allowed) /\ "ask" = "off"      -> "deny"
            [] (always \/ allowed) /\ "ask" # "off"      -> IF asks /\ "ask" = "ask" THEN "prompt" ELSE "run"
            [] OTHER                                    -> IF TRUE THEN default_decision(call, "ask") ELSE "run"
    BY Zenon DEF decide_by_rules
  <1>2. default_decision(call, "ask") = "prompt"
    BY DEF default_decision
  <1>3. decide(p, call, "ask", TRUE) = "run"
    BY EitherRefuses DEF Mode
  <1>4. decide_by_rules(p, call, "ask", TRUE) = "run"
    <2>1. decide_by_rules(p, call, "ask", TRUE) \in Decision
      BY ByRulesIsADecision DEF Mode
    <2>2. (IF "ask" = "ask" THEN "prompt" ELSE "deny") \in Decision
      BY DEF Decision
    <2> QED
      BY <1>3, <2>1, <2>2, StricterIsStricter DEF decide
  <1>5. always /\ ~asks
    <2> HIDE DEF always, allowed, denied, asks, p
    <2>1. allowed => p.allowed # None
      BY DEF allowed
    <2>2. asks \/ always
      BY DEF asks
    <2> QED
      BY <1>1, <1>2, <1>4, <2>1, <2>2
  <1> QED
    BY <1>5

\* A call that is put to a human although a rule forbids what it does is a
\* command that cannot be read as it is written.
LEMMA ForbiddenIsPrompted ==
  ASSUME NEW rules \in RuleSet, NEW call \in SoundFacts, NEW m \in Mode,
         Forbidden(rules, call), RulesDecide(rules, call, m) = "prompt"
  PROVE  call.command # None /\ ~call.command.checked
  <1>1. PICK p \in {rules.base} \cup ({rules.overlay} \ {None}) : \E k \in DOMAIN p.denied :
          IF p.denied[k].kind = "shell" THEN call.command # None /\ p.denied[k].pattern \in call.command.runs
                                        ELSE allows(p.denied[k], call)
    BY Zenon DEF Forbidden
  <1>2. PICK k \in DOMAIN p.denied :
          IF p.denied[k].kind = "shell" THEN call.command # None /\ p.denied[k].pattern \in call.command.runs
                                        ELSE allows(p.denied[k], call)
    BY <1>1
  <1>3. p \in Policy
    BY <1>1 DEF RuleSet
  <1>4. ~denies(p.denied[k], call)
    <2>1. SUFFICES ASSUME denies(p.denied[k], call) PROVE FALSE
      OBVIOUS
    <2>2. \A base \in BOOLEAN : decide(p, call, m, base) = "deny"
      BY <2>1, DeniedIsDenied
    <2>3. CASE p = rules.base
      BY <2>2, <2>3, EitherRefuses
    <2>4. CASE p = rules.overlay /\ rules.overlay # None
      <3>1. RulesDecide(rules, call, m) = Stricter(decide(rules.base, call, m, TRUE), "deny")
        BY <2>2, <2>4 DEF RulesDecide
      <3>2. decide(rules.base, call, m, TRUE) \in Decision /\ "deny" \in Decision
        BY DecideIsADecision DEF Decision
      <3> QED
        BY <3>1, <3>2, StricterIsStricter
    <2> QED
      BY <1>1, <2>3, <2>4
  <1>5. p.denied[k].kind = "shell"
    BY <1>2, <1>4 DEF denies
  <1>6. p.denied[k] \in Rule
    BY <1>2, <1>3 DEF Policy
  <1>7. p.denied[k].tool = "run_shell"
    BY <1>5, <1>6 DEF Rule
  <1>8. call.command # None /\ p.denied[k].pattern \in call.command.runs
    BY <1>2, <1>5
  <1>9. call.tool = "run_shell" /\ call.command \in Command
    BY <1>8 DEF SoundFacts, Facts
  <1>10. call.command.checked => p.denied[k].pattern \in call.command.parts
    BY <1>8, <1>9 DEF Command
  <1> QED
    BY <1>4, <1>5, <1>7, <1>8, <1>9, <1>10 DEF denies

-----------------------------------------------------------------------------
(* Recursion up to a number.                                               *)

\* What holds of 0 and is carried from each number to the next holds up to n.
LEMMA UpTo ==
  ASSUME NEW n \in Nat, NEW P, 0 \in P,
         \A k \in 1..n : k - 1 \in P => k \in P
  PROVE  0..n \subseteq P
<1>1. SUFFICES ASSUME (0..n) \ P # {} PROVE FALSE
  OBVIOUS
<1>2. (0..n) \ P \subseteq Nat
  OBVIOUS
<1>3. PICK k \in (0..n) \ P : \A j \in (0..n) \ P : k <= j
  BY <1>1, <1>2, LeastNat
<1>4. k # 0 /\ k \in 1..n
  BY <1>3
<1>5. k - 1 \in P
  BY <1>3, <1>4
<1> QED
  BY <1>3, <1>4, <1>5

\* f is a at 0, and at each number g says what follows from its value at the one before.
Unfolds(f, n, a, g) == f = [k \in 0..n |-> IF k = 0 THEN a ELSE g[<<k, f[k - 1]>>]]

\* There is such a function.
LEMMA UnfoldingExists ==
  ASSUME NEW n \in Nat, NEW S, NEW a \in S, NEW g \in [(1..n) \X S -> S]
  PROVE  \E f \in [0..n -> S] : Unfolds(f, n, a, g)
<1> DEFINE Upto(m, f) == \A k \in 0..m : f[k] = IF k = 0 THEN a ELSE g[<<k, f[k - 1]>>]
           P == {m \in 0..n : \E f \in [0..n -> S] : Upto(m, f)}
<1>1. 0 \in P
  <2> DEFINE f == [k \in 0..n |-> a]
  <2>1. f \in [0..n -> S]
    OBVIOUS
  <2>2. Upto(0, f)
    OBVIOUS
  <2>3. 0 \in 0..n
    OBVIOUS
  <2>4. \E e \in [0..n -> S] : Upto(0, e)
    <3> HIDE DEF f, Upto
    <3> QED
      BY <2>1, <2>2
  <2> QED
    BY <2>3, <2>4
<1>2. ASSUME NEW m \in 1..n, m - 1 \in P
      PROVE  m \in P
  <2>1. PICK f \in [0..n -> S] : Upto(m - 1, f)
    BY <1>2
  <2> DEFINE h == [f EXCEPT ![m] = g[<<m, f[m - 1]>>]]
  <2>2. m \in 0..n /\ m - 1 \in 0..n /\ f[m - 1] \in S
    OBVIOUS
  <2>3. <<m, f[m - 1]>> \in (1..n) \X S
    BY <2>2
  <2>4. g[<<m, f[m - 1]>>] \in S
    BY <2>3
  <2>5. h \in [0..n -> S]
    BY <2>4
  <2>6. ASSUME NEW k \in 0..m
        PROVE  h[k] = IF k = 0 THEN a ELSE g[<<k, h[k - 1]>>]
    <3>1. CASE k = m
      <4>1. h[m] = g[<<m, f[m - 1]>>] /\ h[m - 1] = f[m - 1]
        BY <2>2
      <4> QED
        BY <3>1, <4>1
    <3>2. CASE k # m
      <4>1. k \in 0..(m - 1) /\ k \in 0..n
        BY <3>2
      <4>2. h[k] = f[k] /\ f[k] = IF k = 0 THEN a ELSE g[<<k, f[k - 1]>>]
        BY <2>1, <4>1, <3>2
      <4>3. k # 0 => k - 1 \in 0..n /\ k - 1 # m
        BY <4>1
      <4>4. k # 0 => h[k - 1] = f[k - 1]
        BY <4>3
      <4> QED
        BY <4>2, <4>4
    <3> QED
      BY <3>1, <3>2
  <2>7. Upto(m, h)
    BY <2>6
  <2> QED
    BY <2>2, <2>5, <2>7
<1>3. 0..n \subseteq P
  <2> HIDE DEF P
  <2> QED
    BY <1>1, <1>2, UpTo
<1>4. PICK f \in [0..n -> S] : Upto(n, f)
  BY <1>3
<1>5. f = [k \in 0..n |-> IF k = 0 THEN a ELSE g[<<k, f[k - 1]>>]]
  BY <1>4
<1> QED
  BY <1>5 DEF Unfolds

\* Where a function follows from its value at 0, step by step within a set, so
\* does each of its values.
LEMMA UnfoldsWithin ==
  ASSUME NEW n \in Nat, NEW S, NEW f, f[0] \in S,
         \A k \in 1..n : f[k - 1] \in S => f[k] \in S
  PROVE  \A k \in 0..n : f[k] \in S
<1> DEFINE P == {k \in 0..n : f[k] \in S}
<1>1. 0 \in P /\ \A k \in 1..n : k - 1 \in P => k \in P
  OBVIOUS
<1>2. 0..n \subseteq P
  <2> HIDE DEF P
  <2> QED
    BY <1>1, UpTo
<1> QED
  BY <1>2

-----------------------------------------------------------------------------
(* Histories.                                                              *)

\* history_bytes is a number.
LEMMA BytesAreANumber ==
  ASSUME NEW h \in Hist
  PROVE  history_bytes(h) \in Nat
<1> DEFINE n == Len(h)
           g == [x \in (1..n) \X Nat |-> x[2] + h[x[1]].size + h[x[1]].reasoning]
           Sums(f) == f = [k \in 0..n |-> IF k = 0 THEN 0 ELSE f[k - 1] + h[k].size + h[k].reasoning]
<1>1. n \in Nat /\ \A k \in 1..n : h[k].size \in Nat /\ h[k].reasoning \in Nat
  <2>1. n \in Nat /\ \A k \in 1..n : h[k] \in Msg
    BY DEF Hist
  <2> QED
    BY <2>1 DEF Msg
<1>2. g \in [(1..n) \X Nat -> Nat]
  <2> HIDE DEF n
  <2> QED
    BY <1>1
<1>3. PICK f \in [0..n -> Nat] : Unfolds(f, n, 0, g)
  <2> HIDE DEF n, g
  <2>1. n \in Nat /\ 0 \in Nat
    BY <1>1
  <2> QED
    BY <1>2, <2>1, UnfoldingExists
<1>4. \A k \in 1..n : g[<<k, f[k - 1]>>] = f[k - 1] + h[k].size + h[k].reasoning
  <2> HIDE DEF n
  <2>1. \A k \in 1..n : <<k, f[k - 1]>> \in (1..n) \X Nat
    BY <1>1
  <2> QED
    BY <2>1
<1>5. Sums(f)
  <2> HIDE DEF n, g
  <2> QED
    BY <1>3, <1>4 DEF Unfolds
<1>6. \E e : Sums(e)
  <2> HIDE DEF Sums
  <2> QED
    BY <1>5
<1>7. PICK e : Sums(e) /\ history_bytes(h) = e[n]
  BY <1>6, Zenon DEF history_bytes
<1>8. e[0] \in Nat /\ \A k \in 1..n : e[k - 1] \in Nat => e[k] \in Nat
  <2> HIDE DEF n
  <2>1. \A k \in 0..n : e[k] = IF k = 0 THEN 0 ELSE e[k - 1] + h[k].size + h[k].reasoning
    BY <1>7, Zenon
  <2> HIDE DEF Sums
  <2>2. 0 \in 0..n /\ \A k \in 1..n : k \in 0..n /\ k # 0
    BY <1>1
  <2>3. e[0] = 0 /\ \A k \in 1..n : e[k] = e[k - 1] + h[k].size + h[k].reasoning
    BY <2>1, <2>2
  <2>4. ASSUME NEW k \in 1..n, e[k - 1] \in Nat
        PROVE  e[k] \in Nat
    <3>1. e[k] = e[k - 1] + h[k].size + h[k].reasoning /\ h[k].size \in Nat /\ h[k].reasoning \in Nat
      BY <1>1, <2>3
    <3> QED
      BY <2>4, <3>1
  <2> QED
    BY <2>3, <2>4
<1>9. \A k \in 0..n : e[k] \in Nat
  <2> HIDE DEF n, Sums
  <2> QED
    BY <1>1, <1>8, UnfoldsWithin
<1> QED
  BY <1>1, <1>7, <1>9

\* A message of each kind is a message.
LEMMA MessagesAreTyped ==
  ASSUME NEW asked \in Seq(Nat), NEW of \in Nat, NEW size \in Nat, NEW t \in Nat
  PROVE  /\ SystemMessage(size, t) \in Msg /\ UserMessage(t) \in Msg /\ Nudge(t) \in Msg
         /\ AssistantMessage(asked, of, t) \in Msg /\ ToolMessage(of, size, t) \in Msg
<1>1. <<>> \in Seq(Nat) /\ 0 \in Nat /\ 1 \in Nat
  OBVIOUS
<1>2. {"system", "user", "assistant", "tool"} \subseteq Role
  BY DEF Role
<1>3. \A r \in Role, c \in Seq(Nat), o, z, g \in Nat : Message(r, c, o, z, g, t) \in Msg
  BY DEF Message, Msg
<1> QED
  BY <1>1, <1>2, <1>3 DEF SystemMessage, UserMessage, Nudge, AssistantMessage, ToolMessage

\* A non-empty set of positions has a least and a greatest one.
LEMMA Extremes ==
  ASSUME NEW n \in Nat, NEW S \in SUBSET (1..n), S # {}
  PROVE  Least(S) \in S /\ Greatest(S) \in S
<1>1. \E k \in S : \A j \in S : k <= j
  <2>1. S \subseteq Nat
    OBVIOUS
  <2> QED
    BY <2>1, LeastNat
<1>2. \E k \in S : \A j \in S : j <= k
  <2> DEFINE T == {m \in 0..n : \E k \in S : m = n - k}
  <2>1. PICK k \in S : TRUE
    OBVIOUS
  <2>2. n - k \in T
    BY <2>1
  <2>3. T \subseteq Nat /\ T # {}
    <3>1. T \subseteq 0..n
      OBVIOUS
    <3> HIDE DEF T
    <3> QED
      BY <2>2, <3>1
  <2>4. PICK m \in T : \A i \in T : m <= i
    BY <2>3, LeastNat
  <2>5. PICK l \in S : m = n - l
    BY <2>4
  <2>6. \A j \in S : n - j \in T
    OBVIOUS
  <2>7. \A j \in S : j <= l
    BY <2>4, <2>5, <2>6
  <2> QED
    BY <2>7
<1>3. Least(S) \in S
  BY <1>1 DEF Least
<1>4. Greatest(S) \in S
  BY <1>2 DEF Greatest
<1> QED
  BY <1>3, <1>4

\* A part of a history is a history.
LEMMA PartsAreHistories ==
  ASSUME NEW h \in Hist, NEW i \in 1..(Len(h) + 1), NEW j \in 0..Len(h)
  PROVE  SubSeq(h, i, j) \in Hist
BY DEF Hist

\* What eviction leaves is a history.
LEMMA EvictedIsAHistory ==
  ASSUME NEW h \in Hist, NEW max \in Nat
  PROVE  Evicted(h, max) \in Hist
<1> DEFINE starts == Starts(h)
           prefix == SubSeq(h, 1, Least(starts) - 1)
           fits   == {k \in starts : history_bytes(prefix) + history_bytes(SubSeq(h, k, Len(h))) <= max}
           keep   == IF fits = {} THEN Greatest(starts) ELSE Least(fits)
<1>1. Evicted(h, max) = IF starts = {} THEN h ELSE prefix \o SubSeq(h, keep, Len(h))
  BY Zenon DEF Evicted
<1>2. Len(h) \in Nat /\ starts \subseteq 1..Len(h) /\ fits \subseteq starts
  <2>1. Len(h) \in Nat /\ DOMAIN h = 1..Len(h)
    BY DEF Hist
  <2> QED
    BY <2>1 DEF Starts
<1> HIDE DEF fits, starts
<1>3. CASE starts = {}
  BY <1>1, <1>3
<1>4. CASE starts # {}
  <2>1. Least(starts) \in starts /\ Greatest(starts) \in starts
    BY <1>2, <1>4, Extremes
  <2>2. fits # {} => Least(fits) \in fits
    BY <1>2, Extremes
  <2>3. keep \in 1..Len(h) /\ Least(starts) - 1 \in 0..Len(h)
    <3>1. keep \in starts
      BY <1>2, <2>1, <2>2
    <3>2. \A k \in starts : k \in 1..Len(h) /\ k - 1 \in 0..Len(h)
      BY <1>2
    <3> HIDE DEF keep
    <3> QED
      BY <2>1, <3>1, <3>2
  <2>4. prefix \in Hist /\ SubSeq(h, keep, Len(h)) \in Hist
    <3> HIDE DEF keep
    <3>1. 1 \in 1..(Len(h) + 1) /\ keep \in 1..(Len(h) + 1) /\ Len(h) \in 0..Len(h)
      BY <1>2, <2>3
    <3> QED
      BY <2>3, <3>1, PartsAreHistories
  <2>5. prefix \o SubSeq(h, keep, Len(h)) \in Hist
    <3> HIDE DEF keep, prefix
    <3> QED
      BY <2>4 DEF Hist
  <2> QED
    BY <1>1, <1>4, <2>5
<1> QED
  BY <1>3, <1>4

\* Messages that differ in size only.
Same(m, o) == m.role = o.role /\ m.calls = o.calls /\ m.of = o.of /\ m.turn = o.turn

\* The histories that differ from h in the sizes of messages only.
Alike(h) == {s \in Hist : Len(s) = Len(h) /\ \A k \in 1..Len(h) : Same(s[k], h[k])}

\* A message whose size or reasoning is cut is a message of the history.
LEMMA CutIsAHistory ==
  ASSUME NEW h \in Hist, NEW s \in Alike(h), NEW k \in 1..Len(h), NEW v \in Nat
  PROVE  /\ [s EXCEPT ![k].size = v] \in Alike(h)
         /\ [s EXCEPT ![k].reasoning = v] \in Alike(h)
<1>1. Len(h) \in Nat /\ s \in [1..Len(h) -> Msg] /\ s[k] \in Msg /\ \A j \in 1..Len(h) : Same(s[j], h[j])
  BY DEF Alike, Hist
<1>2. /\ [s[k] EXCEPT !.size = v] \in Msg /\ [s[k] EXCEPT !.reasoning = v] \in Msg
      /\ Same([s[k] EXCEPT !.size = v], s[k]) /\ Same([s[k] EXCEPT !.reasoning = v], s[k])
  BY <1>1 DEF Msg, Same
<1>3. ASSUME NEW m \in Msg, Same(m, s[k])
      PROVE  [s EXCEPT ![k] = m] \in Alike(h)
  <2> DEFINE t == [s EXCEPT ![k] = m]
  <2>1. t \in [1..Len(h) -> Msg] /\ t[k] = m /\ \A j \in 1..Len(h) : j # k => t[j] = s[j]
    BY <1>1
  <2>2. Same(m, h[k])
    BY <1>1, <1>3 DEF Same
  <2> HIDE DEF t
  <2>3. \A j \in 1..Len(h) : Same(t[j], h[j])
    BY <1>1, <2>1, <2>2
  <2>4. t \in Seq(Msg) /\ Len(t) = Len(h)
    BY <1>1, <2>1
  <2>5. t \in Alike(h)
    BY <2>3, <2>4 DEF Alike, Hist
  <2> QED
    BY <2>5 DEF t
<1> QED
  BY <1>1, <1>2, <1>3

\* Elision changes sizes only.
LEMMA ElidedIsAlike ==
  ASSUME NEW h \in Hist, NEW max \in Nat, Marker \in Nat
  PROVE  Elided(h, max) \in Alike(h)
<1> DEFINE n == Len(h)
           newest == IF Tools(h) = {} THEN 0 ELSE Greatest(Tools(h))
           Smaller(k, s) ==
             IF history_bytes(s) > max /\ k \in Tools(h) \ {newest} /\ h[k].size > Marker
               THEN [s EXCEPT ![k].size = Marker] ELSE s
           Bodies(f) == f = [k \in 0..n |-> IF k = 0 THEN h ELSE Smaller(k, f[k - 1])]
           first  == (CHOOSE f : Bodies(f))[n]
           others == history_bytes(first) - (IF newest = 0 THEN 0 ELSE first[newest].size)
           budg   == IF max > others THEN max - others ELSE 0
           second == IF history_bytes(first) > max /\ newest # 0 /\ first[newest].size > budg /\ budg > Marker
                       THEN [first EXCEPT ![newest].size = budg] ELSE first
           Silent(k, s) == IF history_bytes(s) > max THEN [s EXCEPT ![k].reasoning = 0] ELSE s
           Thoughts(f) == f = [k \in 0..n |-> IF k = 0 THEN second ELSE Silent(k, f[k - 1])]
<1>1. Elided(h, max) = (CHOOSE f : Thoughts(f))[n]
  BY Zenon DEF Elided
<1>2. n \in Nat /\ DOMAIN h = 1..n /\ h \in Alike(h)
  BY DEF Hist, Alike, Same
<1>3. first \in Alike(h)
  <2> DEFINE b == [x \in (1..n) \X Alike(h) |-> Smaller(x[1], x[2])]
  <2> HIDE DEF newest
  <2>0. ASSUME NEW k \in 1..n, NEW s \in Alike(h)
        PROVE  Smaller(k, s) \in Alike(h)
    <3>1. [s EXCEPT ![k].size = Marker] \in Alike(h)
      BY CutIsAHistory
    <3> QED
      BY <3>1
  <2> HIDE DEF Smaller
  <2>1. b \in [(1..n) \X Alike(h) -> Alike(h)]
    <3> HIDE DEF n
    <3> QED
      BY <2>0
  <2>2. PICK f \in [0..n -> Alike(h)] : Unfolds(f, n, h, b)
    <3> HIDE DEF n, b
    <3> QED
      BY <1>2, <2>1, UnfoldingExists
  <2>3. Bodies(f)
    <3> HIDE DEF n
    <3>1. \A k \in 1..n : <<k, f[k - 1]>> \in (1..n) \X Alike(h)
      BY <1>2
    <3>2. \A k \in 1..n : b[<<k, f[k - 1]>>] = Smaller(k, f[k - 1])
      BY <3>1
    <3> HIDE DEF b
    <3>3. \A k \in 0..n : f[k] = IF k = 0 THEN h ELSE b[<<k, f[k - 1]>>]
      BY <2>2 DEF Unfolds
    <3>4. \A k \in 0..n : k # 0 => k \in 1..n
      BY <1>2
    <3>5. \A k \in 0..n : f[k] = IF k = 0 THEN h ELSE Smaller(k, f[k - 1])
      BY <3>2, <3>3, <3>4, Zenon
    <3> QED
      BY <3>5
  <2>4. \E e : Bodies(e)
    <3> HIDE DEF Bodies
    <3> QED
      BY <2>3
  <2>5. PICK e : Bodies(e) /\ first = e[n]
    <3> HIDE DEF Bodies
    <3> QED
      BY <2>4
  <2>6. ASSUME NEW k \in 1..n, e[k - 1] \in Alike(h)
        PROVE  e[k] \in Alike(h)
    <3>1. k \in 0..n /\ k # 0
      BY <1>2
    <3>2. e[k] = Smaller(k, e[k - 1])
      <4> HIDE DEF n
      <4> QED
        BY <2>5, <3>1
    <3> QED
      BY <2>0, <2>6, <3>2
  <2>7. e[0] \in Alike(h)
    <3> HIDE DEF n
    <3> QED
      BY <1>2, <2>5
  <2>8. \A k \in 0..n : e[k] \in Alike(h)
    <3> HIDE DEF n, Bodies
    <3> QED
      BY <1>2, <2>6, <2>7, UnfoldsWithin
  <2>9. first = e[n] /\ n \in 0..n
    BY <1>2, <2>5
  <2> HIDE DEF first, n
  <2> QED
    BY <2>8, <2>9
<1>4. second \in Alike(h)
  <2> HIDE DEF first
  <2>1. history_bytes(first) \in Nat
    BY <1>3, BytesAreANumber DEF Alike
  <2>2. newest # 0 => newest \in 1..n
    <3>1. Tools(h) \in SUBSET (1..n)
      BY <1>2 DEF Tools
    <3> HIDE DEF n
    <3> QED
      BY <1>2, <3>1, Extremes
  <2>3. newest # 0 => first[newest].size \in Nat
    <3> HIDE DEF newest
    <3>1. newest # 0 => first[newest] \in Msg
      BY <1>2, <1>3, <2>2 DEF Alike, Hist
    <3> QED
      BY <3>1 DEF Msg
  <2>4. budg \in Nat
    <3> HIDE DEF newest
    <3> QED
      BY <2>1, <2>3
  <2>5. newest # 0 => [first EXCEPT ![newest].size = budg] \in Alike(h)
    <3> HIDE DEF newest, budg
    <3> QED
      BY <1>3, <2>2, <2>4, CutIsAHistory
  <2> HIDE DEF newest, budg
  <2> QED
    BY <1>3, <2>5
<1>5. (CHOOSE f : Thoughts(f))[n] \in Alike(h)
  <2> HIDE DEF second
  <2> DEFINE b == [x \in (1..n) \X Alike(h) |-> Silent(x[1], x[2])]
  <2>0. ASSUME NEW k \in 1..n, NEW s \in Alike(h)
        PROVE  Silent(k, s) \in Alike(h)
    <3>1. [s EXCEPT ![k].reasoning = 0] \in Alike(h)
      BY CutIsAHistory
    <3> QED
      BY <3>1
  <2> HIDE DEF Silent
  <2>1. b \in [(1..n) \X Alike(h) -> Alike(h)]
    <3> HIDE DEF n
    <3> QED
      BY <2>0
  <2>2. PICK f \in [0..n -> Alike(h)] : Unfolds(f, n, second, b)
    <3> HIDE DEF n, b
    <3> QED
      BY <1>2, <1>4, <2>1, UnfoldingExists
  <2>3. Thoughts(f)
    <3> HIDE DEF n
    <3>1. \A k \in 1..n : <<k, f[k - 1]>> \in (1..n) \X Alike(h)
      BY <1>2
    <3>2. \A k \in 1..n : b[<<k, f[k - 1]>>] = Silent(k, f[k - 1])
      BY <3>1
    <3> HIDE DEF b
    <3>3. \A k \in 0..n : f[k] = IF k = 0 THEN second ELSE b[<<k, f[k - 1]>>]
      BY <2>2 DEF Unfolds
    <3>4. \A k \in 0..n : k # 0 => k \in 1..n
      BY <1>2
    <3>5. \A k \in 0..n : f[k] = IF k = 0 THEN second ELSE Silent(k, f[k - 1])
      BY <3>2, <3>3, <3>4, Zenon
    <3> QED
      BY <3>5
  <2>4. PICK e : Thoughts(e) /\ (CHOOSE g : Thoughts(g))[n] = e[n]
    <3>1. \E e : Thoughts(e)
      <4> HIDE DEF Thoughts
      <4> QED
        BY <2>3
    <3> HIDE DEF Thoughts
    <3> QED
      BY <3>1
  <2>5. ASSUME NEW k \in 1..n, e[k - 1] \in Alike(h)
        PROVE  e[k] \in Alike(h)
    <3>1. k \in 0..n /\ k # 0
      BY <1>2
    <3>2. e[k] = Silent(k, e[k - 1])
      <4> HIDE DEF n
      <4> QED
        BY <2>4, <3>1
    <3> QED
      BY <2>0, <2>5, <3>2
  <2>6. e[0] \in Alike(h)
    <3> HIDE DEF n
    <3> QED
      BY <1>2, <1>4, <2>4
  <2>7. \A k \in 0..n : e[k] \in Alike(h)
    <3> HIDE DEF n, Thoughts
    <3> QED
      BY <1>2, <2>5, <2>6, UnfoldsWithin
  <2> QED
    BY <1>2, <2>4, <2>7
<1> QED
  BY <1>1, <1>5

\* What compaction leaves is a history.
LEMMA CompactedIsAHistory ==
  ASSUME NEW h \in Hist
  PROVE  compact(h) \in Hist /\ compact_overflow(h) \in Hist
<1>1. MaxBytes \in Nat /\ MinimumBytes \in Nat /\ Marker \in Nat
  BY EngineAssumption
<1>2. ASSUME NEW max \in Nat
      PROVE  compact_to(h, max) \in Hist
  <2>1. Evicted(h, max) \in Hist
    BY EvictedIsAHistory
  <2>2. Elided(Evicted(h, max), max) \in Hist
    BY <1>1, <2>1, ElidedIsAlike DEF Alike
  <2> QED
    BY <2>2 DEF compact_to
<1>3. Halved \in Nat
  BY <1>1 DEF Halved
<1> QED
  BY <1>1, <1>2, <1>3 DEF compact, compact_overflow

\* What is left of a history after its payloads are dropped, or after a turn
\* that failed, is a history.
LEMMA RecordIsAHistory ==
  ASSUME NEW h \in Hist, NEW r \in Hist, NEW b, NEW t \in Nat
  PROVE  drop_tool_payloads(h) \in Hist /\ preserve_or_rollback(h, r, b, t) \in Hist
<1>1. Marker \in Nat
  BY EngineAssumption
<1>2. drop_tool_payloads(h) \in Hist
  <2> DEFINE from == IF Starts(h) = {} THEN 1 ELSE Greatest(Starts(h))
             Cut(m) == [m EXCEPT !.size = IF m.role = "tool" THEN Marker ELSE @, !.reasoning = 0]
             s == [k \in DOMAIN h |-> IF k < from THEN h[k] ELSE Cut(h[k])]
  <2>1. drop_tool_payloads(h) = s
    BY Zenon DEF drop_tool_payloads
  <2>2. ASSUME NEW m \in Msg
        PROVE  Cut(m) \in Msg
    BY <1>1 DEF Msg
  <2>3. DOMAIN h = 1..Len(h) /\ Len(h) \in Nat /\ \A k \in DOMAIN h : h[k] \in Msg
    BY DEF Hist
  <2>4. s \in [1..Len(h) -> Msg]
    <3> HIDE DEF Cut, from
    <3> QED
      BY <2>2, <2>3
  <2>5. s \in Hist
    <3> HIDE DEF s
    <3> QED
      BY <2>3, <2>4 DEF Hist
  <2> QED
    BY <2>1, <2>5
<1>3. preserve_or_rollback(h, r, b, t) \in Hist
  <2>1. SystemMessage(1, t) \in Msg
    <3>1. <<>> \in Seq(Nat) /\ 1 \in Nat /\ 0 \in Nat
      OBVIOUS
    <3> QED
      BY <3>1, MessagesAreTyped
  <2>2. Append(h, SystemMessage(1, t)) \in Hist
    BY <2>1 DEF Hist
  <2> QED
    BY <2>2 DEF preserve_or_rollback
<1> QED
  BY <1>2, <1>3

\* The results for a sequence of calls make up a history.
LEMMA AnswersAreAHistory ==
  ASSUME NEW asked \in Seq(Nat), NEW size \in Nat, NEW t \in Nat
  PROVE  Answers(asked, size, t) \in Hist
<1>1. Len(asked) \in Nat /\ DOMAIN asked = 1..Len(asked) /\ \A k \in DOMAIN asked : asked[k] \in Nat
  OBVIOUS
<1>2. \A k \in DOMAIN asked : ToolMessage(asked[k], size, t) \in Msg
  <2>1. <<>> \in Seq(Nat)
    OBVIOUS
  <2> QED
    BY <1>1, <2>1, MessagesAreTyped
<1>3. Answers(asked, size, t) \in [1..Len(asked) -> Msg]
  BY <1>1, <1>2 DEF Answers
<1> QED
  BY <1>1, <1>3 DEF Hist

-----------------------------------------------------------------------------
(* The ids of calls.                                                       *)

\* Among more numbers than a set has elements there is one that is not used.
LEMMA SomeNumberIsFree ==
  ASSUME NEW id, NEW seen, IsFiniteSet(seen)
  PROVE  /\ Cardinality(seen) \in Nat
         /\ \E n \in 2..(Cardinality(seen) + 2) : <<id, n>> \notin seen
<1> DEFINE c == Cardinality(seen)
           T == 2..(c + 2)
           f == [n \in T |-> <<id, n>>]
<1>1. c \in Nat
  BY FS_CardinalityType
<1>2. SUFFICES ASSUME \A n \in T : <<id, n>> \in seen
               PROVE  FALSE
  BY <1>1
<1>3. f \in Injection(T, seen)
  <2>1. f \in [T -> seen]
    BY <1>2
  <2>2. \A a, b \in T : f[a] = f[b] => a = b
    OBVIOUS
  <2> HIDE DEF f, T
  <2> QED
    BY <2>1, <2>2 DEF Injection, IsInjective
<1>4. Cardinality(T) <= c
  <2> HIDE DEF f, T
  <2> QED
    BY <1>3, FS_Injection
<1>5. Cardinality(T) = c + 1
  <2>1. 2 \in Int /\ c + 2 \in Int /\ ~(2 > c + 2) /\ (c + 2) - 2 + 1 = c + 1
    BY <1>1
  <2> HIDE DEF c
  <2> QED
    BY <2>1, FS_Interval
<1> QED
  BY <1>1, <1>4, <1>5

\* A scoped id is one that was not seen before (CallIds::scoped).
LEMMA FreshIsFresh ==
  ASSUME NEW id \in Nat, NEW seen, IsFiniteSet(seen)
  PROVE  Fresh(id, seen) \in ScopedId /\ Fresh(id, seen) \notin seen
<1> DEFINE c == Cardinality(seen)
           Free(n) == /\ <<id, n>> \notin seen
                      /\ id # 0 => n > 1
                      /\ \A m \in 1..(n - 1) : <<id, m>> \in seen \/ (id # 0 /\ m = 1)
<1>1. CASE id # 0 /\ <<id, 1>> \notin seen
  BY <1>1 DEF Fresh, ScopedId
<1>2. CASE ~(id # 0 /\ <<id, 1>> \notin seen)
  <2> DEFINE S == {n \in 1..(c + 2) : <<id, n>> \notin seen /\ (id # 0 => n > 1)}
  <2>1. c \in Nat /\ \E n \in 2..(c + 2) : <<id, n>> \notin seen
    BY SomeNumberIsFree
  <2>2. S # {} /\ S \subseteq Nat
    <3>1. PICK n \in 2..(c + 2) : <<id, n>> \notin seen
      BY <2>1
    <3>2. n \in 1..(c + 2) /\ n > 1
      BY <2>1
    <3>3. n \in S
      BY <3>1, <3>2
    <3>4. S \subseteq 1..(c + 2)
      OBVIOUS
    <3> HIDE DEF S
    <3> QED
      BY <2>1, <3>3, <3>4
  <2>3. PICK n \in S : \A m \in S : n <= m
    <3> HIDE DEF S
    <3> QED
      BY <2>2, LeastNat
  <2>4. n \in 1..(c + 2) /\ n \in Nat
    BY <2>1, <2>3
  <2>5. ASSUME NEW m \in 1..(n - 1)
        PROVE  <<id, m>> \in seen \/ (id # 0 /\ m = 1)
    <3>1. m \in 1..(c + 2) /\ ~(n <= m)
      BY <2>1, <2>4
    <3>2. m \notin S
      <4> HIDE DEF S
      <4> QED
        BY <2>3, <3>1
    <3>3. m > 1 \/ m = 1
      BY <3>1
    <3> QED
      BY <3>1, <3>2, <3>3
  <2>6. Free(n)
    BY <2>3, <2>5
  <2>7. PICK i \in 1..(c + 2) : Free(i) /\ Fresh(id, seen) = <<id, i>>
    <3>1. Fresh(id, seen) = <<id, CHOOSE i \in 1..(c + 2) : Free(i)>>
      BY <1>2, Zenon DEF Fresh
    <3> HIDE DEF Free, c
    <3> QED
      BY <2>4, <2>6, <3>1
  <2> QED
    BY <2>1, <2>7 DEF ScopedId
<1> QED
  BY <1>1, <1>2

\* A scoped id keeps the provider's.
LEMMA FreshKeepsTheId ==
  ASSUME NEW id, NEW seen
  PROVE  Fresh(id, seen)[1] = id
  BY DEF Fresh

\* A sequence names finitely many things.
LEMMA NamedAreFinite ==
  ASSUME NEW s, NEW n \in Nat
  PROVE  IsFiniteSet({s[j] : j \in 1..n})
<1> DEFINE f == [j \in 1..n |-> s[j]]
           T == {s[j] : j \in 1..n}
<1>1. f \in Surjection(1..n, T)
  BY DEF Surjection
<1>2. IsFiniteSet(1..n)
  BY FS_Interval
<1> HIDE DEF f, T
<1>3. IsFiniteSet(T)
  BY <1>1, <1>2, FS_Surjection
<1> QED
  BY <1>3 DEF T

\* What a response's calls are called: nothing that was seen before, and no two
\* calls the same.
NewIds(ids, n, seen) ==
  /\ ids \in Seq(ScopedId) /\ Len(ids) = n
  /\ \A j \in DOMAIN ids : ids[j] \notin seen
  /\ \A j, k \in DOMAIN ids : ids[j] = ids[k] => j = k

\* The first n ids are made of the first n calls' ids.
NameCalls(ids, response, n) == \A j \in 1..n : ids[j][1] = response[j].id

\* One more call gets a new id.
LEMMA OneMoreId ==
  ASSUME NEW seen, IsFiniteSet(seen), NEW n \in Nat, NEW ids, NewIds(ids, n, seen), NEW id \in Nat
  PROVE  NewIds(Append(ids, Fresh(id, seen \cup {ids[j] : j \in 1..n})), n + 1, seen)
<1> DEFINE e == Fresh(id, seen \cup {ids[j] : j \in 1..n})
           t == Append(ids, e)
<1>1. IsFiniteSet({ids[j] : j \in 1..n})
  BY NamedAreFinite
<1>2. IsFiniteSet(seen \cup {ids[j] : j \in 1..n})
  BY <1>1, FS_Union
<1>3. e \in ScopedId /\ e \notin seen \cup {ids[j] : j \in 1..n}
  BY <1>2, FreshIsFresh
<1>4. ids \in Seq(ScopedId) /\ Len(ids) = n /\ DOMAIN ids = 1..n
  BY DEF NewIds
<1> HIDE DEF e
<1>5. t \in Seq(ScopedId) /\ Len(t) = n + 1 /\ DOMAIN t = 1..(n + 1)
  BY <1>3, <1>4
<1>6. t[n + 1] = e /\ \A j \in 1..n : t[j] = ids[j]
  BY <1>3, <1>4
<1>7. \A j \in DOMAIN t : j = n + 1 \/ j \in 1..n
  BY <1>5
<1>8. \A j \in 1..n : t[j] # e /\ t[j] \notin seen
  <2>1. \A j \in 1..n : ids[j] # e /\ ids[j] \notin seen
    BY <1>3, <1>4 DEF NewIds
  <2> QED
    BY <1>6, <2>1
<1>9. \A j, k \in 1..n : t[j] = t[k] => j = k
  BY <1>4, <1>6 DEF NewIds
<1>10. \A j \in DOMAIN t : t[j] \notin seen
  <2> HIDE DEF t
  <2> QED
    BY <1>3, <1>6, <1>7, <1>8
<1>11. \A j, k \in DOMAIN t : t[j] = t[k] => j = k
  <2> HIDE DEF t
  <2> QED
    BY <1>6, <1>7, <1>8, <1>9
<1> HIDE DEF t
<1>12. NewIds(t, n + 1, seen)
  BY <1>5, <1>10, <1>11 DEF NewIds
<1> QED
  BY <1>12 DEF t, e

\* The ids of a response are new (CallIds::scoped for each of its calls).
LEMMA ScopedAreNew ==
  ASSUME NEW response \in Seq(ToolCall), NEW seen, IsFiniteSet(seen)
  PROVE  NewIds(Scoped(response, seen), Len(response), seen) /\ NameCalls(Scoped(response, seen), response, Len(response))
<1> DEFINE n == Len(response)
           Next1(k, s) == Append(s, Fresh(response[k].id, seen \cup {s[j] : j \in 1..(k - 1)}))
           Names(f) == f = [k \in 0..n |-> IF k = 0 THEN <<>> ELSE Next1(k, f[k - 1])]
           g == [x \in (1..n) \X Seq(ScopedId) |-> Next1(x[1], x[2])]
<1>1. n \in Nat /\ \A k \in 1..n : response[k].id \in Nat
  <2>1. n \in Nat /\ \A k \in 1..n : response[k] \in ToolCall
    OBVIOUS
  <2> QED
    BY <2>1 DEF ToolCall
<1>2. ASSUME NEW k \in 1..n, NEW s \in Seq(ScopedId)
      PROVE  Next1(k, s) \in Seq(ScopedId)
  <2>1. k - 1 \in Nat
    BY <1>1
  <2>2. IsFiniteSet({s[j] : j \in 1..(k - 1)})
    BY <2>1, NamedAreFinite
  <2>3. IsFiniteSet(seen \cup {s[j] : j \in 1..(k - 1)})
    BY <2>2, FS_Union
  <2>4. Fresh(response[k].id, seen \cup {s[j] : j \in 1..(k - 1)}) \in ScopedId
    BY <1>1, <2>3, FreshIsFresh
  <2> QED
    BY <2>4
<1>3. Scoped(response, seen) = (CHOOSE f : Names(f))[n]
  BY Zenon DEF Scoped
<1> HIDE DEF n, Next1
<1>4. g \in [(1..n) \X Seq(ScopedId) -> Seq(ScopedId)]
  BY <1>2
<1>5. PICK f \in [0..n -> Seq(ScopedId)] : Unfolds(f, n, <<>>, g)
  <2>1. <<>> \in Seq(ScopedId)
    OBVIOUS
  <2> HIDE DEF g
  <2> QED
    BY <1>1, <1>4, <2>1, UnfoldingExists
<1>6. Names(f)
  <2>1. \A k \in 1..n : <<k, f[k - 1]>> \in (1..n) \X Seq(ScopedId)
    <3>1. \A k \in 1..n : k - 1 \in 0..n
      BY <1>1
    <3>2. \A k \in 1..n : f[k - 1] \in Seq(ScopedId)
      BY <3>1
    <3> QED
      BY <3>2, Zenon
  <2>2. \A k \in 1..n : g[<<k, f[k - 1]>>] = Next1(k, f[k - 1])
    BY <2>1
  <2> HIDE DEF g
  <2>3. \A k \in 0..n : f[k] = IF k = 0 THEN <<>> ELSE g[<<k, f[k - 1]>>]
    BY <1>5 DEF Unfolds
  <2>4. \A k \in 0..n : k # 0 => k \in 1..n
    BY <1>1
  <2>5. \A k \in 0..n : f[k] = IF k = 0 THEN <<>> ELSE Next1(k, f[k - 1])
    BY <2>2, <2>3, <2>4, Zenon
  <2> QED
    BY <2>5
<1>7. PICK e : Names(e) /\ Scoped(response, seen) = e[n]
  <2>1. \E e : Names(e)
    <3> HIDE DEF Names
    <3> QED
      BY <1>6
  <2> HIDE DEF Names
  <2> QED
    BY <1>3, <2>1
<1> DEFINE P == {k \in 0..n : NewIds(e[k], k, seen) /\ NameCalls(e[k], response, k)}
<1>8. 0 \in P
  <2>1. 0 \in 0..n /\ e[0] = <<>>
    <3>1. 0 \in 0..n
      BY <1>1
    <3> QED
      BY <1>7, <3>1
  <2>2. NewIds(<<>>, 0, seen) /\ NameCalls(<<>>, response, 0)
    BY DEF NewIds, NameCalls
  <2> QED
    BY <2>1, <2>2
<1>9. ASSUME NEW k \in 1..n, k - 1 \in P
      PROVE  k \in P
  <2>1. k \in 0..n /\ k # 0 /\ k - 1 \in Nat /\ (k - 1) + 1 = k
    BY <1>1
  <2>2. e[k] = Next1(k, e[k - 1])
    BY <1>7, <2>1
  <2>3. NewIds(e[k - 1], k - 1, seen) /\ NameCalls(e[k - 1], response, k - 1)
    BY <1>9
  <2>4. NewIds(Append(e[k - 1], Fresh(response[k].id, seen \cup {e[k - 1][j] : j \in 1..(k - 1)})), (k - 1) + 1, seen)
    BY <1>1, <2>1, <2>3, OneMoreId
  <2> DEFINE s == e[k - 1]
             i == Fresh(response[k].id, seen \cup {s[j] : j \in 1..(k - 1)})
  <2>5. s \in Seq(ScopedId) /\ Len(s) = k - 1
    BY <2>3 DEF NewIds
  <2>6. i[1] = response[k].id
    BY FreshKeepsTheId
  <2> HIDE DEF s, i
  <2>7. Append(s, i)[k] = i /\ \A j \in 1..(k - 1) : Append(s, i)[j] = s[j]
    BY <2>1, <2>5
  <2>8. \A j \in 1..k : j = k \/ j \in 1..(k - 1)
    BY <2>1
  <2>9. NameCalls(s, response, k - 1)
    BY <2>3 DEF s
  <2>10. NameCalls(Append(s, i), response, k)
    BY <2>6, <2>7, <2>8, <2>9 DEF NameCalls
  <2> QED
    BY <2>1, <2>2, <2>4, <2>10 DEF Next1, s, i
<1>10. 0..n \subseteq P
  <2> HIDE DEF P
  <2> QED
    BY <1>1, <1>8, <1>9, UpTo
<1>11. n \in 0..n
  BY <1>1
<1>12. NewIds(e[n], n, seen) /\ NameCalls(e[n], response, n)
  <2> HIDE DEF Names
  <2> QED
    BY <1>10, <1>11
<1> QED
  BY <1>7, <1>12 DEF n

-----------------------------------------------------------------------------
(* The client's limits and mode.                                           *)

\* What a turn may use is what the client asked for, and within what the host
\* allows (TurnLimits::clamp_to, ApprovalPolicy::clamp_to).
LEMMA LimitsHold ==
  ASSUME setup \in Setups
  PROVE  /\ limits.provider_requests \in Nat /\ limits.provider_requests <= provider_requests
         /\ limits.tool_calls \in Nat /\ limits.tool_calls <= tool_calls
         /\ limits.auto_continues \in Nat /\ limits.auto_continues <= auto_continues
         /\ provider_requests \in Nat /\ tool_calls \in Nat /\ auto_continues \in Nat
<1>1. setup.limits \in [DOMAIN max_limits -> Nat]
  BY SetupAssumption
<1>2. /\ provider_requests \in Nat /\ tool_calls \in Nat /\ auto_continues \in Nat
      /\ max_limits.provider_requests = provider_requests
      /\ max_limits.tool_calls = tool_calls
      /\ max_limits.auto_continues = auto_continues
  BY EngineAssumption DEF max_limits
<1>3. {"provider_requests", "tool_calls", "auto_continues"} \subseteq DOMAIN max_limits
  BY DEF max_limits
<1>4. \A k \in {"provider_requests", "tool_calls", "auto_continues"} :
        limits[k] = IF setup.limits[k] <= max_limits[k] THEN setup.limits[k] ELSE max_limits[k]
  BY <1>3 DEF limits, ClampLimits
<1>5. /\ setup.limits.provider_requests \in Nat /\ setup.limits.tool_calls \in Nat /\ setup.limits.auto_continues \in Nat
  BY <1>1, <1>3
<1> QED
  BY <1>2, <1>4, <1>5

\* The mode is the stricter of what the client asks for and the host allows.
LEMMA ModeHolds ==
  ASSUME setup \in Setups
  PROVE  /\ mode \in Mode /\ setup.rules \in RuleSet
         /\ mode # "off" => "off" \notin {setup.asked, setup.max_approval}
         /\ mode = "auto" => {setup.asked, setup.max_approval} = {"auto"}
<1>1. {setup.asked, setup.max_approval} \subseteq Mode /\ setup.rules \in RuleSet
  BY SetupAssumption DEF RuleSet
<1>2. permissiveness("off") = 0 /\ permissiveness("ask") = 1 /\ permissiveness("auto") = 2
  BY Zenon DEF permissiveness
<1> QED
  BY <1>1, <1>2 DEF mode, ClampMode, Mode

\* ApprovalRules::decide returns a decision.
LEMMA RulesAreADecision ==
  ASSUME NEW rules \in RuleSet, NEW call, NEW m \in Mode
  PROVE  RulesDecide(rules, call, m) \in Decision
<1>1. /\ decide(rules.base, call, m, TRUE) \in Decision
      /\ decide(rules.overlay, call, m, FALSE) \in Decision
  BY DecideIsADecision
<1> QED
  BY <1>1, StricterIsStricter DEF RulesDecide

\* The policy of a turn stays what the client and the host made of it.
LEMMA PolicyStays ==
  ASSUME Next
  PROVE  setup' = setup /\ limits' = limits /\ mode' = mode
<1>1. setup' = setup
  <2>1. ASSUME Charge PROVE setup' = setup
    BY <2>1 DEF Charge
  <2>2. ASSUME ProviderStopped PROVE setup' = setup
    BY <2>2 DEF ProviderStopped
  <2>3. ASSUME CallsDone PROVE setup' = setup
    BY <2>3 DEF CallsDone
  <2>4. ASSUME CallCancelled PROVE setup' = setup
    BY <2>4 DEF CallCancelled
  <2>5. ASSUME CallOverLimit PROVE setup' = setup
    BY <2>5 DEF CallOverLimit
  <2>6. ASSUME CallExhausted PROVE setup' = setup
    BY <2>6 DEF CallExhausted
  <2>7. ASSUME CallCharged PROVE setup' = setup
    BY <2>7 DEF CallCharged
  <2>8. ASSUME StatAt PROVE setup' = setup
    BY <2>8 DEF StatAt, Walks
  <2>9. ASSUME ReadLinkAt PROVE setup' = setup
    BY <2>9 DEF ReadLinkAt, Walks
  <2>10. ASSUME OpenAt PROVE setup' = setup
    BY <2>10 DEF OpenAt, Walks
  <2>11. ASSUME WalkTimesOut PROVE setup' = setup
    BY <2>11 DEF WalkTimesOut, Walks
  <2>12. ASSUME WalkDone PROVE setup' = setup
    BY <2>12 DEF WalkDone
  <2>13. ASSUME Decide PROVE setup' = setup
    BY <2>13 DEF Decide
  <2>14. ASSUME ApprovalStopped PROVE setup' = setup
    BY <2>14 DEF ApprovalStopped, Human
  <2>15. ASSUME DecidedCancelled PROVE setup' = setup
    BY <2>15 DEF DecidedCancelled
  <2>16. ASSUME Aborted PROVE setup' = setup
    BY <2>16 DEF Aborted
  <2>17. ASSUME Denied PROVE setup' = setup
    BY <2>17 DEF Denied
  <2>18. ASSUME ReadObject PROVE setup' = setup
    BY <2>18 DEF ReadObject
  <2>19. ASSUME StartShell PROVE setup' = setup
    BY <2>19 DEF StartShell
  <2>20. ASSUME Delegate PROVE setup' = setup
    BY <2>20 DEF Delegate
  <2>21. ASSUME ShellReaped PROVE setup' = setup
    BY <2>21 DEF ShellReaped, ShellResult
  <2>22. ASSUME DirectDone PROVE setup' = setup
    BY <2>22 DEF DirectDone
  <2>23. ASSUME NEW left \in BOOLEAN, ShellKilled(left) PROVE setup' = setup
    BY <2>23 DEF ShellKilled
  <2>24. ASSUME NEW size \in {1, LargeResult}, ShellOutput(size) PROVE setup' = setup
    BY <2>24 DEF ShellOutput, ShellResult
  <2>25. ASSUME SubagentAborted PROVE setup' = setup
    BY <2>25 DEF SubagentAborted
  <2>26. ASSUME AfterCall PROVE setup' = setup
    BY <2>26 DEF AfterCall
  <2>27. ASSUME StartTurn PROVE setup' = setup
    BY <2>27 DEF StartTurn
  <2>28. ASSUME DirectCaptured PROVE setup' = setup
    BY <2>28 DEF DirectCaptured, DirectBegins
  <2>29. ASSUME DirectStarts PROVE setup' = setup
    BY <2>29 DEF DirectStarts, DirectBegins
  <2>30. ASSUME NEW r \in Responses, Respond(r) PROVE setup' = setup
    BY <2>30 DEF Respond
  <2>31. ASSUME Overflow PROVE setup' = setup
    BY <2>31 DEF Overflow
  <2>32. ASSUME ProviderFails PROVE setup' = setup
    BY <2>32 DEF ProviderFails
  <2>33. ASSUME NEW d \in {"approve", "deny", "abort_turn"}, Human(d) PROVE setup' = setup
    BY <2>33 DEF Human
  <2>34. ASSUME NEW held \in BOOLEAN, ShellExits(held) PROVE setup' = setup
    BY <2>34 DEF ShellExits
  <2>35. ASSUME HolderEnds PROVE setup' = setup
    BY <2>35 DEF HolderEnds
  <2>36. ASSUME Cancel PROVE setup' = setup
    BY <2>36 DEF Cancel
  <2>37. ASSUME Expire PROVE setup' = setup
    BY <2>37 DEF Expire
  <2>38. ASSUME NEW b \in Binding, Swap(b) PROVE setup' = setup
    BY <2>38 DEF Swap
  <2> QED
    BY <2>1, <2>2, <2>3, <2>4, <2>5, <2>6, <2>7, <2>8, <2>9, <2>10, <2>11, <2>12, <2>13, <2>14, <2>15, <2>16,
       <2>17, <2>18, <2>19, <2>20, <2>21, <2>22, <2>23, <2>24, <2>25, <2>26, <2>27, <2>28, <2>29, <2>30, <2>31,
       <2>32, <2>33, <2>34, <2>35, <2>36, <2>37, <2>38 DEF Next, Engine, Environment
<1> QED
  BY <1>1 DEF limits, mode

\* What says nothing of an agent stays within its bounds (TurnBudget).
LEMMA PlainKept ==
  ASSUME Plain, Next
  PROVE  Plain'
<1>1. setup' = setup /\ limits' = limits
  BY PolicyStays
<1>2. /\ limits.provider_requests \in Nat /\ limits.tool_calls \in Nat
      /\ MaxStops \in Nat /\ MaxAnswers \in Nat
  BY LimitsHold, EngineAssumption DEF Plain
<1>3. \A d \in Decision : (IF d = "run" THEN "approve" ELSE d) \in {"approve", "deny", "prompt"}
  BY DEF Decision
<1>4. ASSUME Charge PROVE Plain'
  BY <1>1, <1>2, <1>4 DEF Charge, MayRequest, Plain, world, budget, bounds, ghosts
<1>5. ASSUME ProviderStopped PROVE Plain'
  BY <1>1, <1>2, <1>5 DEF ProviderStopped, Plain, world, budget, bounds, ghosts
<1>6. ASSUME CallsDone PROVE Plain'
  BY <1>1, <1>2, <1>6 DEF CallsDone, Plain, world, budget, bounds, ghosts
<1>7. ASSUME CallCancelled PROVE Plain'
  BY <1>1, <1>2, <1>7 DEF CallCancelled, Plain, world, budget, bounds, ghosts
<1>8. ASSUME CallOverLimit PROVE Plain'
  BY <1>1, <1>2, <1>8 DEF CallOverLimit, Plain, world, budget, bounds, ghosts
<1>9. ASSUME CallExhausted PROVE Plain'
  BY <1>1, <1>2, <1>9 DEF CallExhausted, Plain, world, budget, bounds, ghosts
<1>10. ASSUME CallCharged PROVE Plain'
  <2>1. calls' \in 0..limits.tool_calls
    BY <1>2, <1>10 DEF CallCharged, MayCall, Plain
  <2>2. binding' \in Binding \cup {None}
    BY <1>10 DEF CallCharged, Plain
  <2> QED
    BY <1>1, <2>1, <2>2, <1>10 DEF CallCharged, Plain, bounds, ghosts
<1>11. ASSUME StatAt PROVE Plain'
  BY <1>1, <1>2, <1>11 DEF StatAt, Walks, Plain, world, budget, bounds, ghosts
<1>12. ASSUME ReadLinkAt PROVE Plain'
  BY <1>1, <1>2, <1>12 DEF ReadLinkAt, Walks, Plain, world, budget, bounds, ghosts
<1>13. ASSUME OpenAt PROVE Plain'
  BY <1>1, <1>2, <1>13 DEF OpenAt, Walks, Plain, world, budget, bounds, ghosts
<1>14. ASSUME WalkTimesOut PROVE Plain'
  BY <1>1, <1>2, <1>14 DEF WalkTimesOut, Walks, Plain, world, budget, bounds, ghosts
<1>15. ASSUME WalkDone PROVE Plain'
  BY <1>1, <1>2, <1>15 DEF WalkDone, Plain, world, budget, bounds, ghosts
<1>16. ASSUME Decide PROVE Plain'
  <2>1. RulesDecide(setup.rules, CallFacts, mode) \in Decision
    BY ModeHolds, RulesAreADecision DEF Plain
  <2>2. (IF RulesDecide(setup.rules, CallFacts, mode) = "run" THEN "approve"
         ELSE RulesDecide(setup.rules, CallFacts, mode)) \in {"approve", "deny", "prompt"}
    BY <1>3, <2>1
  <2> QED
    BY <1>1, <2>2, <1>16 DEF Decide, Plain, world, budget, bounds, ghosts
<1>17. ASSUME ApprovalStopped PROVE Plain'
  BY <1>1, <1>2, <1>17 DEF ApprovalStopped, Human, Plain, world, budget, bounds, ghosts
<1>18. ASSUME DecidedCancelled PROVE Plain'
  BY <1>1, <1>2, <1>18 DEF DecidedCancelled, CallOver, Undecided, Plain, world, budget, bounds, ghosts
<1>19. ASSUME Aborted PROVE Plain'
  BY <1>1, <1>2, <1>19 DEF Aborted, CallOver, Undecided, Plain, world, budget, bounds, ghosts
<1>20. ASSUME Denied PROVE Plain'
  BY <1>1, <1>2, <1>20 DEF Denied, CallOver, Undecided, Plain, world, budget, bounds, ghosts
<1>21. ASSUME ReadObject PROVE Plain'
  BY <1>1, <1>2, <1>21 DEF ReadObject, CallOver, Undecided, Plain, world, budget, bounds, ghosts
<1>22. ASSUME StartShell PROVE Plain'
  BY <1>1, <1>2, <1>22 DEF StartShell, Plain, world, budget, bounds, ghosts
<1>23. ASSUME Delegate PROVE Plain'
  BY <1>1, <1>2, <1>23 DEF Delegate, CallOver, Undecided, Plain, world, budget, bounds, ghosts
<1>24. ASSUME ShellReaped PROVE Plain'
  BY <1>1, <1>2, <1>24 DEF ShellReaped, ShellResult, CallOver, Undecided, Plain, world, budget, bounds, ghosts
<1>25. ASSUME DirectDone PROVE Plain'
  BY <1>1, <1>2, <1>25 DEF DirectDone, Plain, world, budget, bounds, ghosts
<1>26. ASSUME NEW left \in BOOLEAN, ShellKilled(left) PROVE Plain'
  BY <1>1, <1>2, <1>26 DEF ShellKilled, Plain, world, budget, bounds, ghosts
<1>27. ASSUME NEW size \in {1, LargeResult}, ShellOutput(size) PROVE Plain'
  BY <1>1, <1>2, <1>27 DEF ShellOutput, ShellResult, CallOver, Undecided, Plain, world, budget, bounds, ghosts
<1>28. ASSUME SubagentAborted PROVE Plain'
  BY <1>1, <1>2, <1>28 DEF SubagentAborted, Plain, world, budget, bounds, ghosts
<1>29. ASSUME AfterCall PROVE Plain'
  BY <1>1, <1>2, <1>29 DEF AfterCall, Plain, world, budget, bounds, ghosts
<1>30. ASSUME StartTurn PROVE Plain'
  <2>1. requests' \in 0..limits.provider_requests /\ calls' \in 0..limits.tool_calls
    BY <1>2, <1>30 DEF StartTurn
  <2>2. {expired', cancelled', evicted'} \subseteq BOOLEAN
    BY <1>30 DEF StartTurn
  <2>3. turn' \in Nat
    BY <1>30 DEF Plain, StartTurn
  <2>4. /\ stops' = stops /\ answers' = answers /\ binding' = binding
        /\ shell' \in {shell, "running"} /\ decided' \in {decided, Undecided}
    BY <1>30 DEF StartTurn, bounds, world
  <2>5. decided' \in [decision: {"approve", "deny", "abort_turn", "prompt", None}, human: BOOLEAN]
    <3>1. Undecided \in [decision: {"approve", "deny", "abort_turn", "prompt", None}, human: BOOLEAN]
      BY DEF Undecided
    <3> QED
      BY <2>4, <3>1 DEF Plain
  <2>6. shell' \in {"none", "running", "held", "closed", "left", "gone"}
    BY <2>4 DEF Plain
  <2>7. setup' \in Setups /\ stops' \in 0..MaxStops /\ answers' \in 0..MaxAnswers /\ binding' \in Binding \cup {None}
    BY <1>1, <2>4 DEF Plain
  <2> QED
    BY <1>1, <2>1, <2>2, <2>3, <2>5, <2>6, <2>7 DEF Plain
<1>31. ASSUME DirectCaptured PROVE Plain'
  <2>1. requests' \in 0..limits.provider_requests /\ calls' \in 0..limits.tool_calls
    BY <1>2, <1>31 DEF DirectBegins, DirectCaptured
  <2>2. {expired', cancelled', evicted'} \subseteq BOOLEAN
    BY <1>31 DEF DirectBegins, DirectCaptured
  <2>3. turn' \in Nat
    BY <1>31 DEF DirectBegins, Plain, DirectCaptured
  <2>4. /\ stops' = stops /\ answers' = answers /\ binding' = binding
        /\ shell' \in {shell, "running"} /\ decided' \in {decided, Undecided}
    BY <1>31 DEF DirectBegins, DirectCaptured, bounds, world
  <2>5. decided' \in [decision: {"approve", "deny", "abort_turn", "prompt", None}, human: BOOLEAN]
    <3>1. Undecided \in [decision: {"approve", "deny", "abort_turn", "prompt", None}, human: BOOLEAN]
      BY DEF Undecided
    <3> QED
      BY <2>4, <3>1 DEF Plain
  <2>6. shell' \in {"none", "running", "held", "closed", "left", "gone"}
    BY <2>4 DEF Plain
  <2>7. setup' \in Setups /\ stops' \in 0..MaxStops /\ answers' \in 0..MaxAnswers /\ binding' \in Binding \cup {None}
    BY <1>1, <2>4 DEF Plain
  <2> QED
    BY <1>1, <2>1, <2>2, <2>3, <2>5, <2>6, <2>7 DEF Plain
<1>32. ASSUME DirectStarts PROVE Plain'
  <2>1. requests' \in 0..limits.provider_requests /\ calls' \in 0..limits.tool_calls
    BY <1>2, <1>32 DEF DirectBegins, DirectStarts
  <2>2. {expired', cancelled', evicted'} \subseteq BOOLEAN
    BY <1>32 DEF DirectBegins, DirectStarts
  <2>3. turn' \in Nat
    BY <1>32 DEF DirectBegins, Plain, DirectStarts
  <2>4. /\ stops' = stops /\ answers' = answers /\ binding' = binding
        /\ shell' \in {shell, "running"} /\ decided' \in {decided, Undecided}
    BY <1>32 DEF DirectBegins, DirectStarts, bounds, world
  <2>5. decided' \in [decision: {"approve", "deny", "abort_turn", "prompt", None}, human: BOOLEAN]
    <3>1. Undecided \in [decision: {"approve", "deny", "abort_turn", "prompt", None}, human: BOOLEAN]
      BY DEF Undecided
    <3> QED
      BY <2>4, <3>1 DEF Plain
  <2>6. shell' \in {"none", "running", "held", "closed", "left", "gone"}
    BY <2>4 DEF Plain
  <2>7. setup' \in Setups /\ stops' \in 0..MaxStops /\ answers' \in 0..MaxAnswers /\ binding' \in Binding \cup {None}
    BY <1>1, <2>4 DEF Plain
  <2> QED
    BY <1>1, <2>1, <2>2, <2>3, <2>5, <2>6, <2>7 DEF Plain
<1>33. ASSUME NEW r \in Responses, Respond(r) PROVE Plain'
  BY <1>1, <1>2, <1>33 DEF Respond, Plain, world, budget, bounds, ghosts
<1>34. ASSUME Overflow PROVE Plain'
  BY <1>1, <1>2, <1>34 DEF Overflow, Plain, world, budget, bounds, ghosts
<1>35. ASSUME ProviderFails PROVE Plain'
  BY <1>1, <1>2, <1>35 DEF ProviderFails, Plain, world, budget, bounds, ghosts
<1>36. ASSUME NEW d \in {"approve", "deny", "abort_turn"}, Human(d) PROVE Plain'
  BY <1>1, <1>2, <1>36 DEF Human, Plain, world, budget, bounds, ghosts
<1>37. ASSUME NEW held \in BOOLEAN, ShellExits(held) PROVE Plain'
  BY <1>1, <1>2, <1>37 DEF ShellExits, Plain, world, budget, bounds, ghosts
<1>38. ASSUME HolderEnds PROVE Plain'
  BY <1>1, <1>2, <1>38 DEF HolderEnds, Plain, world, budget, bounds, ghosts
<1>39. ASSUME Cancel PROVE Plain'
  BY <1>1, <1>2, <1>39 DEF Cancel, Plain, world, budget, bounds, ghosts
<1>40. ASSUME Expire PROVE Plain'
  BY <1>1, <1>2, <1>40 DEF Expire, Plain, world, budget, bounds, ghosts
<1>41. ASSUME NEW b \in Binding, Swap(b) PROVE Plain'
  BY <1>1, <1>2, <1>41 DEF Swap, Plain, world, budget, bounds, ghosts
<1> QED
  BY <1>4, <1>5, <1>6, <1>7, <1>8, <1>9, <1>10, <1>11, <1>12, <1>13, <1>14, <1>15, <1>16, <1>17, <1>18, <1>19,
     <1>20, <1>21, <1>22, <1>23, <1>24, <1>25, <1>26, <1>27, <1>28, <1>29, <1>30, <1>31, <1>32, <1>33, <1>34, <1>35,
     <1>36, <1>37, <1>38, <1>39, <1>40, <1>41 DEF Next, Engine, Environment

\* Only the walk itself, and a call that starts one, move it.
LEMMA WalkMoves ==
  ASSUME Next
  PROVE  walk' \in {walk, NoWalk} \/ CallCharged \/ StatAt \/ ReadLinkAt \/ OpenAt \/ WalkTimesOut
<1>1. ASSUME Charge PROVE walk' \in {walk, NoWalk}
  BY <1>1 DEF Charge, world
<1>2. ASSUME ProviderStopped PROVE walk' \in {walk, NoWalk}
  BY <1>2 DEF ProviderStopped, world
<1>3. ASSUME CallsDone PROVE walk' \in {walk, NoWalk}
  BY <1>3 DEF CallsDone, world
<1>4. ASSUME CallCancelled PROVE walk' \in {walk, NoWalk}
  BY <1>4 DEF CallCancelled, world
<1>5. ASSUME CallOverLimit PROVE walk' \in {walk, NoWalk}
  BY <1>5 DEF CallOverLimit, world
<1>6. ASSUME CallExhausted PROVE walk' \in {walk, NoWalk}
  BY <1>6 DEF CallExhausted, world
<1>7. ASSUME WalkDone PROVE walk' \in {walk, NoWalk}
  BY <1>7 DEF WalkDone, world
<1>8. ASSUME Decide PROVE walk' \in {walk, NoWalk}
  BY <1>8 DEF Decide, world
<1>9. ASSUME ApprovalStopped PROVE walk' \in {walk, NoWalk}
  BY <1>9 DEF ApprovalStopped, Human, world
<1>10. ASSUME DecidedCancelled PROVE walk' \in {walk, NoWalk}
  BY <1>10 DEF DecidedCancelled, CallOver, world
<1>11. ASSUME Aborted PROVE walk' \in {walk, NoWalk}
  BY <1>11 DEF Aborted, CallOver, world
<1>12. ASSUME Denied PROVE walk' \in {walk, NoWalk}
  BY <1>12 DEF Denied, CallOver, world
<1>13. ASSUME ReadObject PROVE walk' \in {walk, NoWalk}
  BY <1>13 DEF ReadObject, CallOver, world
<1>14. ASSUME StartShell PROVE walk' \in {walk, NoWalk}
  BY <1>14 DEF StartShell, world
<1>15. ASSUME Delegate PROVE walk' \in {walk, NoWalk}
  BY <1>15 DEF Delegate, CallOver, world
<1>16. ASSUME ShellReaped PROVE walk' \in {walk, NoWalk}
  BY <1>16 DEF ShellReaped, ShellResult, CallOver, world
<1>17. ASSUME DirectDone PROVE walk' \in {walk, NoWalk}
  BY <1>17 DEF DirectDone, world
<1>18. ASSUME NEW left \in BOOLEAN, ShellKilled(left) PROVE walk' \in {walk, NoWalk}
  BY <1>18 DEF ShellKilled, world
<1>19. ASSUME NEW size \in {1, LargeResult}, ShellOutput(size) PROVE walk' \in {walk, NoWalk}
  BY <1>19 DEF ShellOutput, ShellResult, CallOver, world
<1>20. ASSUME SubagentAborted PROVE walk' \in {walk, NoWalk}
  BY <1>20 DEF SubagentAborted, world
<1>21. ASSUME AfterCall PROVE walk' \in {walk, NoWalk}
  BY <1>21 DEF AfterCall, world
<1>22. ASSUME StartTurn PROVE walk' \in {walk, NoWalk}
  BY <1>22 DEF StartTurn, world
<1>23. ASSUME DirectCaptured PROVE walk' \in {walk, NoWalk}
  BY <1>23 DEF DirectCaptured, DirectBegins, world
<1>24. ASSUME DirectStarts PROVE walk' \in {walk, NoWalk}
  BY <1>24 DEF DirectStarts, DirectBegins, world
<1>25. ASSUME NEW r \in Responses, Respond(r) PROVE walk' \in {walk, NoWalk}
  BY <1>25 DEF Respond, world
<1>26. ASSUME Overflow PROVE walk' \in {walk, NoWalk}
  BY <1>26 DEF Overflow, world
<1>27. ASSUME ProviderFails PROVE walk' \in {walk, NoWalk}
  BY <1>27 DEF ProviderFails, world
<1>28. ASSUME NEW d \in {"approve", "deny", "abort_turn"}, Human(d) PROVE walk' \in {walk, NoWalk}
  BY <1>28 DEF Human, world
<1>29. ASSUME NEW held \in BOOLEAN, ShellExits(held) PROVE walk' \in {walk, NoWalk}
  BY <1>29 DEF ShellExits, world
<1>30. ASSUME HolderEnds PROVE walk' \in {walk, NoWalk}
  BY <1>30 DEF HolderEnds, world
<1>31. ASSUME Cancel PROVE walk' \in {walk, NoWalk}
  BY <1>31 DEF Cancel, world
<1>32. ASSUME Expire PROVE walk' \in {walk, NoWalk}
  BY <1>32 DEF Expire, world
<1>33. ASSUME NEW b \in Binding, Swap(b) PROVE walk' \in {walk, NoWalk}
  BY <1>33 DEF Swap, world
<1> QED
  BY <1>1, <1>2, <1>3, <1>4, <1>5, <1>6, <1>7, <1>8, <1>9, <1>10, <1>11, <1>12, <1>13, <1>14, <1>15, <1>16, <1>17,
     <1>18, <1>19, <1>20, <1>21, <1>22, <1>23, <1>24, <1>25, <1>26, <1>27, <1>28, <1>29, <1>30, <1>31, <1>32, <1>33
     DEF Next, Engine, Environment

\* The uppermost agent is an agent, and its current call is a call.
LEMMA TopIsAnAgent ==
  ASSUME Agents
  PROVE  /\ Len(stack) \in 1..2 /\ DOMAIN stack = 1..Len(stack) /\ Len(stack) \in DOMAIN stack
         /\ \A n \in DOMAIN stack : stack[n] \in Agent
         /\ top \in Agent /\ SoundAgent(top)
         /\ top.index \in Nat \ {0} /\ Len(top.response) \in Nat
         /\ top.index <= Len(top.response) => /\ Call \in ToolCall
                                             /\ top.index \in DOMAIN top.response /\ top.index \in DOMAIN top.ids
<1>1. stack \in Seq(Agent) /\ Len(stack) \in 1..2
  BY DEF Agents
<1>2. DOMAIN stack = 1..Len(stack) /\ Len(stack) \in DOMAIN stack /\ \A n \in DOMAIN stack : stack[n] \in Agent
  BY <1>1
<1>3. top \in Agent /\ SoundAgent(top)
  BY <1>2 DEF top, Agents
<1> HIDE DEF top
<1>4. top.response \in Seq(ToolCall) /\ top.ids \in Seq(ScopedId) /\ top.index \in Nat
  BY <1>3 DEF Agent
<1>5. top.index \in 1..(Len(top.response) + 1) /\ Len(top.ids) = Len(top.response)
  BY <1>3 DEF SoundAgent
<1>6. top.index <= Len(top.response) => top.index \in 1..Len(top.response)
  BY <1>4, <1>5
<1> QED
  BY <1>1, <1>2, <1>3, <1>4, <1>5, <1>6 DEF Call

\* The walk opens an object beneath its own name, and only when it is not
\* blocked (prepared.rs).
LEMMA WalkKept ==
  ASSUME Plain, WalkInv, Agents, Stage, Next
  PROVE  WalkInv'
<1>1. setup' = setup
  BY PolicyStays
<1>2. None \notin {"stat", "readlink", "open", "opened", "secret", "f"}
  BY EngineAssumption
<1>3. CASE walk' = walk
  BY <1>1, <1>3 DEF WalkInv
<1>4. CASE walk' = NoWalk
  BY <1>1, <1>2, <1>4 DEF WalkInv, NoWalk, Object
<1>5. CASE CallCharged
  <2>1. CASE Call.tool \in top.tools /\ Call.tool = "read_file"
    <3>1. walk' = [NoWalk EXCEPT !.at = "stat", !.reached = Call.path]
      BY <1>5, <2>1 DEF CallCharged
    <3>2. Call \in ToolCall
      BY <1>5, TopIsAnAgent DEF CallCharged, AtCall
    <3>3. Call.path \in Object \ {None}
      BY <2>1, <3>2 DEF ToolCall, Object
    <3> HIDE DEF Call
    <3> QED
      BY <1>1, <1>2, <3>1, <3>3 DEF WalkInv, NoWalk, Object
  <2>2. CASE ~(Call.tool \in top.tools /\ Call.tool = "read_file")
    <3>1. walk' = walk
      BY <1>5, <2>2 DEF CallCharged
    <3> QED
      BY <1>1, <3>1 DEF WalkInv
  <2> QED
    BY <2>1, <2>2
<1>6. CASE StatAt
  <2>1. walk' = [walk EXCEPT !.at = IF Bound(walk.reached) = "file" THEN "open" ELSE "readlink"] /\ walk.at = "stat"
    BY <1>6 DEF StatAt, Walks
  <2> QED
    BY <1>1, <1>2, <2>1 DEF WalkInv
<1>7. CASE ReadLinkAt
  <2>1. walk' \in {[NoWalk EXCEPT !.at = "stat", !.reached = "secret"], FailedWalk}
    BY <1>7 DEF ReadLinkAt, Walks
  <2>2. CASE walk' = [NoWalk EXCEPT !.at = "stat", !.reached = "secret"]
    BY <1>1, <1>2, <2>2 DEF WalkInv, NoWalk, Object
  <2>3. CASE walk' = FailedWalk
    BY <1>1, <1>2, <2>3 DEF WalkInv, NoWalk, FailedWalk, Object
  <2> QED
    BY <2>1, <2>2, <2>3
<1>8. CASE OpenAt
  <2> DEFINE object  == Opens(walk.reached)
             blocked == matches(setup.blocked, Components(walk.reached))
  <2>1. walk' = (IF object = None \/ blocked THEN FailedWalk
                   ELSE [walk EXCEPT !.at = "opened", !.object = object]) /\ walk.at = "open"
    BY <1>8 DEF OpenAt, Walks
  <2>2. CASE walk' = FailedWalk
    BY <1>1, <1>2, <2>2 DEF WalkInv, NoWalk, FailedWalk, Object
  <2>3. CASE walk' # FailedWalk
    <3>1. object # None /\ ~blocked /\ walk' = [walk EXCEPT !.at = "opened", !.object = object]
      BY <2>1, <2>3
    <3>2. object = walk.reached
      BY <3>1 DEF Opens
    <3> HIDE DEF object
    <3>3. walk.reached \in Object \ {None} /\ walk' = [walk EXCEPT !.at = "opened", !.object = walk.reached]
      BY <3>1, <3>2 DEF WalkInv
    <3>4. walk'.at = "opened" /\ walk'.reached = walk.reached /\ walk'.object = walk.reached
      BY <3>3 DEF WalkInv
    <3>5. walk' \in [at: {None, "stat", "readlink", "open", "opened", "failed"}, reached: Object, object: Object]
      BY <3>3 DEF WalkInv
    <3> QED
      BY <1>1, <1>2, <3>1, <3>3, <3>4, <3>5 DEF WalkInv
  <2> QED
    BY <2>2, <2>3
<1>9. CASE WalkTimesOut
  <2>1. walk' = FailedWalk
    BY <1>9 DEF WalkTimesOut, Walks
  <2> QED
    BY <1>1, <1>2, <2>1 DEF WalkInv, NoWalk, FailedWalk, Object
<1> QED
  BY <1>3, <1>4, <1>5, <1>6, <1>7, <1>8, <1>9, WalkMoves

-----------------------------------------------------------------------------
(* What carries the invariant over a step.                                 *)

\* Deeds stay remembered while the agents at work only pass their calls, or get
\* calls with new ids.
LEMMA DeedsCarry ==
  ASSUME Deeds, acted' = acted, setup' = setup, calls' \in Nat, calls \in Nat, calls <= calls',
         pc' \in Deciding => Len(acted) < calls',
         pc' \notin {"idle", "direct"} =>
           /\ pc \notin {"idle", "direct"}
           /\ stack[1].delegations \in Nat /\ stack'[1].delegations \in Nat
           /\ stack[1].delegations <= stack'[1].delegations
           /\ \A n \in DOMAIN stack' :
                /\ n \in DOMAIN stack /\ stack'[n].scope = stack[n].scope /\ stack[n].seen \subseteq stack'[n].seen
                /\ stack'[n].ids \in Seq(ScopedId)
                /\ Upcoming(n) \in Nat /\ Upcoming(n)' \in Nat
                /\ \/ stack'[n].ids = stack[n].ids /\ Upcoming(n) <= Upcoming(n)'
                   \/ \A j \in DOMAIN stack'[n].ids : stack'[n].ids[j] \notin stack[n].seen
  PROVE  Deeds'
<1>1. acted' \in Seq(Deed) /\ Len(acted') <= calls' /\ (pc' \in Deciding => Len(acted') < calls')
  BY DEF Deeds
<1>2. ASSUME NEW a, SoundDeed(a)
      PROVE  SoundDeed(a)'
  BY <1>2 DEF SoundDeed, Authorized, HostAllows, HostNames
<1>3. \A j, k \in DOMAIN acted' : j # k => <<acted'[j].scope, acted'[j].id>> # <<acted'[k].scope, acted'[k].id>>
  BY DEF Deeds
<1>4. ASSUME pc' \notin {"idle", "direct"}, NEW a \in Deed, Remembered(a)
      PROVE  Remembered(a)'
  <2>3. a.scope <= stack'[1].delegations
    <3>1. a.scope \in Nat
      BY DEF Deed
    <3> QED
      BY <1>4, <3>1 DEF Remembered
  <2>4. ASSUME NEW n \in DOMAIN stack', a.scope = stack'[n].scope
        PROVE  Past(stack'[n], Upcoming(n)', a.id)
    <3>1. Past(stack[n], Upcoming(n), a.id)
      BY <1>4, <2>4 DEF Remembered
    <3>2. a.id \in stack[n].seen /\ a.id \in stack'[n].seen
      BY <1>4, <2>4, <3>1 DEF Past
    <3>3. CASE stack'[n].ids = stack[n].ids /\ Upcoming(n) <= Upcoming(n)'
      <4>1. \A j \in DOMAIN stack[n].ids : j \in Nat
        BY <1>4, <2>4, <3>3
      <4>2. \A j \in DOMAIN stack[n].ids : stack[n].ids[j] = a.id => j < Upcoming(n)
        BY <3>1 DEF Past
      <4>3. \A j \in DOMAIN stack[n].ids : stack[n].ids[j] = a.id => j < Upcoming(n)'
        BY <1>4, <2>4, <3>3, <4>1, <4>2
      <4> QED
        BY <3>2, <3>3, <4>3 DEF Past
    <3>4. CASE \A j \in DOMAIN stack'[n].ids : stack'[n].ids[j] \notin stack[n].seen
      BY <3>2, <3>4 DEF Past
    <3> QED
      BY <1>4, <2>4, <3>3, <3>4
  <2> QED
    BY <2>3, <2>4 DEF Remembered
<1>5. \A k \in DOMAIN acted : acted[k] \in Deed /\ SoundDeed(acted[k])
  BY DEF Deeds
<1>6. pc \notin {"idle", "direct"} => \A k \in DOMAIN acted : Remembered(acted[k])
  BY DEF Deeds
<1>7. pc' \notin {"idle", "direct"} => \A k \in DOMAIN acted : Remembered(acted[k])'
  BY <1>4, <1>5, <1>6
<1>8. \A k \in DOMAIN acted : SoundDeed(acted[k])'
  BY <1>2, <1>5
<1> QED
  BY <1>1, <1>3, <1>7, <1>8 DEF Deeds

\* A step that leaves the agents alone.
LEMMA QuietStep ==
  ASSUME Agents, Deeds, stack' = stack, acted' = acted, setup' = setup,
         calls \in Nat, calls' \in Nat, calls <= calls', pc' \in Deciding => pc \in Deciding \/ calls < calls',
         pc' \notin {"idle", "direct"} => pc \notin {"idle", "direct"}, pc \in Acting => pc' \in Acting
  PROVE  Agents' /\ Deeds' /\ top' = top /\ Call' = Call /\ (IsChild' <=> IsChild)
<1>1. Agents' /\ top' = top /\ Call' = Call /\ (IsChild' <=> IsChild)
  BY DEF Agents, top, Call, IsChild
<1>2. Len(acted) \in Nat /\ (pc' \in Deciding => Len(acted) < calls')
  BY DEF Deeds
<1>3. Len(stack) \in Nat /\ DOMAIN stack = 1..Len(stack) /\ 1 \in DOMAIN stack /\ \A n \in DOMAIN stack : stack[n] \in Agent
  BY DEF Agents
<1>4. stack[1].delegations \in Nat
  BY <1>3 DEF Agent
<1>5. ASSUME NEW n \in DOMAIN stack'
      PROVE  /\ n \in DOMAIN stack /\ stack'[n].scope = stack[n].scope /\ stack[n].seen \subseteq stack'[n].seen
             /\ stack'[n].ids \in Seq(ScopedId)
             /\ Upcoming(n) \in Nat /\ Upcoming(n)' \in Nat
             /\ stack'[n].ids = stack[n].ids /\ Upcoming(n) <= Upcoming(n)'
  <2>1. n \in DOMAIN stack /\ stack[n] \in Agent /\ n \in Nat
    BY <1>3
  <2>2. stack[n].index \in Nat /\ stack[n].ids \in Seq(ScopedId)
    BY <2>1 DEF Agent
  <2> QED
    BY <1>3, <2>1, <2>2 DEF Upcoming
<1>6. Deeds'
  BY <1>2, <1>4, <1>5, DeedsCarry
<1> QED
  BY <1>1, <1>6

\* A step of the uppermost agent.
LEMMA TopStep ==
  ASSUME Agents, Deeds, NEW g \in Agent, stack' = SetTop(g), SoundAgent(g),
         g.scope = top.scope, g.delegations = top.delegations, g.tools = top.tools, top.seen \subseteq g.seen,
         \/ /\ g.ids = top.ids /\ top.index <= g.index
            /\ pc \in Acting => pc' \in Acting \/ top.index + 1 <= g.index
         \/ \A j \in DOMAIN g.ids : g.ids[j] \notin top.seen,
         acted' = acted, setup' = setup, calls \in Nat, calls' \in Nat, calls <= calls',
         pc \notin {"idle", "direct"}, pc' \notin Deciding
  PROVE  Agents' /\ Deeds' /\ top' = g /\ (IsChild' <=> IsChild)
<1>1. /\ stack \in Seq(Agent) /\ Len(stack) \in 1..2 /\ DOMAIN stack = 1..Len(stack)
      /\ \A n \in DOMAIN stack : stack[n] \in Agent /\ SoundAgent(stack[n])
  BY TopIsAnAgent DEF Agents
<1>2. /\ stack' \in Seq(Agent) /\ Len(stack') = Len(stack) /\ DOMAIN stack' = 1..Len(stack)
      /\ stack'[Len(stack)] = g /\ \A n \in DOMAIN stack : n # Len(stack) => stack'[n] = stack[n]
  BY <1>1 DEF SetTop
<1>3. top' = g /\ (IsChild' <=> IsChild)
  BY <1>2 DEF top, IsChild
<1>4. Agents'
  <2>1. \A n \in DOMAIN stack' : SoundAgent(stack'[n])
    BY <1>1, <1>2
  <2>2. CASE IsChild
    <3>1. Len(stack) = 2 /\ stack'[1] = stack[1] /\ stack'[2] = g /\ top = stack[2]
      BY <1>1, <1>2, <2>2 DEF IsChild, top
    <3> QED
      BY <1>2, <2>1, <3>1 DEF Agents, IsChild, SoundAgent
  <2>3. CASE ~IsChild
    <3>1. Len(stack) = 1 /\ stack'[1] = g /\ top = stack[1]
      BY <1>1, <1>2, <2>3 DEF IsChild, top
    <3> QED
      BY <1>2, <2>1, <3>1 DEF Agents, IsChild, SoundAgent
  <2> QED
    BY <2>2, <2>3
<1>5. stack[1].delegations \in Nat /\ stack'[1].delegations = stack[1].delegations
  <2>1. 1 \in DOMAIN stack
    BY <1>1
  <2>2. stack[1].delegations \in Nat
    BY <1>1, <2>1 DEF Agent
  <2>3. CASE 1 = Len(stack)
    BY <1>2, <2>2, <2>3 DEF top
  <2>4. CASE 1 # Len(stack)
    BY <1>2, <2>1, <2>2, <2>4
  <2> QED
    BY <2>3, <2>4
<1>6. ASSUME NEW n \in DOMAIN stack'
      PROVE  /\ n \in DOMAIN stack /\ stack'[n].scope = stack[n].scope /\ stack[n].seen \subseteq stack'[n].seen
             /\ stack'[n].ids \in Seq(ScopedId)
             /\ Upcoming(n) \in Nat /\ Upcoming(n)' \in Nat
             /\ \/ stack'[n].ids = stack[n].ids /\ Upcoming(n) <= Upcoming(n)'
                \/ \A j \in DOMAIN stack'[n].ids : stack'[n].ids[j] \notin stack[n].seen
  <2>1. n \in DOMAIN stack /\ n \in 1..Len(stack) /\ stack[n] \in Agent /\ stack'[n] \in Agent
    BY <1>1, <1>2
  <2>2. stack[n].index \in Nat /\ stack[n].ids \in Seq(ScopedId) /\ stack'[n].index \in Nat /\ stack'[n].ids \in Seq(ScopedId)
    BY <2>1 DEF Agent
  <2>3. CASE n # Len(stack)
    <3>1. n < Len(stack) /\ stack'[n] = stack[n]
      BY <1>1, <1>2, <2>1, <2>3
    <3> QED
      BY <1>2, <2>1, <2>2, <3>1 DEF Upcoming
  <2>4. CASE n = Len(stack)
    <3>1. stack[n] = top /\ stack'[n] = g /\ ~(n < Len(stack)) /\ ~(n < Len(stack'))
      BY <1>1, <1>2, <2>4 DEF top
    <3> QED
      BY <2>1, <2>2, <3>1 DEF Upcoming
  <2> QED
    BY <2>3, <2>4
<1>7. Len(acted) \in Nat
  BY DEF Deeds
<1>8. stack'[1].delegations \in Nat /\ stack[1].delegations <= stack'[1].delegations
  BY <1>5
<1>9. Deeds'
  BY <1>5, <1>6, <1>7, <1>8, DeedsCarry
<1> QED
  BY <1>3, <1>4, <1>9

\* An agent that starts has no calls and has seen no ids.
LEMMA FrameIsAnAgent ==
  ASSUME NEW h \in Hist, NEW tools \in SUBSET Tool, NEW scope \in Nat
  PROVE  /\ Frame(h, tools, scope) \in Agent /\ SoundAgent(Frame(h, tools, scope))
         /\ Frame(h, tools, scope).scope = scope /\ Frame(h, tools, scope).tools = tools
         /\ Frame(h, tools, scope).ids = <<>> /\ Frame(h, tools, scope).delegations = 0
<1> DEFINE f == Frame(h, tools, scope)
<1>1. /\ f.history = h /\ f.rollback = h /\ f.response = <<>> /\ f.ids = <<>> /\ f.index = 1 /\ f.observed = FALSE
      /\ f.auto = 0 /\ f.retried = FALSE /\ f.delegations = 0 /\ f.tools = tools /\ f.scope = scope /\ f.seen = {}
  BY DEF Frame
<1>2. <<>> \in Seq(ToolCall) /\ <<>> \in Seq(ScopedId) /\ Len(<<>>) = 0 /\ DOMAIN <<>> = {}
  OBVIOUS
<1>3. IsFiniteSet({}) /\ auto_continues \in Nat
  BY FS_EmptySet, EngineAssumption
<1>4. f \in Agent
  BY <1>2 DEF Frame, Agent
<1> HIDE DEF f
<1>5. SoundAgent(f)
  BY <1>1, <1>2, <1>3 DEF SoundAgent
<1> QED
  BY <1>1, <1>4, <1>5 DEF f

Outcomes == {"completed", "cancelled", "exhausted", "failed", "aborted"}

\* An agent's turn ends.
LEMMA EndsStep ==
  ASSUME Agents, Stage, Deeds, NEW h \in Hist, NEW how \in Outcomes, Ends(h, how), turn \in Nat,
         pc \notin {"idle", "direct"}, acted' = acted, setup' = setup,
         calls \in Nat, calls' = calls, shell' = "none"
  PROVE  Agents' /\ Stage' /\ Verdict' /\ Deeds'
<1>0. None \notin Outcomes
  BY EngineAssumption DEF Outcomes
<1>1. Len(acted) \in Nat
  BY DEF Deeds
<1>2. CASE IsChild
  <2> DEFINE f == stack[1]
             m == ToolMessage(f.response[f.index].id, 1, turn)
             g == [f EXCEPT !.history = Append(@, m)]
  <2>1. stack' = <<g>> /\ pc' \in {"after", "aborted"} /\ outcome' = outcome
    BY <1>2 DEF Ends
  <2>2. /\ Len(stack) = 2 /\ f \in Agent /\ SoundAgent(f) /\ f.scope = 0
        /\ f.index <= Len(f.response) /\ DOMAIN stack = {1, 2}
    BY <1>2, TopIsAnAgent DEF Agents, IsChild
  <2>3. m \in Msg
    <3> HIDE DEF f
    <3>1. f.response \in Seq(ToolCall) /\ f.index \in 1..Len(f.response)
      BY <2>2 DEF Agent, SoundAgent
    <3>2. f.response[f.index] \in ToolCall
      BY <3>1
    <3>3. f.response[f.index].id \in Nat
      BY <3>2 DEF ToolCall
    <3>4. <<>> \in Seq(Nat) /\ 1 \in Nat
      OBVIOUS
    <3> QED
      BY <3>3, <3>4, MessagesAreTyped
  <2>4. /\ g \in Agent /\ g.response = f.response /\ g.ids = f.ids /\ g.index = f.index /\ g.auto = f.auto
        /\ g.delegations = f.delegations /\ g.scope = f.scope /\ g.seen = f.seen /\ g.tools = f.tools
    <3> HIDE DEF f, m
    <3>1. f.history \in Hist
      BY <2>2 DEF Agent
    <3>2. Append(f.history, m) \in Hist
      BY <2>3, <3>1 DEF Hist
    <3> QED
      BY <2>2, <3>2 DEF Agent
  <2> HIDE DEF g
  <2>5. stack' \in Seq(Agent) /\ Len(stack') = 1 /\ stack'[1] = g /\ DOMAIN stack' = {1} /\ ~IsChild' /\ top' = g
    <3>1. stack' \in Seq(Agent) /\ Len(stack') = 1 /\ stack'[1] = g /\ DOMAIN stack' = {1}
      BY <2>1, <2>4
    <3> QED
      BY <3>1 DEF IsChild, top
  <2>6. SoundAgent(g)
    BY <2>2, <2>4 DEF SoundAgent
  <2>7. Agents'
    BY <2>2, <2>4, <2>5, <2>6 DEF Agents
  <2>8. ASSUME NEW n \in DOMAIN stack'
        PROVE  /\ n \in DOMAIN stack /\ stack'[n].scope = stack[n].scope /\ stack[n].seen \subseteq stack'[n].seen
               /\ stack'[n].ids \in Seq(ScopedId)
               /\ Upcoming(n) \in Nat /\ Upcoming(n)' \in Nat
               /\ \/ stack'[n].ids = stack[n].ids /\ Upcoming(n) <= Upcoming(n)'
                  \/ \A j \in DOMAIN stack'[n].ids : stack'[n].ids[j] \notin stack[n].seen
    <3>1. n = 1 /\ stack'[n] = g /\ stack[n] = f
      BY <2>5
    <3>2. f.index \in Nat /\ f.ids \in Seq(ScopedId)
      BY <2>2 DEF Agent
    <3>3. Upcoming(n) = f.index + 1
      BY <2>2, <3>1 DEF Upcoming
    <3>4. Upcoming(n)' = g.index + 1
      BY <2>1, <3>1 DEF Upcoming, Acting
    <3> HIDE DEF f
    <3> QED
      BY <2>2, <2>4, <3>1, <3>2, <3>3, <3>4
  <2>9. stack[1].delegations \in Nat /\ stack'[1].delegations = stack[1].delegations
    BY <2>2, <2>4, <2>5 DEF Agent
  <2>10. stack'[1].delegations \in Nat /\ stack[1].delegations <= stack'[1].delegations /\ pc' \notin Deciding
    BY <2>1, <2>9 DEF Deciding
  <2>11. Deeds'
    BY <1>1, <2>8, <2>9, <2>10, DeedsCarry
  <2>12. Stage'
    <3>1. outcome = None
      BY DEF Stage
    <3>2. top'.index <= Len(top'.response)
      BY <2>2, <2>4, <2>5
    <3> QED
      BY <2>1, <2>5, <3>1, <3>2 DEF Stage, Deciding, Acting
  <2>13. Verdict'
    BY <2>1 DEF Verdict
  <2> QED
    BY <2>7, <2>11, <2>12, <2>13
<1>3. CASE ~IsChild
  <2> DEFINE g == Frame(h, Tool, 0)
  <2>1. stack' = <<g>> /\ pc' = "idle" /\ outcome' = how
    BY <1>3 DEF Ends
  <2>2. g \in Agent /\ SoundAgent(g) /\ g.scope = 0
    BY FrameIsAnAgent
  <2> HIDE DEF g
  <2>3. stack' \in Seq(Agent) /\ Len(stack') = 1 /\ stack'[1] = g /\ DOMAIN stack' = {1}
    BY <2>1, <2>2
  <2>4. ~IsChild' /\ top' = g
    BY <2>3 DEF IsChild, top
  <2>5. Agents'
    BY <2>2, <2>3, <2>4 DEF Agents
  <2>6. pc' \notin Deciding /\ calls <= calls'
    BY <2>1 DEF Deciding
  <2>7. Deeds'
    BY <1>1, <2>1, <2>6, DeedsCarry
  <2>8. Stage'
    BY <1>0, <2>1, <2>4 DEF Stage, Deciding, Acting, Outcomes
  <2>9. Verdict'
    BY <2>1 DEF Verdict
  <2> QED
    BY <2>5, <2>7, <2>8, <2>9
<1> QED
  BY <1>2, <1>3

\* An agent's turn fails.
LEMMA FailsStep ==
  ASSUME Agents, Stage, Deeds, NEW h \in Hist, NEW how \in Outcomes, FailsWith(h, how), turn \in Nat,
         pc \notin {"idle", "direct"}, acted' = acted, setup' = setup,
         calls \in Nat, calls' = calls, shell' = "none"
  PROVE  Agents' /\ Stage' /\ Verdict' /\ Deeds'
<1>1. top.rollback \in Hist
  BY TopIsAnAgent DEF Agent
<1>2. preserve_or_rollback(h, top.rollback, top.observed, turn) \in Hist
  BY <1>1, RecordIsAHistory
<1> QED
  BY <1>2, EndsStep DEF FailsWith

\* What is written for the uppermost agent is a history.
LEMMA TopHistories ==
  ASSUME Agents, turn \in Nat, NEW k \in 1..(Len(top.response) + 1)
  PROVE  top.history \in Hist /\ top.rollback \in Hist /\ WithAnswers(k) \in Hist
<1>1. top \in Agent
  BY TopIsAnAgent
<1> DEFINE s == ProviderIds(top.response)
<1>2. top.history \in Hist /\ top.rollback \in Hist /\ top.response \in Seq(ToolCall)
  BY <1>1 DEF Agent
<1> HIDE DEF top
<1>3. DOMAIN s = 1..Len(top.response) /\ Len(top.response) \in Nat /\ \A j \in DOMAIN s : s[j] \in Nat
  <2>1. \A j \in DOMAIN top.response : top.response[j] \in ToolCall
    BY <1>2
  <2> QED
    BY <1>2, <2>1 DEF ProviderIds, ToolCall
<1>4. s \in [1..Len(top.response) -> Nat]
  BY <1>3 DEF ProviderIds
<1>5. s \in Seq(Nat) /\ Len(s) = Len(top.response)
  <2> HIDE DEF s
  <2> QED
    BY <1>3, <1>4
<1>6. SubSeq(s, k, Len(top.response)) \in Seq(Nat)
  <2> HIDE DEF s
  <2> QED
    BY <1>3, <1>5
<1>7. AnswersFrom(k, 1) \in Hist
  <2>1. 1 \in Nat
    OBVIOUS
  <2> QED
    BY <1>6, <2>1, AnswersAreAHistory DEF AnswersFrom
<1>8. WithAnswers(k) \in Hist
  BY <1>2, <1>7 DEF WithAnswers, Hist
<1> QED
  BY <1>2, <1>8

AtWork == Agents /\ Stage /\ Verdict /\ Deeds

\* A call, or a request, at which the turn ends keeps the invariant.
LEMMA EndingActions ==
  ASSUME Plain, AtWork,
         ProviderFails \/ ProviderStopped \/ CallCancelled \/ CallExhausted \/ DecidedCancelled \/ Aborted \/ SubagentAborted
  PROVE  AtWork'
<1>1. Agents /\ Stage /\ Verdict /\ Deeds /\ turn \in Nat /\ calls \in Nat
  <2>1. limits.tool_calls \in Nat
    BY LimitsHold DEF Plain
  <2> QED
    BY <2>1 DEF Plain, AtWork
<1>2. /\ top.index \in 1..(Len(top.response) + 1) /\ top.index \in Nat /\ Len(top.response) \in Nat
      /\ top.history \in Hist
  BY <1>1, TopIsAnAgent, TopHistories DEF SoundAgent
<1>3. WithAnswers(top.index) \in Hist
  BY <1>1, <1>2, TopHistories
<1>4. {"cancelled", "exhausted", "failed", "aborted"} \subseteq Outcomes
  BY DEF Outcomes
<1>5. SUFFICES Agents' /\ Stage' /\ Verdict' /\ Deeds'
  BY DEF AtWork
<1>6. CASE ProviderFails
  <2>1. FailsWith(top.history, "failed") /\ pc = "provider" /\ acted' = acted /\ setup' = setup /\ calls' = calls /\ shell' = "none"
    BY <1>1, <1>6 DEF ProviderFails, ghosts, budget, world, Stage
  <2> QED
    BY <1>1, <1>2, <1>4, <2>1, FailsStep
<1>7. CASE ProviderStopped
  <2>1. PICK how \in {"cancelled", "exhausted"} : FailsWith(top.history, how)
    BY <1>7 DEF ProviderStopped
  <2>2. pc = "provider" /\ acted' = acted /\ setup' = setup /\ calls' = calls /\ shell' = "none"
    BY <1>1, <1>7 DEF ProviderStopped, ghosts, budget, world, Stage
  <2> QED
    BY <1>1, <1>2, <1>4, <2>1, <2>2, FailsStep
<1>8. CASE CallCancelled
  <2>1. PICK h \in Hist : FailsWith(h, "cancelled")
    BY <1>2, <1>3, <1>8 DEF CallCancelled, CancelledAt
  <2>2. pc = "calls" /\ acted' = acted /\ setup' = setup /\ calls' = calls /\ shell' = "none"
    BY <1>1, <1>8 DEF CallCancelled, AtCall, ghosts, budget, world, Stage
  <2> QED
    BY <1>1, <1>4, <2>1, <2>2, FailsStep
<1>9. CASE CallExhausted
  <2>1. FailsWith(WithAnswers(top.index), "exhausted")
    BY <1>9 DEF CallExhausted
  <2>2. pc = "calls" /\ acted' = acted /\ setup' = setup /\ calls' = calls /\ shell' = "none"
    BY <1>1, <1>9 DEF CallExhausted, AtCall, ghosts, budget, world, Stage
  <2> QED
    BY <1>1, <1>3, <1>4, <2>1, <2>2, FailsStep
<1>10. CASE DecidedCancelled
  <2>1. PICK h \in Hist : FailsWith(h, "cancelled")
    BY <1>2, <1>3, <1>10 DEF DecidedCancelled, CancelledAt
  <2>2. pc = "decided" /\ acted' = acted /\ setup' = setup /\ calls' = calls /\ shell' = "none"
    BY <1>10 DEF DecidedCancelled, CallOver, ghosts, budget
  <2> QED
    BY <1>1, <1>4, <2>1, <2>2, FailsStep
<1>11. CASE Aborted
  <2>1. Ends(WithAnswers(top.index), "aborted")
    BY <1>11 DEF Aborted
  <2>2. pc = "decided" /\ acted' = acted /\ setup' = setup /\ calls' = calls /\ shell' = "none"
    BY <1>11 DEF Aborted, CallOver, ghosts, budget
  <2> QED
    BY <1>1, <1>3, <1>4, <2>1, <2>2, EndsStep
<1>12. CASE SubagentAborted
  <2>1. Ends(WithAnswers(top.index + 1), "aborted") /\ pc = "aborted"
    BY <1>12 DEF SubagentAborted
  <2>2. acted' = acted /\ setup' = setup /\ calls' = calls /\ shell' = "none"
    BY <1>1, <1>12, <2>1 DEF SubagentAborted, ghosts, budget, world, Stage
  <2>3. top.index + 1 \in 1..(Len(top.response) + 1)
    BY <1>1, <1>2, <2>1 DEF Stage, Acting
  <2>4. WithAnswers(top.index + 1) \in Hist
    BY <1>1, <2>3, TopHistories
  <2> QED
    BY <1>1, <1>4, <2>1, <2>2, <2>4, EndsStep
<1> QED
  BY <1>6, <1>7, <1>8, <1>9, <1>10, <1>11, <1>12

\* The facts of a call stay what they are while the call and its walk do.
LEMMA FactsStay ==
  ASSUME Call' = Call, walk' = walk, setup' = setup
  PROVE  CallFacts' = CallFacts /\ mode' = mode
BY DEF CallFacts, mode

\* A step of the world around an agent, which stays where it is.
LEMMA StillStep ==
  ASSUME Plain, AtWork, UNCHANGED <<stack, pc, setup, calls, acted, outcome, decided>>,
         shell' = shell \/ (pc \in {"shell", "direct"} /\ shell' # "none"),
         walk' = walk \/ pc = "prepare"
  PROVE  AtWork'
<1>1. Agents /\ Stage /\ Verdict /\ Deeds /\ calls \in Nat
  <2>1. limits.tool_calls \in Nat
    BY LimitsHold DEF Plain
  <2> QED
    BY <2>1 DEF Plain, AtWork
<1>2. calls' \in Nat /\ calls <= calls' /\ pc' = pc
  BY <1>1
<1>3. Agents' /\ Deeds' /\ top' = top /\ Call' = Call /\ (IsChild' <=> IsChild)
  BY <1>1, <1>2, QuietStep
<1>4. Stage'
  BY <1>1, <1>3 DEF Stage
<1>5. Verdict'
  <2>1. CASE walk' = walk
    <3>1. CallFacts' = CallFacts /\ mode' = mode
      BY <1>3, <2>1, FactsStay
    <3> QED
      BY <1>1, <3>1 DEF Verdict
  <2>2. CASE pc = "prepare"
    BY <2>2 DEF Verdict
  <2> QED
    BY <2>1, <2>2
<1> QED
  BY <1>3, <1>4, <1>5 DEF AtWork

\* The processes, the clock, whoever cancels and whoever changes the directory
\* leave an agent where it is.
LEMMA WorldActions ==
  ASSUME Plain, AtWork,
         \/ StatAt \/ ReadLinkAt \/ OpenAt \/ WalkTimesOut
         \/ \E left \in BOOLEAN : ShellKilled(left)
         \/ \E held \in BOOLEAN : ShellExits(held)
         \/ HolderEnds \/ Cancel \/ Expire
         \/ \E b \in Binding : Swap(b)
  PROVE  AtWork'
<1>1. ASSUME NEW from, NEW to, Walks(from, to)
      PROVE  AtWork'
  BY <1>1, StillStep DEF Walks, budget, ghosts
<1>2. CASE StatAt \/ ReadLinkAt \/ OpenAt \/ WalkTimesOut
  BY <1>1, <1>2 DEF StatAt, ReadLinkAt, OpenAt, WalkTimesOut
<1>3. ASSUME NEW left \in BOOLEAN, ShellKilled(left)
      PROVE  AtWork'
  <2>1. pc \in {"shell", "direct"} /\ shell' # "none" /\ walk' = walk
    BY <1>3 DEF ShellKilled
  <2> QED
    BY <1>3, <2>1, StillStep DEF ShellKilled, budget, ghosts
<1>4. ASSUME NEW held \in BOOLEAN, ShellExits(held)
      PROVE  AtWork'
  <2>1. pc \in {"shell", "direct"} /\ shell' # "none" /\ walk' = walk
    BY <1>4 DEF ShellExits
  <2> QED
    BY <1>4, <2>1, StillStep DEF ShellExits, budget, ghosts
<1>5. CASE HolderEnds
  <2>1. pc \in {"shell", "direct"} /\ shell' # "none" /\ walk' = walk
    BY <1>5 DEF HolderEnds
  <2> QED
    BY <1>5, <2>1, StillStep DEF HolderEnds, budget, ghosts
<1>6. CASE Cancel
  BY <1>6, StillStep DEF Cancel, world, ghosts
<1>7. CASE Expire
  BY <1>7, StillStep DEF Expire, world, ghosts
<1>8. ASSUME NEW b \in Binding, Swap(b)
      PROVE  AtWork'
  BY <1>8, StillStep DEF Swap, budget, ghosts
<1> QED
  BY <1>2, <1>3, <1>4, <1>5, <1>6, <1>7, <1>8

\* The decision, of the rules or of a human, keeps the invariant.
LEMMA DecisionActions ==
  ASSUME Plain, AtWork,
         \/ CallsDone \/ WalkDone \/ Decide \/ ApprovalStopped
         \/ \E d \in {"approve", "deny", "abort_turn"} : Human(d)
  PROVE  AtWork'
<1>1. Agents /\ Stage /\ Verdict /\ Deeds /\ calls \in Nat
  <2>1. limits.tool_calls \in Nat
    BY LimitsHold DEF Plain
  <2> QED
    BY <2>1 DEF Plain, AtWork
<1>2. ASSUME UNCHANGED <<stack, setup, calls, acted, outcome, world>>,
             pc \in {"calls"} \cup Deciding, pc' \in {"charge"} \cup Deciding,
             pc' \in Deciding => pc \in Deciding
      PROVE  Agents' /\ Deeds' /\ Stage' /\ CallFacts' = CallFacts /\ mode' = mode
  <2>1. calls' \in Nat /\ calls <= calls' /\ pc \notin Acting /\ pc \notin {"idle", "direct"}
    BY <1>1, <1>2 DEF Deciding, Acting
  <2>2. Agents' /\ Deeds' /\ top' = top /\ Call' = Call /\ (IsChild' <=> IsChild)
    BY <1>1, <1>2, <2>1, QuietStep
  <2>3. CallFacts' = CallFacts /\ mode' = mode
    BY <1>2, <2>2, FactsStay DEF world
  <2>4. Stage'
    BY <1>1, <1>2, <2>2 DEF Stage, Deciding, Acting, world
  <2> QED
    BY <2>2, <2>3, <2>4
<1>3. CASE CallsDone
  <2>1. Agents' /\ Deeds' /\ Stage'
    BY <1>2, <1>3 DEF CallsDone, Deciding, budget, ghosts
  <2> QED
    BY <1>3, <2>1 DEF AtWork, Verdict, CallsDone
<1>4. CASE WalkDone
  <2>1. Agents' /\ Deeds' /\ Stage'
    BY <1>2, <1>4 DEF WalkDone, Deciding, budget, ghosts
  <2> QED
    BY <1>4, <2>1 DEF AtWork, Verdict, WalkDone
<1>5. CASE Decide
  <2>1. pc = "decide" /\ pc' \in {"approve", "decided"} /\ UNCHANGED <<stack, setup, calls, acted, outcome, world>>
    BY <1>5 DEF Decide, budget, ghosts
  <2>2. Agents' /\ Deeds' /\ Stage' /\ CallFacts' = CallFacts /\ mode' = mode
    BY <1>2, <2>1 DEF Deciding
  <2> DEFINE d == RulesDecide(setup.rules, CallFacts, mode)
  <2>3. /\ pc' = IF d = "prompt" THEN "approve" ELSE "decided"
        /\ decided' = [decision |-> IF d = "run" THEN "approve" ELSE d, human |-> FALSE]
    BY <1>5 DEF Decide
  <2>4. d \in Decision
    BY ModeHolds, RulesAreADecision DEF Plain
  <2>5. RulesDecide(setup.rules, CallFacts, mode)' = d
    BY <2>1, <2>2
  <2> HIDE DEF d
  <2>6. decided'.decision = "approve" => d = "run"
    BY <2>3, <2>4 DEF Decision
  <2>7. decided'.human = FALSE
    BY <2>3
  <2>8. Verdict'
    BY <2>3, <2>5, <2>6, <2>7 DEF Verdict
  <2> QED
    BY <2>2, <2>8 DEF AtWork
<1>6. ASSUME NEW d, Human(d)
      PROVE  AtWork'
  <2>1. pc = "approve" /\ pc' = "decided" /\ UNCHANGED <<stack, setup, calls, acted, outcome, world>>
    BY <1>6 DEF Human, budget, ghosts
  <2>2. Agents' /\ Deeds' /\ Stage' /\ CallFacts' = CallFacts /\ mode' = mode
    BY <1>2, <2>1 DEF Deciding
  <2>3. decided'.human = TRUE
    BY <1>6 DEF Human
  <2>4. RulesDecide(setup.rules, CallFacts, mode) = "prompt"
    BY <1>1, <2>1 DEF Verdict
  <2>5. RulesDecide(setup.rules, CallFacts, mode)' = "prompt"
    BY <2>1, <2>2, <2>4
  <2>6. Verdict'
    BY <2>1, <2>3, <2>5 DEF Verdict
  <2> QED
    BY <2>2, <2>6 DEF AtWork
<1>7. CASE ApprovalStopped
  BY <1>6, <1>7 DEF ApprovalStopped
<1> QED
  BY <1>3, <1>4, <1>5, <1>6, <1>7

\* g is the agent f with another history, at another of the same calls.
SameCalls(f, g) ==
  /\ g \in Agent
  /\ g.response = f.response /\ g.ids = f.ids /\ g.auto = f.auto
  /\ g.delegations = f.delegations /\ g.tools = f.tools /\ g.scope = f.scope /\ g.seen = f.seen

\* Such an agent is as sound.
LEMMA SameCallsAreSound ==
  ASSUME NEW f \in Agent, SoundAgent(f), NEW g, SameCalls(f, g), g.index \in 1..(Len(f.response) + 1)
  PROVE  SoundAgent(g)
BY DEF SoundAgent, SameCalls

\* The result of the current call is written, and the call may be passed.
LEMMA AnsweredAgent ==
  ASSUME Agents, top.index <= Len(top.response), turn \in Nat, NEW size \in Nat,
         NEW f, SameCalls(top, f), f.index = top.index
  PROVE  /\ SameCalls(top, Answered(f, size)) /\ SoundAgent(Answered(f, size)) /\ Answered(f, size).index = top.index
         /\ SameCalls(top, Passed(f)) /\ SoundAgent(Passed(f)) /\ Passed(f).index = top.index + 1
<1>1. top \in Agent /\ SoundAgent(top) /\ Call \in ToolCall
  BY TopIsAnAgent
<1>2. top.index \in 1..Len(top.response) /\ top.index + 1 \in 1..(Len(top.response) + 1) /\ Len(top.response) \in Nat
  BY TopIsAnAgent
<1> DEFINE m == ToolMessage(Call.id, size, turn)
<1>3. m \in Msg
  <2>1. Call.id \in Nat
    BY <1>1 DEF ToolCall
  <2>2. <<>> \in Seq(Nat)
    OBVIOUS
  <2> QED
    BY <2>1, <2>2, MessagesAreTyped
<1>4. Append(f.history, m) \in Hist
  <2>1. f.history \in Hist
    BY DEF SameCalls, Agent
  <2> HIDE DEF m
  <2> QED
    BY <1>3, <2>1 DEF Hist
<1>5. Answered(f, size) = [f EXCEPT !.history = Append(f.history, m)]
  BY DEF Answered
<1> HIDE DEF m, top
<1>6. SameCalls(top, Answered(f, size)) /\ Answered(f, size).index = top.index
  BY <1>4, <1>5 DEF SameCalls, Agent
<1>7. SoundAgent(Answered(f, size))
  BY <1>1, <1>2, <1>6, SameCallsAreSound
<1>8. SameCalls(top, Passed(f)) /\ Passed(f).index = top.index + 1
  <2>1. Passed(f) = [f EXCEPT !.index = top.index + 1]
    BY DEF Passed, SameCalls, Agent
  <2>2. top.index + 1 \in Nat
    BY <1>2
  <2> QED
    BY <2>1, <2>2 DEF SameCalls, Agent
<1>9. SoundAgent(Passed(f))
  BY <1>1, <1>2, <1>8, SameCallsAreSound
<1> QED
  BY <1>6, <1>7, <1>8, <1>9

\* The uppermost agent writes, or goes on to its next call.
LEMMA CallsStep ==
  ASSUME Plain, AtWork, NEW g, SameCalls(top, g), SoundAgent(g), stack' = SetTop(g),
         g.index = top.index \/ g.index = top.index + 1,
         pc \in Acting => pc' = "after" \/ g.index = top.index + 1,
         pc \notin {"idle", "direct"}, pc' \in {"calls", "charge", "after"},
         pc' = "after" => g.index = top.index /\ top.index <= Len(top.response),
         acted' = acted, setup' = setup, outcome' = outcome, shell' = "none",
         calls' = calls \/ calls' = calls + 1
  PROVE  AtWork'
<1>1. Agents /\ Stage /\ Verdict /\ Deeds /\ calls \in Nat
  <2>1. limits.tool_calls \in Nat
    BY LimitsHold DEF Plain
  <2> QED
    BY <2>1 DEF Plain, AtWork
<1>2. top \in Agent /\ top.index \in Nat
  BY <1>1, TopIsAnAgent
<1>3. /\ g \in Agent /\ g.scope = top.scope /\ g.delegations = top.delegations /\ g.tools = top.tools
      /\ top.seen \subseteq g.seen /\ g.ids = top.ids /\ g.response = top.response
  BY DEF SameCalls
<1>4. top.index <= g.index /\ (pc \in Acting => pc' \in Acting \/ top.index + 1 <= g.index)
  BY <1>2 DEF Acting
<1>5. calls' \in Nat /\ calls <= calls' /\ pc' \notin Deciding
  BY <1>1 DEF Deciding
<1>6. Agents' /\ Deeds' /\ top' = g /\ (IsChild' <=> IsChild)
  BY <1>1, <1>3, <1>4, <1>5, TopStep
<1>7. Stage'
  <2>1. outcome' = None
    BY <1>1 DEF Stage
  <2>2. pc' = "after" => top'.index <= Len(top'.response)
    BY <1>3, <1>6
  <2> QED
    BY <1>5, <2>1, <2>2 DEF Stage, Deciding, Acting
<1>8. Verdict'
  BY DEF Verdict
<1> QED
  BY <1>6, <1>7, <1>8 DEF AtWork

\* A call that is not run, or whose result is in, keeps the invariant.
LEMMA CallActions ==
  ASSUME Plain, AtWork,
         \/ CallOverLimit \/ Denied \/ ShellReaped \/ AfterCall
         \/ \E size \in {1, LargeResult} : ShellOutput(size)
  PROVE  AtWork'
<1>1. Agents /\ Stage /\ Verdict /\ Deeds /\ turn \in Nat /\ calls \in Nat
  <2>1. limits.tool_calls \in Nat
    BY LimitsHold DEF Plain
  <2> QED
    BY <2>1 DEF Plain, AtWork
<1>2. /\ top \in Agent /\ SoundAgent(top) /\ top.index \in 1..(Len(top.response) + 1)
      /\ top.index \in Nat /\ Len(top.response) \in Nat
  BY <1>1, TopIsAnAgent DEF SoundAgent
<1>3. SameCalls(top, top) /\ top.index = top.index
  BY <1>2 DEF SameCalls
<1>4. 1 \in Nat /\ LargeResult \in Nat
  BY EngineAssumption
<1>5. ASSUME top.index <= Len(top.response), NEW size \in Nat
      PROVE  /\ SameCalls(top, Answered(top, size)) /\ SoundAgent(Answered(top, size)) /\ Answered(top, size).index = top.index
             /\ SameCalls(top, Passed(top)) /\ SoundAgent(Passed(top)) /\ Passed(top).index = top.index + 1
  BY <1>1, <1>3, <1>5, AnsweredAgent
<1>6. CASE CallOverLimit
  <2>1. /\ pc = "calls" /\ pc' = pc /\ top.index <= Len(top.response) /\ stack' = SetTop(Passed(Answered(top, 1)))
        /\ acted' = acted /\ setup' = setup /\ outcome' = outcome /\ shell' = shell /\ calls' = calls
    BY <1>6 DEF CallOverLimit, AtCall, budget, world, ghosts
  <2>2. SameCalls(top, Answered(top, 1)) /\ Answered(top, 1).index = top.index
    BY <1>4, <1>5, <2>1
  <2> DEFINE g == Passed(Answered(top, 1))
  <2>3. SameCalls(top, g) /\ SoundAgent(g) /\ g.index = top.index + 1
    BY <1>1, <1>4, <2>1, <2>2, AnsweredAgent
  <2>4. shell' = "none" /\ pc \notin Acting /\ stack' = SetTop(g)
    BY <1>1, <2>1 DEF Stage, Acting
  <2> HIDE DEF g
  <2> QED
    BY <2>1, <2>3, <2>4, CallsStep
<1>7. CASE Denied
  <2>1. /\ pc = "decided" /\ pc' = "after" /\ stack' = SetTop(Answered(top, 1))
        /\ acted' = acted /\ setup' = setup /\ outcome' = outcome /\ shell' = "none" /\ calls' = calls
    BY <1>7 DEF Denied, CallOver, budget, ghosts
  <2>2. top.index <= Len(top.response) /\ pc \notin Acting
    BY <1>1, <2>1 DEF Stage, Deciding, Acting
  <2> DEFINE g == Answered(top, 1)
  <2>3. SameCalls(top, g) /\ SoundAgent(g) /\ g.index = top.index /\ stack' = SetTop(g)
    BY <1>4, <1>5, <2>1, <2>2
  <2> HIDE DEF g
  <2> QED
    BY <2>1, <2>2, <2>3, CallsStep
<1>8. ASSUME NEW size \in Nat, pc = "shell", ShellResult(size)
      PROVE  AtWork'
  <2>1. /\ pc' = "after" /\ stack' = SetTop(Answered(top, size))
        /\ acted' = acted /\ setup' = setup /\ outcome' = outcome /\ shell' = "none" /\ calls' = calls
    BY <1>8 DEF ShellResult, CallOver, budget, ghosts
  <2>2. top.index <= Len(top.response)
    BY <1>1, <1>8 DEF Stage, Acting
  <2> DEFINE g == Answered(top, size)
  <2>3. SameCalls(top, g) /\ SoundAgent(g) /\ g.index = top.index /\ stack' = SetTop(g)
    BY <1>5, <2>1, <2>2
  <2> HIDE DEF g
  <2> QED
    BY <1>8, <2>1, <2>2, <2>3, CallsStep
<1>9. CASE ShellReaped
  BY <1>4, <1>8, <1>9 DEF ShellReaped
<1>10. CASE \E size \in {1, LargeResult} : ShellOutput(size)
  BY <1>4, <1>8, <1>10 DEF ShellOutput
<1>11. CASE AfterCall
  <2>1. /\ pc = "after" /\ acted' = acted /\ setup' = setup /\ calls' = calls /\ shell' = "none"
    BY <1>1, <1>11 DEF AfterCall, budget, world, ghosts, Stage
  <2>2. top.index <= Len(top.response) /\ top.index + 1 \in 1..(Len(top.response) + 1)
    BY <1>1, <1>2, <2>1 DEF Stage, Acting
  <2>3. CASE cancelled
    <3>1. FailsWith(WithAnswers(top.index + 1), "cancelled")
      BY <1>11, <2>3 DEF AfterCall
    <3>2. WithAnswers(top.index + 1) \in Hist /\ "cancelled" \in Outcomes
      BY <1>1, <2>2, TopHistories DEF Outcomes
    <3> QED
      BY <1>1, <2>1, <3>1, <3>2, FailsStep DEF AtWork
  <2>4. CASE ~cancelled
    <3>1. stack' = SetTop(Passed(top)) /\ pc' = "calls" /\ outcome' = outcome
      BY <1>11, <2>4 DEF AfterCall
    <3> DEFINE g == Passed(top)
    <3>2. SameCalls(top, g) /\ SoundAgent(g) /\ g.index = top.index + 1 /\ stack' = SetTop(g)
      BY <1>4, <1>5, <2>2, <3>1
    <3> HIDE DEF g
    <3> QED
      BY <2>1, <3>1, <3>2, CallsStep
  <2> QED
    BY <2>3, <2>4
<1> QED
  BY <1>6, <1>7, <1>9, <1>10, <1>11

\* The charge of a request or of a call keeps the invariant, and so does what
\* an overflow makes of the history (TurnBudget, compact_overflow).
LEMMA ChargingActions ==
  ASSUME Plain, AtWork, Charge \/ CallCharged \/ Overflow
  PROVE  AtWork'
<1>1. Agents /\ Stage /\ Verdict /\ Deeds /\ turn \in Nat /\ calls \in Nat
  <2>1. limits.tool_calls \in Nat
    BY LimitsHold DEF Plain
  <2> QED
    BY <2>1 DEF Plain, AtWork
<1>2. /\ top \in Agent /\ SoundAgent(top) /\ top.index \in 1..(Len(top.response) + 1)
      /\ top.index \in Nat /\ Len(top.response) \in Nat /\ top.history \in Hist /\ top.rollback \in Hist
  BY <1>1, TopIsAnAgent, TopHistories DEF SoundAgent
<1>3. SameCalls(top, top) /\ top.index = top.index
  BY <1>2 DEF SameCalls
<1>4. CASE Charge
  <2>1. pc = "provider" \/ pc = "charge"
    BY <1>4 DEF Charge
  <2>2. pc = "charge" /\ acted' = acted /\ setup' = setup /\ calls' = calls /\ shell' = "none" /\ shell = "none"
    BY <1>1, <1>4 DEF Charge, world, ghosts, Stage
  <2>3. CASE MayRequest
    <3>1. pc' = "provider" /\ stack' = stack /\ outcome' = outcome
      BY <1>4, <2>3 DEF Charge
    <3>2. calls' \in Nat /\ calls <= calls' /\ pc' \notin Deciding /\ pc \notin Acting
      BY <1>1, <2>2, <3>1 DEF Deciding, Acting
    <3>3. Agents' /\ Deeds' /\ top' = top /\ Call' = Call /\ (IsChild' <=> IsChild)
      BY <1>1, <2>2, <3>1, <3>2, QuietStep
    <3>4. Stage'
      BY <1>1, <2>2, <3>1, <3>3 DEF Stage, Deciding, Acting
    <3>5. Verdict'
      BY <3>1 DEF Verdict
    <3> QED
      BY <3>3, <3>4, <3>5 DEF AtWork
  <2>4. CASE ~MayRequest
    <3>1. FailsWith(top.history, "exhausted") /\ "exhausted" \in Outcomes
      BY <1>4, <2>4 DEF Charge, Outcomes
    <3> QED
      BY <1>1, <1>2, <2>2, <3>1, FailsStep DEF AtWork
  <2> QED
    BY <2>3, <2>4
<1>5. CASE CallCharged
  <2>1. /\ pc = "calls" /\ top.index <= Len(top.response) /\ calls' = calls + 1
        /\ acted' = acted /\ setup' = setup /\ outcome' = outcome /\ shell' = "none" /\ shell = "none"
    BY <1>1, <1>5 DEF CallCharged, AtCall, ghosts, Stage
  <2>2. CASE Call.tool \notin top.tools
    <3>1. stack' = SetTop(Passed(Answered(top, 1))) /\ pc' = pc
      BY <1>5, <2>2 DEF CallCharged
    <3>2. SameCalls(top, Answered(top, 1)) /\ Answered(top, 1).index = top.index
      BY <1>1, <1>3, <2>1, AnsweredAgent
    <3> DEFINE g == Passed(Answered(top, 1))
    <3>3. SameCalls(top, g) /\ SoundAgent(g) /\ g.index = top.index + 1
      BY <1>1, <2>1, <3>2, AnsweredAgent
    <3>4. stack' = SetTop(g) /\ pc \notin Acting
      BY <2>1, <3>1 DEF Acting
    <3> HIDE DEF g
    <3> QED
      BY <2>1, <3>1, <3>3, <3>4, CallsStep
  <2>3. CASE Call.tool \in top.tools
    <3>1. pc' \in {"decide", "prepare"} /\ stack' = stack
      BY <1>5, <2>3 DEF CallCharged
    <3>2. calls' \in Nat /\ calls <= calls' /\ calls < calls' /\ pc' \in Deciding /\ pc \notin Acting
      BY <1>1, <2>1, <3>1 DEF Deciding, Acting
    <3>3. Agents' /\ Deeds' /\ top' = top /\ Call' = Call /\ (IsChild' <=> IsChild)
      BY <1>1, <2>1, <3>1, <3>2, QuietStep
    <3>4. Stage'
      BY <1>1, <2>1, <2>3, <3>1, <3>3 DEF Stage, Deciding, Acting
    <3>5. Verdict'
      BY <3>1 DEF Verdict
    <3> QED
      BY <3>3, <3>4, <3>5 DEF AtWork
  <2> QED
    BY <2>2, <2>3
<1>6. CASE Overflow
  <2> DEFINE h == compact_overflow(top.history)
             dropped == IF top.observed THEN drop_tool_payloads(top.history) ELSE top.history
             kept == preserve_or_rollback(dropped, top.rollback, top.observed, turn)
  <2>1. pc = "provider" /\ acted' = acted /\ setup' = setup /\ calls' = calls /\ shell' = "none"
    BY <1>1, <1>6 DEF Overflow, budget, world, Stage
  <2>2. h \in Hist /\ compact_overflow(top.rollback) \in Hist
    BY <1>2, CompactedIsAHistory
  <2>3. CASE h # top.history
    <3> DEFINE g == [top EXCEPT !.history = h, !.rollback = compact_overflow(@), !.retried = TRUE]
    <3>1. stack' = SetTop(g) /\ pc' = "charge" /\ outcome' = outcome
      BY <1>6, <2>3 DEF Overflow
    <3>2. SameCalls(top, g) /\ g.index = top.index
      <4> HIDE DEF h, top
      <4> QED
        BY <1>2, <2>2 DEF SameCalls, Agent
    <3>3. SoundAgent(g)
      <4> HIDE DEF g
      <4> QED
        BY <1>2, <3>2, SameCallsAreSound
    <3>4. pc \notin Acting
      BY <2>1 DEF Acting
    <3> HIDE DEF g
    <3> QED
      BY <2>1, <3>1, <3>2, <3>3, <3>4, CallsStep
  <2>4. CASE h = top.history
    <3>1. Ends(IF top.observed THEN kept ELSE Append(kept, SystemMessage(1, turn)), "failed") /\ "failed" \in Outcomes
      BY <1>6, <2>4 DEF Overflow, Outcomes
    <3>2. dropped \in Hist
      BY <1>1, <1>2, RecordIsAHistory
    <3>3. kept \in Hist
      <4> HIDE DEF dropped
      <4> QED
        BY <1>1, <1>2, <3>2, RecordIsAHistory
    <3>4. SystemMessage(1, turn) \in Msg
      <4>1. <<>> \in Seq(Nat) /\ 1 \in Nat /\ 0 \in Nat
        OBVIOUS
      <4> QED
        BY <1>1, <4>1, MessagesAreTyped
    <3>5. (IF top.observed THEN kept ELSE Append(kept, SystemMessage(1, turn))) \in Hist
      <4> HIDE DEF kept
      <4> QED
        BY <3>3, <3>4 DEF Hist
    <3> QED
      BY <1>1, <2>1, <3>1, <3>5, EndsStep DEF AtWork
  <2> QED
    BY <2>3, <2>4
<1> QED
  BY <1>4, <1>5, <1>6

\* What Respond makes of an agent f, with the history h and the calls c.
Given(f, h, c, ids, seen) == [f EXCEPT !.history = h, !.response = c, !.ids = ids, !.index = 1, !.seen = seen]

\* The ids of such calls.
Named(ids) == {ids[k] : k \in DOMAIN ids}

\* g is the agent f with calls that have new ids.
NewCalls(f, g) ==
  /\ g \in Agent /\ SoundAgent(g)
  /\ g.scope = f.scope /\ g.delegations = f.delegations /\ g.tools = f.tools
  /\ f.seen \subseteq g.seen
  /\ \A j \in DOMAIN g.ids : g.ids[j] \notin f.seen

\* An agent that is given calls is an agent.
LEMMA GivenCalls ==
  ASSUME NEW f \in Agent, NEW h \in Hist, NEW c \in Seq(ToolCall), NEW ids \in Seq(ScopedId), NEW seen \in SUBSET ScopedId
  PROVE  LET g == Given(f, h, c, ids, seen)
         IN /\ g \in Agent
            /\ g.response = c /\ g.ids = ids /\ g.index = 1 /\ g.seen = seen
            /\ g.auto = f.auto /\ g.scope = f.scope /\ g.delegations = f.delegations /\ g.tools = f.tools
BY DEF Agent, Given

\* The calls of an answer have new ids (CallIds::scoped).
LEMMA RespondedAgent ==
  ASSUME Agents, NEW r \in Responses, NEW h \in Hist, NEW ids, ids = Scoped(r.calls, top.seen)
  PROVE  /\ NewCalls(top, Given(top, h, r.calls, ids, top.seen \cup Named(ids)))
         /\ Given(top, h, r.calls, ids, top.seen \cup Named(ids)).auto = top.auto
<1> DEFINE named == Named(ids)
           g == Given(top, h, r.calls, ids, top.seen \cup named)
<1>1. top \in Agent /\ SoundAgent(top) /\ IsFiniteSet(top.seen)
  BY TopIsAnAgent DEF SoundAgent
<1>2. r.calls \in Seq(ToolCall) /\ auto_continues \in Nat
  BY EngineAssumption
<1>3. NewIds(ids, Len(r.calls), top.seen)
  BY <1>1, <1>2, ScopedAreNew
<1>4. ids \in Seq(ScopedId) /\ Len(ids) = Len(r.calls) /\ DOMAIN ids = 1..Len(ids) /\ Len(ids) \in Nat
  BY <1>3 DEF NewIds
<1>5. named \subseteq ScopedId /\ \A k \in DOMAIN ids : ids[k] \in named
  BY <1>4 DEF Named
<1>6. IsFiniteSet(named)
  <2> DEFINE n == Len(ids)
  <2>1. n \in Nat /\ DOMAIN ids = 1..n
    BY <1>4
  <2> HIDE DEF n, named
  <2>2. IsFiniteSet({ids[k] : k \in 1..n})
    BY ONLY <2>1, NamedAreFinite
  <2>3. named = {ids[k] : k \in 1..n}
    BY <2>1, Zenon DEF named, Named
  <2> QED
    BY <2>2, <2>3
<1>7. IsFiniteSet(top.seen \cup named)
  BY <1>1, <1>6, FS_Union
<1>8. top.seen \cup named \in SUBSET ScopedId
  BY <1>1, <1>5 DEF Agent
<1>9. /\ g \in Agent /\ g.response = r.calls /\ g.ids = ids /\ g.index = 1 /\ g.seen = top.seen \cup named
      /\ g.auto = top.auto /\ g.scope = top.scope /\ g.delegations = top.delegations /\ g.tools = top.tools
  BY <1>1, <1>2, <1>4, <1>8, GivenCalls
<1> HIDE DEF g, named, top
<1>10. SoundAgent(g)
  <2>1. g.index \in 1..(Len(g.response) + 1) /\ Len(g.ids) = Len(g.response)
    BY <1>2, <1>4, <1>9
  <2>2. g.auto <= auto_continues
    BY <1>1, <1>9 DEF SoundAgent
  <2>3. IsFiniteSet(g.seen) /\ \A j \in DOMAIN g.ids : g.ids[j] \in g.seen
    BY <1>5, <1>7, <1>9
  <2>4. \A j, k \in DOMAIN g.ids : g.ids[j] = g.ids[k] => j = k
    BY <1>3, <1>9 DEF NewIds
  <2> QED
    BY <2>1, <2>2, <2>3, <2>4 DEF SoundAgent
<1>11. \A j \in DOMAIN g.ids : g.ids[j] \notin top.seen
  BY <1>3, <1>9 DEF NewIds
<1>12. NewCalls(top, g)
  BY <1>9, <1>10, <1>11 DEF NewCalls
<1> QED
  BY <1>9, <1>12 DEF g, named

\* It is nudged.
LEMMA NudgedAgent ==
  ASSUME NEW f, NEW g, NewCalls(f, g), NEW h \in Hist, g.auto < auto_continues
  PROVE  NewCalls(f, [g EXCEPT !.history = h, !.auto = @ + 1])
<1> DEFINE n == [g EXCEPT !.history = h, !.auto = @ + 1]
<1>1. g \in Agent /\ g.auto \in Nat /\ g.auto + 1 \in Nat /\ auto_continues \in Nat
  BY EngineAssumption DEF NewCalls, Agent
<1>2. /\ n \in Agent /\ n.response = g.response /\ n.ids = g.ids /\ n.index = g.index /\ n.seen = g.seen
      /\ n.auto = g.auto + 1 /\ n.scope = g.scope /\ n.delegations = g.delegations /\ n.tools = g.tools
  BY <1>1 DEF Agent
<1> HIDE DEF n
<1>3. SoundAgent(n)
  BY <1>1, <1>2 DEF NewCalls, SoundAgent
<1>4. NewCalls(f, n)
  BY <1>2, <1>3 DEF NewCalls
<1> QED
  BY <1>4 DEF n

\* An answer of the provider keeps the invariant.
LEMMA RespondAction ==
  ASSUME Plain, AtWork, NEW r \in Responses, Respond(r)
  PROVE  AtWork'
<1>1. Agents /\ Stage /\ Verdict /\ Deeds /\ turn \in Nat /\ calls \in Nat
  <2>1. limits.tool_calls \in Nat
    BY LimitsHold DEF Plain
  <2> QED
    BY <2>1 DEF Plain, AtWork
<1>2. top.history \in Hist /\ top.auto \in Nat
  <2>1. Len(top.response) \in Nat /\ top.index \in 1..(Len(top.response) + 1)
    BY <1>1, TopIsAnAgent DEF SoundAgent
  <2> QED
    BY <1>1, <2>1, TopIsAnAgent, TopHistories DEF Agent
<1>3. r.calls \in Seq(ToolCall) /\ r.thought \in Nat /\ auto_continues \in Nat
  BY EngineAssumption
<1> DEFINE m == AssistantMessage(ProviderIds(r.calls), r.thought, turn)
           h == Append(Staged, m)
           ids == Scoped(r.calls, top.seen)
           g == Given(top, h, r.calls, ids, top.seen \cup Named(ids))
           n == Append(h, Nudge(turn))
<1>4. pc = "provider" /\ acted' = acted /\ setup' = setup /\ calls' = calls /\ shell' = "none"
  BY <1>1 DEF Respond, budget, world, Stage
<1>5. \/ stack' = SetTop(g) /\ pc' = "calls" /\ outcome' = outcome
      \/ /\ stack' = SetTop([g EXCEPT !.history = n, !.auto = @ + 1])
         /\ pc' = "charge" /\ outcome' = outcome /\ top.auto < limits.auto_continues
      \/ Ends(compact(h), "completed")
  BY Zenon DEF Respond, Given, Named
<1>6. m \in Msg /\ Nudge(turn) \in Msg
  <2>1. \A k \in DOMAIN r.calls : r.calls[k] \in ToolCall
    BY <1>3
  <2>2. ProviderIds(r.calls) \in [1..Len(r.calls) -> Nat] /\ Len(r.calls) \in Nat
    BY <1>3, <2>1 DEF ProviderIds, ToolCall
  <2>3. ProviderIds(r.calls) \in Seq(Nat)
    BY <2>2
  <2>4. 1 \in Nat
    OBVIOUS
  <2> QED
    BY <1>1, <1>3, <2>3, <2>4, MessagesAreTyped
<1>7. h \in Hist /\ n \in Hist
  <2>1. Staged \in Hist
    BY <1>2, CompactedIsAHistory DEF Staged
  <2> HIDE DEF m
  <2>2. h \in Hist
    BY <1>6, <2>1 DEF Hist
  <2> HIDE DEF h
  <2> QED
    BY <1>6, <2>2 DEF Hist
<1> HIDE DEF m, h, n, ids
<1>8. NewCalls(top, g) /\ g.auto = top.auto
  <2>1. ids = Scoped(r.calls, top.seen)
    BY DEF ids
  <2> QED
    BY <1>1, <1>7, <2>1, RespondedAgent
<1> HIDE DEF g
<1>9. ASSUME NEW f, NewCalls(top, f), stack' = SetTop(f), pc' \in {"calls", "charge"}, outcome' = outcome
      PROVE  AtWork'
  <2>1. /\ f \in Agent /\ SoundAgent(f) /\ f.scope = top.scope /\ f.delegations = top.delegations /\ f.tools = top.tools
        /\ top.seen \subseteq f.seen /\ \A j \in DOMAIN f.ids : f.ids[j] \notin top.seen
    BY <1>9 DEF NewCalls
  <2>2. calls' \in Nat /\ calls <= calls' /\ pc \notin {"idle", "direct"} /\ pc' \notin Deciding
    BY <1>1, <1>4, <1>9 DEF Deciding
  <2>3. Agents' /\ Deeds' /\ top' = f /\ (IsChild' <=> IsChild)
    BY <1>1, <1>4, <1>9, <2>1, <2>2, TopStep
  <2>4. Stage'
    BY <1>1, <1>4, <1>9 DEF Stage, Deciding, Acting
  <2>5. Verdict'
    BY <1>9 DEF Verdict
  <2> QED
    BY <2>3, <2>4, <2>5 DEF AtWork
<1>10. CASE stack' = SetTop(g) /\ pc' = "calls" /\ outcome' = outcome
  BY <1>8, <1>9, <1>10
<1>11. CASE /\ stack' = SetTop([g EXCEPT !.history = n, !.auto = @ + 1])
            /\ pc' = "charge" /\ outcome' = outcome /\ top.auto < limits.auto_continues
  <2>1. g.auto < auto_continues
    <3>1. limits.auto_continues \in Nat /\ limits.auto_continues <= auto_continues
      BY LimitsHold DEF Plain
    <3> QED
      BY <1>2, <1>3, <1>8, <1>11, <3>1
  <2> DEFINE f == [g EXCEPT !.history = n, !.auto = @ + 1]
  <2>2. NewCalls(top, f)
    BY <1>7, <1>8, <2>1, NudgedAgent
  <2>3. stack' = SetTop(f)
    BY Zenon, <1>11
  <2> HIDE DEF f
  <2> QED
    BY <1>9, <1>11, <2>2, <2>3
<1>12. CASE Ends(compact(h), "completed")
  <2>1. compact(h) \in Hist /\ "completed" \in Outcomes
    BY <1>7, CompactedIsAHistory DEF Outcomes
  <2> QED
    BY <1>1, <1>4, <1>12, <2>1, EndsStep DEF AtWork
<1> QED
  BY <1>5, <1>10, <1>11, <1>12


-----------------------------------------------------------------------------
(* What is done.                                                           *)

\* What Acts appends.
ThisDeed ==
  [scope |-> top.scope, id |-> top.ids[top.index], call |-> Call, object |-> walk.object,
   facts |-> CallFacts, human |-> decided.human, tools |-> top.tools]

\* The facts of a call that may be decided on (CallFacts).
LEMMA CallFactsAreSound ==
  ASSUME WalkInv, Call \in ToolCall, Call.tool \in Tool
  PROVE  /\ CallFacts \in SoundFacts
         /\ CallFacts.tool = Call.tool /\ CallFacts.command = Call.command /\ CallFacts.path = walk.object
         /\ Call.tool = "run_shell" => CallFacts.gated
         /\ walk.object # None /\ matches(setup.sensitive, Components(walk.object)) => CallFacts.gated /\ CallFacts.sensitive
<1> DEFINE opened == walk.at = "opened"
           sensitive == opened /\ matches(setup.sensitive, Components(walk.reached))
           path == IF opened THEN walk.reached ELSE None
           gated == Call.tool = "run_shell" \/ sensitive
<1>1. CallFacts = [tool |-> Call.tool, command |-> Call.command, path |-> path, gated |-> gated, sensitive |-> sensitive]
  BY Zenon DEF CallFacts
<1>2. path \in Path \cup {None} /\ path = walk.object
  BY EngineAssumption DEF WalkInv, Object
<1>3. Call.command \in Command \cup {None} /\ (Call.command # None => Call.tool = "run_shell")
  BY DEF ToolCall
<1>4. walk.object # None => opened /\ walk.object = walk.reached
  BY DEF WalkInv
<1>5. sensitive \in BOOLEAN /\ gated \in BOOLEAN
  OBVIOUS
<1>6. walk.object # None /\ matches(setup.sensitive, Components(walk.object)) => sensitive
  BY <1>4
<1>7. Call.tool = "run_shell" \/ sensitive => gated
  OBVIOUS
<1> HIDE DEF path, gated, sensitive, opened
<1>8. CallFacts \in Facts
  BY <1>1, <1>2, <1>3, <1>5 DEF Facts
<1> QED
  BY <1>1, <1>2, <1>3, <1>6, <1>7, <1>8 DEF SoundFacts

\* Where a call may run, or be put to a human, and is gated, neither side says
\* off; without a human both say auto, or the host always allows it.
LEMMA GatedIsAuthorized ==
  ASSUME Plain, NEW c \in SoundFacts, c.gated, NEW human \in BOOLEAN,
         RulesDecide(setup.rules, c, mode) = IF human THEN "prompt" ELSE "run"
  PROVE  /\ "off" \notin {setup.asked, setup.max_approval}
         /\ \/ human
            \/ {setup.asked, setup.max_approval} = {"auto"}
            \/ /\ AnyAllows(setup.rules.base.always_allowed, c)
               /\ c.sensitive => FirstAllowing(setup.rules.base.always_allowed, c).kind = "path"
<1>1. /\ mode \in Mode /\ setup.rules \in RuleSet
      /\ mode # "off" => "off" \notin {setup.asked, setup.max_approval}
      /\ mode = "auto" => {setup.asked, setup.max_approval} = {"auto"}
  BY ModeHolds DEF Plain
<1>2. c \in Facts
  BY DEF SoundFacts
<1>3. mode # "off"
  BY <1>1, <1>2, OffDeniesWhatIsGated
<1>4. mode \in {"ask", "auto"}
  BY <1>1, <1>3 DEF Mode
<1>5. CASE human
  BY <1>1, <1>3, <1>5
<1>6. CASE mode = "auto"
  BY <1>1, <1>3, <1>6
<1>7. CASE ~human /\ mode = "ask"
  <2>1. RulesDecide(setup.rules, c, "ask") = "run"
    BY <1>7
  <2> QED
    BY <1>1, <1>3, <2>1, HostListsIt
<1> QED
  BY <1>4, <1>5, <1>6, <1>7

\* A command that the host always allows is allowed in each word it runs.
LEMMA HostAllowsWhatRuns ==
  ASSUME Plain, NEW c \in SoundFacts, c.tool = "run_shell", AnyAllows(setup.rules.base.always_allowed, c),
         NEW w \in c.command.runs, c.command # None
  PROVE  HostAllows("run_shell", w)
<1> DEFINE list == setup.rules.base.always_allowed
<1>1. list \in Seq(Rule)
  BY ModeHolds DEF Plain, RuleSet, Policy
<1>2. PICK k \in DOMAIN list : allows(list[k], c)
  BY DEF AnyAllows
<1>3. list[k] \in Rule /\ list[k].tool = "run_shell"
  BY <1>1, <1>2 DEF allows
<1>4. list[k].pattern \in {w, None}
  <2>1. CASE list[k].kind = "tool"
    BY <1>3, <2>1 DEF Rule
  <2>2. CASE list[k].kind = "shell"
    <3>1. c.command.simple /\ list[k].pattern \in c.command.parts
      BY <1>2, <2>2 DEF allows
    <3>2. c.command \in Command
      BY DEF SoundFacts, Facts
    <3>3. c.command.checked /\ \E v \in Word : c.command.parts = {v}
      BY <3>1, <3>2 DEF Command
    <3>4. c.command.runs = c.command.parts
      BY <3>2, <3>3 DEF Command
    <3> QED
      BY <3>1, <3>3, <3>4
  <2>3. CASE list[k].kind = "path"
    BY <1>3, <2>3 DEF Rule
  <2> QED
    BY <1>3, <2>1, <2>2, <2>3 DEF Rule
<1> HIDE DEF list
<1>5. \E j \in DOMAIN list : list[j].tool = "run_shell" /\ list[j].pattern \in {w, None}
  BY <1>3, <1>4
<1> QED
  BY <1>5, Zenon DEF HostAllows, list

\* A path by which the host always allows a call is named by the host.
LEMMA HostNamesThePath ==
  ASSUME Plain, NEW c, AnyAllows(setup.rules.base.always_allowed, c),
         FirstAllowing(setup.rules.base.always_allowed, c).kind = "path"
  PROVE  HostNames(c.path)
<1> DEFINE list == setup.rules.base.always_allowed
<1>1. list \in Seq(Rule)
  BY ModeHolds DEF Plain, RuleSet, Policy
<1>2. PICK k \in DOMAIN list : FirstAllowing(list, c) = list[k] /\ allows(list[k], c)
  BY <1>1, FirstAllows
<1>3. list[k].kind = "path"
  BY <1>2
<1>4. list[k].pattern = c.path
  BY <1>2, <1>3 DEF allows
<1> HIDE DEF list
<1>5. \E j \in DOMAIN list : list[j].kind = "path" /\ list[j].pattern = c.path
  BY <1>3, <1>4
<1> QED
  BY <1>5, Zenon DEF HostNames, list


\* What is done was decided on, for this call and this object.
LEMMA DeedIsSound ==
  ASSUME Plain, WalkInv, AtWork, Runs
  PROVE  ThisDeed \in Deed /\ SoundDeed(ThisDeed)
<1>1. Agents /\ Stage /\ Verdict /\ pc = "decided" /\ decided.decision = "approve"
  BY DEF AtWork, Runs
<1>2. top.index <= Len(top.response) /\ Call.tool \in top.tools
  BY <1>1 DEF Stage, Deciding
<1>3. top \in Agent /\ Call \in ToolCall /\ top.index \in DOMAIN top.ids
  BY <1>1, <1>2, TopIsAnAgent
<1>4. top.scope \in Nat /\ top.tools \in SUBSET Tool /\ top.ids[top.index] \in ScopedId /\ Call.tool \in Tool
  <2> HIDE DEF top
  <2>1. top.ids \in Seq(ScopedId) /\ top.scope \in Nat /\ top.tools \in SUBSET Tool
    BY <1>3 DEF Agent
  <2> QED
    BY <1>2, <1>3, <2>1
<1>5. /\ CallFacts \in SoundFacts
      /\ CallFacts.tool = Call.tool /\ CallFacts.command = Call.command /\ CallFacts.path = walk.object
      /\ Call.tool = "run_shell" => CallFacts.gated
      /\ walk.object # None /\ matches(setup.sensitive, Components(walk.object)) => CallFacts.gated /\ CallFacts.sensitive
  BY <1>3, <1>4, CallFactsAreSound
<1>6. decided.human \in BOOLEAN /\ walk.object \in Object
  BY DEF Plain, WalkInv
<1>7. RulesDecide(setup.rules, CallFacts, mode) = IF decided.human THEN "prompt" ELSE "run"
  BY <1>1 DEF Verdict
<1> DEFINE a == ThisDeed
<1>8. /\ a.scope = top.scope /\ a.id = top.ids[top.index] /\ a.call = Call /\ a.object = walk.object
      /\ a.facts = CallFacts /\ a.human = decided.human /\ a.tools = top.tools
  BY DEF ThisDeed
<1>9. a \in Deed
  BY <1>3, <1>4, <1>5, <1>6 DEF ThisDeed, Deed
<1> HIDE DEF a, top
<1>10. a.scope # 0 => a.call.tool # "delegate_task"
  <2>1. SUFFICES ASSUME top.scope # 0 PROVE "delegate_task" \notin top.tools
    BY <1>2, <1>8
  <2>2. IsChild
    <3>1. Len(stack) \in 1..2 /\ stack[1].scope = 0
      BY <1>1 DEF Agents
    <3> QED
      BY <2>1, <3>1 DEF IsChild, top
  <2> QED
    BY <1>1, <2>2 DEF Agents, IsChild, top
<1>11. Forbidden(setup.rules, a.facts) => a.human /\ a.call.command # None /\ ~a.call.command.checked
  <2>1. SUFFICES ASSUME Forbidden(setup.rules, CallFacts)
                 PROVE  decided.human /\ Call.command # None /\ ~Call.command.checked
    BY <1>8
  <2>2. mode \in Mode /\ setup.rules \in RuleSet
    BY ModeHolds DEF Plain
  <2>3. RulesDecide(setup.rules, CallFacts, mode) # "run"
    BY <1>5, <2>1, <2>2, ForbiddenNeverRuns
  <2>4. decided.human /\ RulesDecide(setup.rules, CallFacts, mode) = "prompt"
    BY <1>6, <1>7, <2>3
  <2>5. CallFacts.command # None /\ ~CallFacts.command.checked
    BY <1>5, <2>1, <2>2, <2>4, ForbiddenIsPrompted
  <2> QED
    BY <1>5, <2>4, <2>5
<1>12. a.call.tool = "run_shell" => Authorized(a, \A w \in a.call.command.runs : HostAllows("run_shell", w))
  <2>1. SUFFICES ASSUME Call.tool = "run_shell"
                 PROVE  Authorized(a, \A w \in a.call.command.runs : HostAllows("run_shell", w))
    BY <1>8
  <2>2. CallFacts.gated /\ CallFacts.command # None /\ CallFacts.tool = "run_shell"
    BY <1>3, <1>5, <2>1 DEF ToolCall
  <2>3. /\ "off" \notin {setup.asked, setup.max_approval}
        /\ \/ decided.human
           \/ {setup.asked, setup.max_approval} = {"auto"}
           \/ AnyAllows(setup.rules.base.always_allowed, CallFacts)
    BY <1>5, <1>6, <1>7, <2>2, GatedIsAuthorized
  <2>4. AnyAllows(setup.rules.base.always_allowed, CallFacts) =>
          \A w \in CallFacts.command.runs : HostAllows("run_shell", w)
    BY <1>5, <2>2, HostAllowsWhatRuns
  <2>5. a.call.command = CallFacts.command
    BY <1>5, <1>8
  <2>6. AnyAllows(setup.rules.base.always_allowed, CallFacts) =>
          \A w \in a.call.command.runs : HostAllows("run_shell", w)
    BY <2>4, <2>5
  <2> QED
    BY <1>8, <2>3, <2>6 DEF Authorized
<1>13. a.object # "outside" /\ a.object = a.facts.path
  BY <1>5, <1>6, <1>8, EngineAssumption DEF Object
<1>14. ASSUME a.object # None
       PROVE  /\ ~matches(setup.blocked, Components(a.object))
              /\ matches(setup.sensitive, Components(a.object)) => Authorized(a, HostNames(a.object))
  <2>1. walk.at = "opened" /\ walk.object = walk.reached
    BY <1>8, <1>14 DEF WalkInv
  <2>2. ~matches(setup.blocked, Components(a.object))
    BY <1>8, <2>1 DEF WalkInv
  <2>3. ASSUME matches(setup.sensitive, Components(a.object))
        PROVE  Authorized(a, HostNames(a.object))
    <3>1. CallFacts.gated /\ CallFacts.sensitive
      BY <1>5, <1>8, <1>14, <2>3
    <3>2. /\ "off" \notin {setup.asked, setup.max_approval}
          /\ \/ decided.human
             \/ {setup.asked, setup.max_approval} = {"auto"}
             \/ /\ AnyAllows(setup.rules.base.always_allowed, CallFacts)
                /\ FirstAllowing(setup.rules.base.always_allowed, CallFacts).kind = "path"
      BY <1>5, <1>6, <1>7, <3>1, GatedIsAuthorized
    <3>3. AnyAllows(setup.rules.base.always_allowed, CallFacts)
            /\ FirstAllowing(setup.rules.base.always_allowed, CallFacts).kind = "path" => HostNames(a.object)
      BY <1>5, <1>8, HostNamesThePath
    <3> QED
      BY <1>8, <3>2, <3>3 DEF Authorized
  <2> QED
    BY <2>2, <2>3
<1>15. a.call.tool \in a.tools
  BY <1>2, <1>8
<1>16. SoundDeed(a)
  BY <1>10, <1>11, <1>12, <1>13, <1>14, <1>15 DEF SoundDeed
<1> QED
  BY <1>9, <1>16 DEF a

\* A deed is added to those of the agents at work; a subagent that starts has a
\* number of its own.
LEMMA DeedsGrow ==
  ASSUME Plain, WalkInv, AtWork, Runs, acted' = Append(acted, ThisDeed), setup' = setup, calls' = calls, pc' \notin Deciding,
         stack'[1].delegations \in Nat, stack[1].delegations <= stack'[1].delegations,
         \A n \in DOMAIN stack' :
           \/ /\ n \in DOMAIN stack /\ stack'[n].scope = stack[n].scope
              /\ stack'[n].seen = stack[n].seen /\ stack'[n].ids = stack[n].ids
              /\ Upcoming(n) \in Nat /\ Upcoming(n)' \in Nat /\ Upcoming(n) <= Upcoming(n)'
              /\ n = Len(stack) => top.index < Upcoming(n)'
           \/ stack'[n].scope \in Nat /\ stack[1].delegations < stack'[n].scope
  PROVE  Deeds'
<1>1. Agents /\ Stage /\ Deeds /\ pc = "decided" /\ pc \in Deciding /\ pc \notin {"idle", "direct"} /\ pc \notin Acting /\ calls \in Nat
  <2>1. limits.tool_calls \in Nat
    BY LimitsHold DEF Plain
  <2> QED
    BY <2>1 DEF AtWork, Runs, Plain, Deciding, Acting
<1>0. stack[1].scope = 0 /\ stack[1].delegations \in Nat
  <2>1. stack[1] \in Agent /\ stack[1].scope = 0
    BY <1>1 DEF Agents
  <2> QED
    BY <2>1 DEF Agent
<1>2. PICK d : d = ThisDeed
  OBVIOUS
<1>3. d \in Deed /\ SoundDeed(d) /\ d.scope = top.scope /\ d.id = top.ids[top.index] /\ acted' = Append(acted, d)
  <2>1. ThisDeed.scope = top.scope /\ ThisDeed.id = top.ids[top.index]
    BY DEF ThisDeed
  <2> QED
    BY <1>2, <2>1, DeedIsSound
<1>4. /\ acted \in Seq(Deed) /\ Len(acted) < calls
      /\ \A k \in DOMAIN acted : SoundDeed(acted[k]) /\ Remembered(acted[k])
      /\ \A j, k \in DOMAIN acted : j # k => <<acted[j].scope, acted[j].id>> # <<acted[k].scope, acted[k].id>>
  BY <1>1 DEF Deeds
<1>5. /\ Len(stack) \in DOMAIN stack /\ stack[Len(stack)] = top /\ DOMAIN stack = 1..Len(stack) /\ Len(stack) \in 1..2
      /\ top \in Agent /\ SoundAgent(top) /\ top.index \in DOMAIN top.ids /\ top.index \in Nat
  <2>1. top.index <= Len(top.response)
    BY <1>1 DEF Stage
  <2> QED
    BY <1>1, <2>1, TopIsAnAgent DEF top
<1> HIDE DEF top
<1>6. /\ acted' \in Seq(Deed) /\ Len(acted') = Len(acted) + 1 /\ DOMAIN acted' = DOMAIN acted \cup {Len(acted) + 1}
      /\ acted'[Len(acted) + 1] = d /\ \A k \in DOMAIN acted : acted'[k] = acted[k]
      /\ Len(acted) + 1 \notin DOMAIN acted /\ Len(acted) \in Nat
  <2> HIDE DEF Deed
  <2> QED
    BY <1>3, <1>4
<1>7. ASSUME NEW k \in DOMAIN acted
      PROVE  <<acted[k].scope, acted[k].id>> # <<d.scope, d.id>>
  <2>1. SUFFICES ASSUME acted[k].scope = top.scope, acted[k].id = top.ids[top.index] PROVE FALSE
    BY <1>3
  <2>2. Remembered(acted[k])
    BY <1>4
  <2>3. Past(top, Upcoming(Len(stack)), acted[k].id)
    BY <1>5, <2>1, <2>2 DEF Remembered
  <2>4. Upcoming(Len(stack)) = top.index
    BY <1>1, <1>5 DEF Upcoming
  <2>5. top.index < top.index
    BY <1>5, <2>1, <2>3, <2>4 DEF Past
  <2> QED
    BY <1>5, <2>5
<1>8. \A j, k \in DOMAIN acted' : j # k => <<acted'[j].scope, acted'[j].id>> # <<acted'[k].scope, acted'[k].id>>
  <2>1. SUFFICES ASSUME NEW j \in DOMAIN acted', NEW k \in DOMAIN acted', j # k
                 PROVE  <<acted'[j].scope, acted'[j].id>> # <<acted'[k].scope, acted'[k].id>>
    OBVIOUS
  <2>2. CASE j \in DOMAIN acted /\ k \in DOMAIN acted
    BY <1>4, <1>6, <2>1, <2>2
  <2>3. CASE j \in DOMAIN acted /\ k = Len(acted) + 1
    BY <1>6, <1>7, <2>3
  <2>4. CASE k \in DOMAIN acted /\ j = Len(acted) + 1
    BY <1>6, <1>7, <2>4
  <2> QED
    BY <1>6, <2>1, <2>2, <2>3, <2>4
<1>9. ASSUME NEW a, SoundDeed(a)
      PROVE  SoundDeed(a)'
  BY <1>9 DEF SoundDeed, Authorized, HostAllows, HostNames
<1>10. \A k \in DOMAIN acted' : SoundDeed(acted[k])'
  <2>1. \A a : SoundDeed(a) => SoundDeed(a)'
    BY <1>9
  <2>2. \A k \in DOMAIN acted' : SoundDeed(acted'[k])
    BY <1>3, <1>4, <1>6
  <2> QED
    BY <2>1, <2>2
<1>11. ASSUME NEW a \in Deed, Remembered(a)
       PROVE  Remembered(a)'
  <2>1. a.scope \in Nat /\ a.scope <= stack[1].delegations /\ stack[1].delegations \in Nat
    <3>1. stack[1].delegations \in Nat
      BY <1>0
    <3> QED
      BY <1>11, <3>1 DEF Remembered, Deed
  <2>2. ASSUME NEW n \in DOMAIN stack', a.scope = stack'[n].scope
        PROVE  Past(stack'[n], Upcoming(n)', a.id)
    <3>1. /\ n \in DOMAIN stack /\ stack'[n].scope = stack[n].scope
          /\ stack'[n].seen = stack[n].seen /\ stack'[n].ids = stack[n].ids
          /\ Upcoming(n) \in Nat /\ Upcoming(n)' \in Nat /\ Upcoming(n) <= Upcoming(n)'
      BY <2>1, <2>2
    <3>2. Past(stack[n], Upcoming(n), a.id)
      BY <1>11, <2>2, <3>1 DEF Remembered
    <3>3. \A j \in DOMAIN stack[n].ids : j \in Nat
      <4>1. stack[n] \in Agent
        BY <1>1, <3>1, TopIsAnAgent
      <4>2. stack[n].ids \in Seq(ScopedId)
        BY <4>1 DEF Agent
      <4> QED
        BY <4>2
    <3> QED
      BY <3>1, <3>2, <3>3 DEF Past
  <2> QED
    BY <2>1, <2>2 DEF Remembered
<1>12. Remembered(d)'
  <2>1. top.scope \in Nat /\ top.scope <= stack[1].delegations /\ stack[1].delegations \in Nat
        /\ \A n \in DOMAIN stack : stack[n].scope = top.scope => n = Len(stack)
    <3>1. stack[1].scope = 0 /\ stack[1].delegations \in Nat
      BY <1>0
    <3>2. CASE IsChild
      BY <1>1, <1>5, <3>1, <3>2 DEF Agents, IsChild
    <3>3. CASE ~IsChild
      BY <1>5, <3>1, <3>3 DEF IsChild
    <3> QED
      BY <3>2, <3>3
  <2>2. ASSUME NEW n \in DOMAIN stack', top.scope = stack'[n].scope
        PROVE  Past(stack'[n], Upcoming(n)', top.ids[top.index])
    <3>1. /\ n \in DOMAIN stack /\ stack'[n].scope = stack[n].scope
          /\ stack'[n].seen = stack[n].seen /\ stack'[n].ids = stack[n].ids
          /\ n = Len(stack) => top.index < Upcoming(n)'
      BY <2>1, <2>2
    <3>2. n = Len(stack) /\ stack'[n].seen = top.seen /\ stack'[n].ids = top.ids /\ top.index < Upcoming(n)'
      BY <1>5, <2>1, <2>2, <3>1
    <3>3. top.ids[top.index] \in top.seen /\ \A j \in DOMAIN top.ids : top.ids[j] = top.ids[top.index] => j = top.index
      BY <1>5 DEF SoundAgent
    <3> QED
      BY <3>2, <3>3 DEF Past
  <2> QED
    BY <1>3, <2>1, <2>2 DEF Remembered
<1>13. \A k \in DOMAIN acted' : Remembered(acted[k])'
  <2>1. \A a : a = d \/ (a \in Deed /\ Remembered(a)) => Remembered(a)'
    BY <1>11, <1>12
  <2>2. \A k \in DOMAIN acted' : acted'[k] = d \/ (acted'[k] \in Deed /\ Remembered(acted'[k]))
    BY <1>4, <1>6
  <2> QED
    BY <2>1, <2>2
<1> QED
  BY <1>4, <1>6, <1>8, <1>10, <1>13, <1>1 DEF Deeds


\* The uppermost agent acts, and stays at the call.
LEMMA ActsStep ==
  ASSUME Plain, WalkInv, AtWork, Runs, Acts, NEW g \in Agent, SoundAgent(g), stack' = SetTop(g),
         g.response = top.response, g.ids = top.ids, g.index = top.index, g.tools = top.tools, g.scope = top.scope,
         g.seen = top.seen, top.delegations <= g.delegations,
         pc' \in {"shell", "after"}, shell' # "none" <=> pc' = "shell",
         setup' = setup, calls' = calls, outcome' = outcome
  PROVE  AtWork'
<1>1. Agents /\ Stage /\ Deeds /\ pc = "decided" /\ pc \notin Acting
  BY DEF AtWork, Runs, Acting
<1>2. /\ stack \in Seq(Agent) /\ Len(stack) \in 1..2 /\ DOMAIN stack = 1..Len(stack) /\ stack[1].scope = 0
      /\ \A n \in DOMAIN stack : stack[n] \in Agent /\ SoundAgent(stack[n])
      /\ top.index <= Len(top.response) /\ stack[Len(stack)] = top
  BY <1>1, TopIsAnAgent DEF Agents, Stage, Deciding, top
<1>3. /\ stack' \in Seq(Agent) /\ Len(stack') = Len(stack) /\ DOMAIN stack' = 1..Len(stack)
      /\ stack'[Len(stack)] = g /\ \A n \in DOMAIN stack : n # Len(stack) => stack'[n] = stack[n]
  BY <1>2 DEF SetTop
<1>4. top' = g /\ (IsChild' <=> IsChild)
  BY <1>2, <1>3 DEF top, IsChild
<1>5. Agents'
  <2>1. \A n \in DOMAIN stack' : SoundAgent(stack'[n])
    BY <1>2, <1>3
  <2>2. CASE IsChild
    <3>1. Len(stack) = 2 /\ stack'[1] = stack[1] /\ stack'[2] = g /\ top = stack[2]
      BY <1>2, <1>3, <2>2 DEF IsChild
    <3> QED
      BY <1>1, <1>2, <1>3, <1>4, <2>1, <2>2, <3>1 DEF Agents, IsChild
  <2>3. CASE ~IsChild
    <3>1. Len(stack) = 1 /\ stack'[1] = g /\ top = stack[1]
      BY <1>2, <1>3, <2>3 DEF IsChild
    <3> QED
      BY <1>1, <1>2, <1>3, <1>4, <2>1, <2>3, <3>1 DEF Agents, IsChild
  <2> QED
    BY <2>2, <2>3
<1>6. stack[1].delegations \in Nat /\ stack'[1].delegations \in Nat /\ stack[1].delegations <= stack'[1].delegations
  <2>1. 1 \in DOMAIN stack /\ stack[1] \in Agent /\ stack'[1] \in Agent
    BY <1>2, <1>3
  <2>2. stack[1].delegations \in Nat /\ stack'[1].delegations \in Nat
    BY <2>1 DEF Agent
  <2>3. CASE 1 = Len(stack)
    BY <1>2, <1>3, <2>2, <2>3
  <2>4. CASE 1 # Len(stack)
    BY <1>3, <2>1, <2>2, <2>4
  <2> QED
    BY <2>2, <2>3, <2>4
<1>7. ASSUME NEW n \in DOMAIN stack'
      PROVE  /\ n \in DOMAIN stack /\ stack'[n].scope = stack[n].scope
             /\ stack'[n].seen = stack[n].seen /\ stack'[n].ids = stack[n].ids
             /\ Upcoming(n) \in Nat /\ Upcoming(n)' \in Nat /\ Upcoming(n) <= Upcoming(n)'
             /\ n = Len(stack) => top.index < Upcoming(n)'
  <2>1. n \in DOMAIN stack /\ n \in 1..Len(stack) /\ stack[n] \in Agent
    BY <1>2, <1>3
  <2>2. stack[n].index \in Nat
    BY <2>1 DEF Agent
  <2>3. CASE n # Len(stack)
    <3>1. n < Len(stack) /\ stack'[n] = stack[n]
      BY <1>2, <1>3, <2>1, <2>3
    <3> QED
      BY <1>3, <2>1, <2>2, <2>3, <3>1 DEF Upcoming
  <2>4. CASE n = Len(stack)
    <3>1. stack[n] = top /\ stack'[n] = g /\ ~(n < Len(stack)) /\ ~(n < Len(stack'))
      BY <1>2, <1>3, <2>4
    <3>2. pc' \in Acting
      BY DEF Acting
    <3>3. Upcoming(n) = top.index /\ Upcoming(n)' = top.index + 1 /\ top.index \in Nat
      BY <1>1, <2>2, <3>1, <3>2 DEF Upcoming
    <3> QED
      BY <2>1, <3>1, <3>3
  <2> QED
    BY <2>3, <2>4
<1>8. Deeds'
  <2>1. acted' = Append(acted, ThisDeed)
    BY DEF Acts, ThisDeed
  <2>2. pc' \notin Deciding
    BY DEF Deciding
  <2> QED
    BY <1>6, <1>7, <2>1, <2>2, DeedsGrow
<1>9. Stage'
  <2>1. outcome' = None
    BY <1>1 DEF Stage
  <2>2. top'.index <= Len(top'.response)
    BY <1>2, <1>4
  <2> QED
    BY <2>1, <2>2 DEF Stage, Deciding, Acting
<1>10. Verdict'
  BY DEF Verdict
<1> QED
  BY <1>5, <1>8, <1>9, <1>10 DEF AtWork

\* An element above another.
LEMMA Pushed ==
  ASSUME NEW S, NEW s \in Seq(S), Len(s) = 1, NEW c \in S
  PROVE  /\ Append(s, c) \in Seq(S) /\ Len(Append(s, c)) = 2 /\ DOMAIN Append(s, c) = {1, 2}
         /\ Append(s, c)[1] = s[1] /\ Append(s, c)[2] = c
<1> DEFINE a == Append(s, c)
<1>1. a \in Seq(S) /\ Len(a) = 2
  OBVIOUS
<1>2. a[1] = s[1] /\ a[2] = c
  <2>1. (\A k \in 1..Len(s) : a[k] = s[k]) /\ a[Len(s) + 1] = c
    BY AppendProperties
  <2> HIDE DEF a
  <2> QED
    BY <2>1
<1>3. DOMAIN a = {1, 2}
  <2> HIDE DEF a
  <2>1. DOMAIN a = 1..2
    BY <1>1
  <2> QED
    BY <2>1
<1> QED
  BY <1>1, <1>2, <1>3

\* A subagent starts, above the root agent.
LEMMA DelegatesStep ==
  ASSUME Plain, WalkInv, AtWork, Runs, Acts, NEW g \in Agent, SoundAgent(g), NEW c \in Agent, SoundAgent(c),
         stack' = Append(SetTop(g), c), Call.tool = "delegate_task",
         g.response = top.response, g.ids = top.ids, g.index = top.index, g.tools = top.tools, g.scope = top.scope,
         g.seen = top.seen, g.delegations = top.delegations + 1,
         c.scope = g.delegations, "delegate_task" \notin c.tools,
         pc' = "charge", shell' = "none", setup' = setup, calls' = calls, outcome' = outcome
  PROVE  AtWork'
<1>1. Agents /\ Stage /\ Deeds /\ pc = "decided" /\ pc \notin Acting
  BY DEF AtWork, Runs, Acting
<1>2. /\ stack \in Seq(Agent) /\ Len(stack) \in 1..2 /\ DOMAIN stack = 1..Len(stack) /\ stack[1].scope = 0
      /\ top.index <= Len(top.response) /\ stack[Len(stack)] = top /\ Call.tool \in top.tools
  BY <1>1, TopIsAnAgent DEF Agents, Stage, Deciding, top
<1>3. Len(stack) = 1 /\ stack[1] = top /\ DOMAIN stack = {1}
  <2>1. ~IsChild
    BY <1>1, <1>2 DEF Agents, IsChild
  <2> QED
    BY <1>2, <2>1 DEF IsChild
<1>4. SetTop(g) \in Seq(Agent) /\ Len(SetTop(g)) = 1 /\ SetTop(g)[1] = g
  BY <1>2, <1>3 DEF SetTop
<1>5. /\ stack' \in Seq(Agent) /\ Len(stack') = 2 /\ DOMAIN stack' = {1, 2}
      /\ stack'[1] = g /\ stack'[2] = c
  BY <1>4, Pushed
<1>6. top \in Agent /\ top.delegations \in Nat /\ top.index \in Nat /\ g.delegations > 0
  <2>1. top \in Agent
    BY <1>1, TopIsAnAgent
  <2> HIDE DEF top
  <2>2. top.delegations \in Nat /\ top.index \in Nat
    BY <2>1 DEF Agent
  <2> QED
    BY <2>1, <2>2
<1>7. top' = c /\ IsChild'
  BY <1>5 DEF top, IsChild
<1>8. Agents'
  <2>1. \A n \in DOMAIN stack' : SoundAgent(stack'[n])
    BY <1>5
  <2>2. stack'[1].scope = 0 /\ stack'[1].index <= Len(stack'[1].response)
    BY <1>2, <1>3, <1>5
  <2> QED
    BY <1>5, <1>6, <2>1, <2>2 DEF Agents
<1>9. ASSUME NEW n \in DOMAIN stack'
      PROVE  \/ /\ n \in DOMAIN stack /\ stack'[n].scope = stack[n].scope
                /\ stack'[n].seen = stack[n].seen /\ stack'[n].ids = stack[n].ids
                /\ Upcoming(n) \in Nat /\ Upcoming(n)' \in Nat /\ Upcoming(n) <= Upcoming(n)'
                /\ n = Len(stack) => top.index < Upcoming(n)'
             \/ stack'[n].scope \in Nat /\ stack[1].delegations < stack'[n].scope
  <2>1. CASE n = 1
    <3>1. Upcoming(1) = top.index
      BY <1>1, <1>3 DEF Upcoming
    <3>2. Upcoming(1)' = top.index + 1
      BY <1>5 DEF Upcoming
    <3> QED
      BY <1>3, <1>5, <1>6, <2>1, <3>1, <3>2
  <2>2. CASE n = 2
    BY <1>3, <1>5, <1>6, <2>2
  <2> QED
    BY <1>5, <2>1, <2>2
<1>10. Deeds'
  <2>1. acted' = Append(acted, ThisDeed)
    BY DEF Acts, ThisDeed
  <2>2. pc' \notin Deciding
    BY DEF Deciding
  <2>3. stack'[1].delegations \in Nat /\ stack[1].delegations <= stack'[1].delegations
    BY <1>3, <1>5, <1>6
  <2> QED
    BY <1>9, <2>1, <2>2, <2>3, DeedsGrow
<1>11. Stage'
  <2>1. outcome' = None
    BY <1>1 DEF Stage
  <2> QED
    BY <2>1 DEF Stage, Deciding, Acting
<1>12. Verdict'
  BY DEF Verdict
<1> QED
  BY <1>8, <1>10, <1>11, <1>12 DEF AtWork


\* A call that runs keeps the invariant.
LEMMA ActingActions ==
  ASSUME Plain, WalkInv, AtWork, ReadObject \/ StartShell \/ Delegate
  PROVE  AtWork'
<1>1. Agents /\ Stage /\ Runs /\ pc = "decided" /\ turn \in Nat
  BY DEF AtWork, Plain, ReadObject, StartShell, Delegate, Runs
<1>2. top \in Agent /\ SoundAgent(top) /\ top.index <= Len(top.response) /\ Call \in ToolCall
  BY <1>1, TopIsAnAgent DEF Stage, Deciding
<1>3. /\ top.index \in 1..(Len(top.response) + 1) /\ SameCalls(top, top) /\ top.delegations \in Nat /\ 1 \in Nat
      /\ top.history \in Hist
  BY <1>2 DEF SoundAgent, SameCalls, Agent
<1>4. CASE ReadObject
  <2> DEFINE f == Answered(top, 1)
             g == [f EXCEPT !.observed = TRUE]
  <2>1. /\ Acts /\ stack' = SetTop(g) /\ pc' = "after" /\ shell' = "none"
        /\ setup' = setup /\ calls' = calls /\ outcome' = outcome
    BY <1>4 DEF ReadObject, CallOver, budget
  <2>2. SameCalls(top, f) /\ SoundAgent(f) /\ f.index = top.index
    BY <1>1, <1>2, <1>3, AnsweredAgent
  <2> HIDE DEF f
  <2>3. SameCalls(top, g) /\ g.index = top.index
    BY <2>2 DEF SameCalls, Agent
  <2> HIDE DEF g
  <2>4. SoundAgent(g)
    BY <1>2, <1>3, <2>3, SameCallsAreSound
  <2>5. /\ g \in Agent /\ g.response = top.response /\ g.ids = top.ids /\ g.tools = top.tools /\ g.scope = top.scope
        /\ g.seen = top.seen /\ top.delegations <= g.delegations
    BY <1>3, <2>3 DEF SameCalls
  <2> QED
    BY <1>1, <2>1, <2>3, <2>4, <2>5, ActsStep
<1>5. CASE StartShell
  <2> DEFINE g == [top EXCEPT !.observed = TRUE]
  <2>1. /\ Acts /\ stack' = SetTop(g) /\ pc' = "shell" /\ shell' = "running"
        /\ setup' = setup /\ calls' = calls /\ outcome' = outcome
    BY <1>5 DEF StartShell, budget
  <2>2. SameCalls(top, g) /\ g.index = top.index
    <3> HIDE DEF top
    <3> QED
      BY <1>2 DEF SameCalls, Agent
  <2> HIDE DEF g
  <2>3. SoundAgent(g)
    BY <1>2, <1>3, <2>2, SameCallsAreSound
  <2>4. /\ g \in Agent /\ g.response = top.response /\ g.ids = top.ids /\ g.tools = top.tools /\ g.scope = top.scope
        /\ g.seen = top.seen /\ top.delegations <= g.delegations
    BY <1>3, <2>2 DEF SameCalls
  <2> QED
    BY <1>1, <2>1, <2>2, <2>3, <2>4, ActsStep
<1>6. CASE Delegate
  <2> DEFINE p == [top EXCEPT !.observed = TRUE, !.delegations = @ + 1]
             prompt == <<SystemMessage(1, turn)>>
             h == Append(prompt, UserMessage(turn))
             start == Frame(prompt, SubagentTools(Call), p.delegations)
             c == [start EXCEPT !.history = h]
  <2>1. /\ Acts /\ shell' = "none" /\ setup' = setup /\ calls' = calls /\ outcome' = outcome
        /\ Call.tool = "delegate_task"
    BY <1>6 DEF Delegate, CallOver, budget
  <2>2. /\ p \in Agent /\ p.response = top.response /\ p.ids = top.ids /\ p.index = top.index /\ p.tools = top.tools
        /\ p.scope = top.scope /\ p.seen = top.seen /\ p.delegations = top.delegations + 1 /\ p.auto = top.auto
        /\ p.history = top.history
    <3> HIDE DEF top
    <3>1. top.delegations + 1 \in Nat
      BY <1>3
    <3> QED
      BY <1>2, <3>1 DEF Agent
  <2>3. IF Call.tools = None
          THEN stack' = SetTop(Answered(p, 1)) /\ pc' = "after"
          ELSE stack' = Append(SetTop(p), c) /\ pc' = "charge"
    BY <1>6, Zenon DEF Delegate
  <2> HIDE DEF p
  <2>4. SoundAgent(p)
    BY <1>2, <2>2 DEF SoundAgent
  <2>5. CASE Call.tools = None
    <3> DEFINE g == Answered(p, 1)
    <3>1. /\ g \in Agent /\ g.response = top.response /\ g.ids = top.ids /\ g.index = top.index /\ g.tools = top.tools
          /\ g.scope = top.scope /\ g.seen = top.seen /\ g.delegations = top.delegations + 1 /\ g.auto = top.auto
      <4> DEFINE m == ToolMessage(Call.id, 1, turn)
      <4>1. m \in Msg
        <5>1. Call.id \in Nat
          BY <1>2 DEF ToolCall
        <5>2. <<>> \in Seq(Nat)
          OBVIOUS
        <5> QED
          BY <1>1, <1>3, <5>1, <5>2, MessagesAreTyped
      <4> HIDE DEF m
      <4>2. Append(p.history, m) \in Hist
        BY <1>3, <2>2, <4>1 DEF Hist
      <4>3. g = [p EXCEPT !.history = Append(p.history, m)]
        BY DEF Answered, m
      <4> HIDE DEF g, top
      <4> QED
        BY <2>2, <4>2, <4>3 DEF Agent
    <3>2. stack' = SetTop(g) /\ pc' = "after"
      BY <2>3, <2>5
    <3> HIDE DEF g
    <3>3. SoundAgent(g)
      BY <1>2, <3>1 DEF SoundAgent
    <3>4. top.delegations <= g.delegations
      <4> HIDE DEF top
      <4> QED
        BY <1>3, <3>1
    <3> QED
      BY <1>1, <2>1, <3>1, <3>2, <3>3, <3>4, ActsStep
  <2>6. CASE Call.tools # None
    <3>1. SystemMessage(1, turn) \in Msg /\ UserMessage(turn) \in Msg
      <4>1. <<>> \in Seq(Nat) /\ 0 \in Nat
        OBVIOUS
      <4> QED
        BY <1>1, <1>3, <4>1, MessagesAreTyped
    <3>2. prompt \in Hist /\ h \in Hist
      BY <3>1 DEF Hist
    <3>3. SubagentTools(Call) \in SUBSET Tool /\ "delegate_task" \notin SubagentTools(Call)
      <4>1. top.tools \in SUBSET Tool
        <5> HIDE DEF top
        <5> QED
          BY <1>2 DEF Agent
      <4> QED
        BY <4>1 DEF SubagentTools
    <3> HIDE DEF prompt, h
    <3>4. p.delegations \in Nat
      BY <1>3, <2>2
    <3>5. /\ start \in Agent /\ SoundAgent(start) /\ start.scope = p.delegations /\ start.tools = SubagentTools(Call)
      BY <3>2, <3>3, <3>4, FrameIsAnAgent
    <3> HIDE DEF start
    <3>6. /\ c \in Agent /\ c.response = start.response /\ c.ids = start.ids /\ c.index = start.index /\ c.seen = start.seen
          /\ c.auto = start.auto /\ c.scope = start.scope /\ c.tools = start.tools
      BY <3>2, <3>5 DEF Agent
    <3>7. stack' = Append(SetTop(p), c) /\ pc' = "charge"
      BY <2>3, <2>6
    <3> HIDE DEF c
    <3>8. SoundAgent(c)
      BY <3>5, <3>6 DEF SoundAgent
    <3>9. c.scope = p.delegations /\ "delegate_task" \notin c.tools
      BY <3>3, <3>5, <3>6
    <3> QED
      BY <1>1, <2>1, <2>2, <2>4, <3>6, <3>7, <3>8, <3>9, DelegatesStep
  <2> QED
    BY <2>5, <2>6
<1> QED
  BY <1>4, <1>5, <1>6


-----------------------------------------------------------------------------
(* Turns, one after the other.                                             *)

\* Nothing has been done when a turn starts.
LEMMA NothingDone ==
  ASSUME acted' = <<>>, calls' \in Nat, pc' \notin Deciding
  PROVE  Deeds'
<1>1. acted' \in Seq(Deed) /\ Len(acted') = 0 /\ DOMAIN acted' = {}
  OBVIOUS
<1> QED
  BY <1>1 DEF Deeds

\* The start of a turn, and a command that the user types, keep the invariant.
LEMMA StartingActions ==
  ASSUME Plain, AtWork, StartTurn \/ DirectCaptured \/ DirectStarts \/ DirectDone
  PROVE  AtWork'
<1>1. Agents /\ Stage /\ Verdict /\ Deeds /\ turn \in Nat /\ calls \in Nat
  <2>1. limits.tool_calls \in Nat
    BY LimitsHold DEF Plain
  <2> QED
    BY <2>1 DEF Plain, AtWork
<1>2. pc \in {"idle", "direct"} /\ ~IsChild
  BY <1>1 DEF StartTurn, DirectCaptured, DirectStarts, DirectBegins, DirectDone, Stage
<1>3. None \notin Outcomes /\ {"completed", "cancelled", "failed"} \subseteq Outcomes
  BY EngineAssumption DEF Outcomes
<1>4. CASE StartTurn
  <2> DEFINE h == top.history
             i == Append(h, UserMessage(turn + 1))
             f == Frame(i, Tool, 0)
             g == [f EXCEPT !.rollback = h]
  <2>1. /\ pc = "idle" /\ pc' = "charge" /\ stack' = <<g>> /\ acted' = <<>> /\ calls' = 0
        /\ outcome' = None /\ shell' = shell
    BY <1>4 DEF StartTurn, world
  <2>2. h \in Hist
    <3>1. 1 \in 1..(Len(top.response) + 1)
      BY <1>1, TopIsAnAgent
    <3> QED
      BY <1>1, <3>1, TopHistories
  <2>3. UserMessage(turn + 1) \in Msg
    <3>1. <<>> \in Seq(Nat) /\ 0 \in Nat /\ turn + 1 \in Nat
      BY <1>1
    <3> QED
      BY <3>1, MessagesAreTyped
  <2> HIDE DEF h
  <2>4. i \in Hist
    BY <2>2, <2>3 DEF Hist
  <2> HIDE DEF i
  <2>5. f \in Agent /\ SoundAgent(f) /\ f.scope = 0
    BY <2>4, FrameIsAnAgent
  <2> HIDE DEF f
  <2>6. /\ g \in Agent /\ g.response = f.response /\ g.ids = f.ids /\ g.index = f.index /\ g.seen = f.seen
        /\ g.auto = f.auto /\ g.scope = f.scope
    BY <2>2, <2>5 DEF Agent
  <2> HIDE DEF g
  <2>7. SoundAgent(g)
    BY <2>5, <2>6 DEF SoundAgent
  <2>8. stack' \in Seq(Agent) /\ Len(stack') = 1 /\ stack'[1] = g /\ DOMAIN stack' = {1} /\ ~IsChild'
    <3>1. stack' \in Seq(Agent) /\ Len(stack') = 1 /\ stack'[1] = g /\ DOMAIN stack' = {1}
      BY <2>1, <2>6
    <3> QED
      BY <3>1 DEF IsChild
  <2>9. Agents'
    BY <2>5, <2>6, <2>7, <2>8 DEF Agents
  <2>10. Stage'
    BY <1>1, <2>1, <2>8 DEF Stage, Deciding, Acting
  <2>11. Deeds'
    BY <2>1, NothingDone DEF Deciding
  <2>12. Verdict'
    BY <2>1 DEF Verdict
  <2> QED
    BY <2>9, <2>10, <2>11, <2>12 DEF AtWork
<1>5. ASSUME stack' = stack, pc' \in {"idle", "direct"}, outcome' \in Outcomes \cup {None},
             pc' = "idle" <=> outcome' # None, shell' # "none" <=> pc' = "direct"
      PROVE  Agents' /\ Stage' /\ Verdict'
  <2>1. Agents' /\ (IsChild' <=> IsChild)
    BY <1>1, <1>5 DEF Agents, IsChild
  <2>2. Stage'
    BY <1>2, <1>5, <2>1 DEF Stage, Deciding, Acting, Outcomes
  <2>3. Verdict'
    BY <1>5 DEF Verdict
  <2> QED
    BY <2>1, <2>2, <2>3
<1>6. CASE DirectCaptured
  <2>1. /\ stack' = stack /\ pc = "idle" /\ pc' = "idle" /\ acted' = <<>> /\ calls' = 0
        /\ outcome' \in {"completed", "failed"} /\ shell' = "none"
    BY <1>1, <1>6 DEF DirectCaptured, DirectBegins, Stage
  <2>2. Agents' /\ Stage' /\ Verdict'
    BY <1>3, <1>5, <2>1
  <2>3. Deeds'
    BY <2>1, NothingDone DEF Deciding
  <2> QED
    BY <2>2, <2>3 DEF AtWork
<1>7. CASE DirectStarts
  <2>1. /\ stack' = stack /\ pc' = "direct" /\ acted' = <<>> /\ calls' = 0
        /\ outcome' = None /\ shell' = "running"
    BY <1>7 DEF DirectStarts, DirectBegins
  <2>2. Agents' /\ Stage' /\ Verdict'
    BY <1>3, <1>5, <2>1
  <2>3. Deeds'
    BY <2>1, NothingDone DEF Deciding
  <2> QED
    BY <2>2, <2>3 DEF AtWork
<1>8. CASE DirectDone
  <2>1. /\ stack' = stack /\ pc = "direct" /\ pc' = "idle" /\ acted' = acted /\ setup' = setup /\ calls' = calls
        /\ shell' = "none"
    BY <1>8 DEF DirectDone, ghosts, budget
  <2>2. outcome' \in {"completed", "cancelled", "failed"}
    <3>1. /\ shell \in {"closed", "gone"}
          /\ outcome' = CASE shell = "closed" -> "completed"
                           [] shell = "gone"   -> IF cancelled THEN "cancelled" ELSE "failed"
      BY <1>8, Zenon DEF DirectDone
    <3>2. CASE shell = "closed"
      BY <3>1, <3>2
    <3>3. CASE shell = "gone"
      BY <3>1, <3>3
    <3> QED
      BY <3>1, <3>2, <3>3
  <2>3. Agents' /\ Stage' /\ Verdict'
    BY <1>3, <1>5, <2>1, <2>2
  <2>4. calls' \in Nat /\ calls <= calls' /\ pc' \in {"idle", "direct"} /\ pc' \notin Deciding /\ Len(acted) \in Nat
    BY <1>1, <2>1 DEF Deciding, Deeds
  <2>5. Deeds'
    BY <1>1, <2>1, <2>4, DeedsCarry
  <2> QED
    BY <2>3, <2>5 DEF AtWork
<1> QED
  BY <1>4, <1>6, <1>7, <1>8


-----------------------------------------------------------------------------
(* The invariant, and what follows from it.                                *)

\* The first state has the invariant.
LEMMA EngineStarts ==
  ASSUME Init
  PROVE  EngineInv
<1>1. setup \in Setups /\ turn = 0 /\ calls = 0 /\ requests = 0 /\ stops = 0 /\ answers = 0 /\ acted = <<>>
      /\ pc = "idle" /\ outcome = "completed" /\ shell = "none" /\ walk = NoWalk /\ decided = Undecided
      /\ binding = None /\ expired = FALSE /\ cancelled = FALSE /\ evicted = FALSE
  BY DEF Init
<1>2. Plain
  <2>1. /\ limits.provider_requests \in Nat /\ limits.tool_calls \in Nat /\ MaxStops \in Nat /\ MaxAnswers \in Nat
    BY <1>1, LimitsHold, EngineAssumption
  <2>2. decided \in [decision: {"approve", "deny", "abort_turn", "prompt", None}, human: BOOLEAN]
    BY <1>1 DEF Undecided
  <2>3. {expired, cancelled, evicted} \subseteq BOOLEAN
    BY <1>1
  <2>4. requests \in 0..limits.provider_requests /\ calls \in 0..limits.tool_calls
    BY <1>1, <2>1
  <2>5. stops \in 0..MaxStops /\ answers \in 0..MaxAnswers /\ turn \in Nat
    BY <1>1, <2>1
  <2> QED
    BY <1>1, <2>2, <2>3, <2>4, <2>5 DEF Plain
<1>3. WalkInv
  <2>1. walk.at = None /\ walk.object = None /\ walk.reached = None
    BY <1>1 DEF NoWalk
  <2>2. walk \in [at: {None, "stat", "readlink", "open", "opened", "failed"}, reached: Object, object: Object]
    <3>1. None \in Object
      BY DEF Object
    <3> QED
      BY <1>1, <3>1 DEF NoWalk
  <2>3. None \notin {"stat", "readlink", "open", "opened"}
    BY EngineAssumption
  <2> QED
    BY <2>1, <2>2, <2>3 DEF WalkInv
<1>4. Agents /\ ~IsChild
  <2> DEFINE h == <<SystemMessage(1, 0)>>
             f == Frame(h, Tool, 0)
  <2>1. SystemMessage(1, 0) \in Msg
    <3>1. <<>> \in Seq(Nat) /\ 0 \in Nat /\ 1 \in Nat
      OBVIOUS
    <3> QED
      BY <3>1, MessagesAreTyped
  <2>2. h \in Hist
    BY <2>1 DEF Hist
  <2>3. stack = <<f>>
    BY DEF Init
  <2> HIDE DEF h
  <2>4. f \in Agent /\ SoundAgent(f) /\ f.scope = 0
    BY <2>2, FrameIsAnAgent
  <2> HIDE DEF f
  <2>5. stack \in Seq(Agent) /\ Len(stack) = 1 /\ stack[1] = f /\ DOMAIN stack = {1}
    BY <2>3, <2>4
  <2>6. ~IsChild
    BY <2>5 DEF IsChild
  <2> QED
    BY <2>4, <2>5, <2>6 DEF Agents
<1>5. Stage
  <2>1. None # "completed"
    BY EngineAssumption
  <2> QED
    BY <1>1, <1>4, <2>1 DEF Stage, Deciding, Acting
<1>6. Verdict
  BY <1>1 DEF Verdict
<1>7. Deeds
  <2>1. acted \in Seq(Deed) /\ Len(acted) = 0 /\ DOMAIN acted = {}
    BY <1>1
  <2> QED
    BY <1>1, <2>1 DEF Deeds, Deciding
<1> QED
  BY <1>2, <1>3, <1>4, <1>5, <1>6, <1>7 DEF EngineInv

\* Every step keeps the invariant.
LEMMA EngineKeeps ==
  ASSUME EngineInv, [Next]_vars
  PROVE  EngineInv'
<1>1. Plain /\ WalkInv /\ AtWork
  BY DEF EngineInv, AtWork
<1>2. CASE Next
  <2>1. Plain'
    BY <1>1, <1>2, PlainKept
  <2>2. WalkInv'
    BY <1>1, <1>2, WalkKept DEF AtWork
  <2>3. AtWork'
    <3>1. \/ ProviderFails \/ ProviderStopped \/ CallCancelled \/ CallExhausted \/ DecidedCancelled
          \/ Aborted \/ SubagentAborted
          => AtWork'
      BY <1>1, EndingActions
    <3>2. \/ StatAt \/ ReadLinkAt \/ OpenAt \/ WalkTimesOut
          \/ \E left \in BOOLEAN : ShellKilled(left)
          \/ \E held \in BOOLEAN : ShellExits(held)
          \/ HolderEnds \/ Cancel \/ Expire
          \/ \E b \in Binding : Swap(b)
          => AtWork'
      BY <1>1, WorldActions
    <3>3. \/ CallsDone \/ WalkDone \/ Decide \/ ApprovalStopped
          \/ \E d \in {"approve", "deny", "abort_turn"} : Human(d)
          => AtWork'
      BY <1>1, DecisionActions
    <3>4. \/ CallOverLimit \/ Denied \/ ShellReaped \/ AfterCall
          \/ \E size \in {1, LargeResult} : ShellOutput(size)
          => AtWork'
      BY <1>1, CallActions
    <3>5. Charge \/ CallCharged \/ Overflow => AtWork'
      BY <1>1, ChargingActions
    <3>6. (\E r \in Responses : Respond(r)) => AtWork'
      BY <1>1, RespondAction
    <3>7. ReadObject \/ StartShell \/ Delegate => AtWork'
      BY <1>1, ActingActions
    <3>8. StartTurn \/ DirectCaptured \/ DirectStarts \/ DirectDone => AtWork'
      BY <1>1, StartingActions
    <3> QED
      BY <1>2, <3>1, <3>2, <3>3, <3>4, <3>5, <3>6, <3>7, <3>8, Zenon DEF Next, Engine, Environment
  <2> QED
    BY <2>1, <2>2, <2>3 DEF EngineInv, AtWork
<1>3. CASE UNCHANGED vars
  <2>1. UNCHANGED <<stack, pc, setup, calls, acted, outcome, decided, shell, walk, requests, expired, cancelled, evicted,
                    stops, answers, turn, binding>>
    BY <1>3 DEF vars, budget, bounds, world, ghosts
  <2>2. AtWork'
    BY <1>1, <2>1, StillStep
  <2>3. Plain' /\ WalkInv'
    BY <1>1, <2>1 DEF Plain, WalkInv, limits
  <2> QED
    BY <2>2, <2>3 DEF EngineInv, AtWork
<1> QED
  BY <1>2, <1>3

\* The engine's invariant: the agents at work are sound, the call that runs was
\* decided on, and what was done is remembered by the ids that are gone
\* (run_agent_turn_with_budget, run_delegation, CallIds).
THEOREM EngineInvariant == TurnSpec => []EngineInv
<1>1. Init => EngineInv
  BY EngineStarts
<1>2. EngineInv /\ [Next]_vars => EngineInv'
  BY EngineKeeps
<1> QED
  BY <1>1, <1>2, PTL DEF TurnSpec

\* The state is well typed, and a turn with its subagents stays within what the
\* host allows it, whatever the client asked for (TurnBudget, TurnLimits::clamp_to).
THEOREM EngineTypesHold == TurnSpec => []EngineTypeOK
<1>1. EngineInv => EngineTypeOK
  <2> SUFFICES ASSUME EngineInv PROVE EngineTypeOK
    OBVIOUS
  <2>1. Plain /\ WalkInv /\ Agents /\ Stage /\ Deeds
    BY DEF EngineInv
  <2>2. /\ limits.provider_requests \in Nat /\ limits.provider_requests <= provider_requests
        /\ limits.tool_calls \in Nat /\ limits.tool_calls <= tool_calls
        /\ provider_requests \in Nat /\ tool_calls \in Nat /\ auto_continues \in Nat
    BY <2>1, LimitsHold DEF Plain
  <2>3. requests \in 0..provider_requests /\ calls \in 0..tool_calls /\ calls \in Nat
    BY <2>1, <2>2 DEF Plain
  <2>4. Len(acted) <= tool_calls
    <3>1. Len(acted) \in Nat /\ Len(acted) <= calls
      BY <2>1 DEF Deeds
    <3> QED
      BY <2>2, <2>3, <3>1
  <2>5. \A n \in DOMAIN stack : FrameOK(stack[n])
    <3>1. SUFFICES ASSUME NEW f \in Agent, SoundAgent(f) PROVE FrameOK(f)
      BY <2>1, TopIsAnAgent DEF Agents
    <3>2. f.history \in Hist /\ f.auto \in Nat /\ f.tools \in SUBSET Tool
      BY <3>1 DEF Agent
    <3>3. \A k \in DOMAIN f.history : f.history[k] \in Msg
      BY <3>2 DEF Hist
    <3>4. \A k \in DOMAIN f.history : f.history[k].role \in {"system", "user", "assistant", "tool"}
      BY <3>3 DEF Msg, Role
    <3> QED
      BY <2>2, <3>1, <3>2, <3>4 DEF FrameOK, SoundAgent
  <2>6. Len(stack) \in 1..2 /\ (pc = "idle" => Len(stack) = 1)
    BY <2>1 DEF Agents, Stage, IsChild
  <2>7. walk.at \in {None, "stat", "readlink", "open", "opened", "failed"}
    BY <2>1 DEF WalkInv
  <2>8. /\ pc \in {"idle", "charge", "provider", "calls", "prepare", "decide", "approve", "decided", "shell", "direct",
                   "after", "aborted"}
        /\ outcome \in {"completed", "cancelled", "exhausted", "failed", "aborted", None}
        /\ (pc = "idle") = (outcome # None)
        /\ (shell # "none") = (pc \in {"shell", "direct"})
    BY <2>1 DEF Stage, Deciding, Acting
  <2> QED
    BY <2>1, <2>3, <2>4, <2>5, <2>6, <2>7, <2>8 DEF EngineTypeOK, Plain
<1> QED
  BY <1>1, EngineInvariant, PTL

\* Whatever the model asks for, whatever becomes of the directory meanwhile and
\* whichever agent asks: what is done was authorized, for what it is done with,
\* by an agent that was given the tool, and once (engine.rs, policy.rs,
\* prepared.rs, call_id.rs).
THEOREM DeedsAreAuthorized == TurnSpec => []ActedIsAuthorized
<1>1. EngineInv => ActedIsAuthorized
  <2> SUFFICES ASSUME EngineInv PROVE ActedIsAuthorized
    OBVIOUS
  <2>1. /\ \A k \in DOMAIN acted : SoundDeed(acted[k])
        /\ \A j, k \in DOMAIN acted : j # k => <<acted[j].scope, acted[j].id>> # <<acted[k].scope, acted[k].id>>
    BY DEF EngineInv, Deeds
  <2> QED
    BY <2>1, Zenon DEF ActedIsAuthorized, SoundDeed
<1> QED
  BY <1>1, EngineInvariant, PTL

-----------------------------------------------------------------------------
(* Histories in which calls have their answers.                            *)

\* A prompt of the user; the engine's own nudge is none.
Prompt(m) == m.role = "user" /\ m.of = 0

\* The messages that may make calls.
Calling(h) == {k \in DOMAIN h : h[k].role = "assistant"}

\* The answers to a message's calls follow it in order, those that are there,
\* and there are no others.
Paired(h) ==
  /\ \A k \in Calling(h) : \A j \in DOMAIN h[k].calls :
       k + j \in DOMAIN h => h[k + j].role = "tool" /\ h[k + j].of = h[k].calls[j]
  /\ \A k \in Tools(h) : \E j \in Calling(h) : j < k /\ k <= j + Len(h[j].calls)

\* A prompt is answered before the next message of a user.
Prompted(h) ==
  \A k, m \in DOMAIN h : k < m /\ Prompt(h[k]) /\ h[m].role = "user" => \E n \in Calling(h) : k < n /\ n < m

\* The turns follow one another.
Rising(h) == \A k, m \in DOMAIN h : k <= m => h[k].turn <= h[m].turn

\* What holds of a history at any time.
Tidy(h) == Paired(h) /\ Prompted(h) /\ Rising(h)

\* Every call has its answer.
Complete(h) == \A k \in Calling(h) : k + Len(h[k].calls) <= Len(h)

\* Every prompt is answered.
Settled(h) == \A k \in DOMAIN h : Prompt(h[k]) => \E n \in Calling(h) : k < n

\* Nothing in h is later than the turn t.
Until(h, t) == \A k \in DOMAIN h : h[k].turn <= t

UserOf(m, t) == m.role = "user" /\ m.turn = t

\* The turn t has asked something in h.
Asked(h, t) == \E u \in DOMAIN h : UserOf(h[u], t)

\* h ends with a message of the turn t that makes these calls and n answers.
Open(h, ids, n, t) ==
  \E k \in Calling(h) :
    /\ h[k].calls = ids /\ h[k].turn = t /\ Len(h) = k + n
    /\ \E u \in DOMAIN h : u < k /\ UserOf(h[u], t)

\* h has a call of the turn t with this id, with its result.
Recorded(h, id, t) ==
  \E u \in DOMAIN h, k \in Calling(h) : \E j \in DOMAIN h[k].calls :
    /\ u < k /\ UserOf(h[u], t)
    /\ h[k].turn = t /\ h[k].calls[j] = id
    /\ k + j \in DOMAIN h

\* The parts of a history have their types.
LEMMA HistoryFacts ==
  ASSUME NEW h \in Hist
  PROVE  /\ Len(h) \in Nat /\ DOMAIN h = 1..Len(h)
         /\ \A k \in DOMAIN h : /\ h[k] \in Msg /\ h[k].role \in Role /\ h[k].of \in Nat /\ h[k].turn \in Nat
                               /\ h[k].calls \in Seq(Nat) /\ Len(h[k].calls) \in Nat
                               /\ DOMAIN h[k].calls = 1..Len(h[k].calls)
<1>1. Len(h) \in Nat /\ DOMAIN h = 1..Len(h) /\ \A k \in DOMAIN h : h[k] \in Msg
  BY DEF Hist
<1>2. \A m \in Msg : m.role \in Role /\ m.of \in Nat /\ m.turn \in Nat /\ m.calls \in Seq(Nat)
  BY DEF Msg
<1>3. \A c \in Seq(Nat) : Len(c) \in Nat /\ DOMAIN c = 1..Len(c)
  OBVIOUS
<1> QED
  BY <1>1, <1>2, <1>3

\* g is h and something after it.
Grows(h, g) == Len(h) <= Len(g) /\ \A k \in 1..Len(h) : g[k] = h[k]

\* What is on record stays on record.
LEMMA GrowthKeeps ==
  ASSUME NEW h \in Hist, NEW g \in Hist, Grows(h, g), NEW t
  PROVE  /\ Asked(h, t) => Asked(g, t)
         /\ \A id : Recorded(h, id, t) => Recorded(g, id, t)
         /\ (Settled(h) /\ \A k \in (Len(h) + 1)..Len(g) : ~Prompt(g[k])) => Settled(g)
<1>1. /\ Len(h) \in Nat /\ DOMAIN h = 1..Len(h) /\ Len(g) \in Nat /\ DOMAIN g = 1..Len(g)
      /\ \A k \in DOMAIN h : k \in DOMAIN g /\ g[k] = h[k]
  BY HistoryFacts DEF Grows
<1>2. \A k \in Calling(h) : k \in Calling(g)
  BY <1>1 DEF Calling
<1>3. Asked(h, t) => Asked(g, t)
  BY <1>1 DEF Asked
<1>4. ASSUME NEW id, Recorded(h, id, t)
      PROVE  Recorded(g, id, t)
  <2>1. PICK u \in DOMAIN h, k \in Calling(h) : \E j \in DOMAIN h[k].calls :
          /\ u < k /\ UserOf(h[u], t)
          /\ h[k].turn = t /\ h[k].calls[j] = id
          /\ k + j \in DOMAIN h
    BY <1>4 DEF Recorded
  <2>2. k \in DOMAIN h
    BY DEF Calling
  <2> QED
    BY <1>1, <1>2, <2>1, <2>2 DEF Recorded
<1>5. ASSUME Settled(h), \A k \in (Len(h) + 1)..Len(g) : ~Prompt(g[k])
      PROVE  Settled(g)
  <2>1. SUFFICES ASSUME NEW k \in DOMAIN g, Prompt(g[k])
                 PROVE  \E n \in Calling(g) : k < n
    BY DEF Settled
  <2>2. k \in DOMAIN h
    BY <1>1, <1>5, <2>1
  <2>3. PICK n \in Calling(h) : k < n
    BY <1>1, <1>5, <2>1, <2>2 DEF Settled
  <2> QED
    BY <1>2, <2>3
<1> QED
  BY <1>3, <1>4, <1>5

\* A message after a history.
LEMMA OneMore ==
  ASSUME NEW h \in Hist, NEW m \in Msg
  PROVE  /\ Append(h, m) \in Hist /\ Len(Append(h, m)) = Len(h) + 1 /\ Append(h, m)[Len(h) + 1] = m
         /\ \A k \in 1..Len(h) : Append(h, m)[k] = h[k]
         /\ Grows(h, Append(h, m))
<1>1. h \in Seq(Msg)
  BY DEF Hist
<1>2. Append(h, m) \in Hist
  BY <1>1 DEF Hist
<1>3. /\ Len(Append(h, m)) = Len(h) + 1 /\ Append(h, m)[Len(h) + 1] = m
      /\ \A k \in 1..Len(h) : Append(h, m)[k] = h[k]
  BY <1>1
<1>4. Len(h) \in Nat
  BY <1>1
<1> QED
  BY <1>2, <1>3, <1>4 DEF Grows

\* A later message after a history that rises.
LEMMA OneMoreRises ==
  ASSUME NEW h \in Hist, NEW m \in Msg, Rising(h), Until(h, m.turn)
  PROVE  Rising(Append(h, m)) /\ Until(Append(h, m), m.turn)
<1> DEFINE g == Append(h, m)
<1>1. /\ g \in Hist /\ Len(g) = Len(h) + 1 /\ g[Len(h) + 1] = m /\ \A k \in 1..Len(h) : g[k] = h[k]
  BY OneMore
<1>2. Len(h) \in Nat /\ DOMAIN h = 1..Len(h) /\ DOMAIN g = 1..(Len(h) + 1) /\ m.turn \in Nat
  BY <1>1, HistoryFacts DEF Msg
<1> HIDE DEF g
<1>3. \A k \in DOMAIN g : k = Len(h) + 1 \/ k \in DOMAIN h
  BY <1>2
<1>4. Until(g, m.turn)
  BY <1>1, <1>2, <1>3 DEF Until
<1>5. ASSUME NEW k \in DOMAIN g, NEW l \in DOMAIN g, k <= l
      PROVE  g[k].turn <= g[l].turn
  <2>1. CASE l = Len(h) + 1
    BY <1>1, <1>4, <2>1 DEF Until
  <2>2. CASE l # Len(h) + 1
    <3>1. l \in DOMAIN h /\ k \in DOMAIN h
      BY <1>2, <1>5, <2>2
    <3> QED
      BY <1>1, <1>2, <1>5, <3>1 DEF Rising
  <2> QED
    BY <2>1, <2>2
<1>6. Rising(g)
  BY <1>5 DEF Rising
<1> QED
  BY <1>4, <1>6 DEF g

\* A message that is no answer, after a history whose calls are answered.
LEMMA NoAnswer ==
  ASSUME NEW h \in Hist, NEW m \in Msg, m.role # "tool", Paired(h), Complete(h)
  PROVE  /\ Paired(Append(h, m))
         /\ m.role # "assistant" \/ Len(m.calls) = 0 => Complete(Append(h, m))
<1> DEFINE g == Append(h, m)
<1>1. /\ g \in Hist /\ Len(g) = Len(h) + 1 /\ g[Len(h) + 1] = m /\ \A k \in 1..Len(h) : g[k] = h[k]
  BY OneMore
<1>2. Len(h) \in Nat /\ DOMAIN h = 1..Len(h) /\ DOMAIN g = 1..(Len(h) + 1)
  BY <1>1, HistoryFacts
<1>3. /\ \A k \in DOMAIN h : Len(h[k].calls) \in Nat /\ DOMAIN h[k].calls = 1..Len(h[k].calls)
      /\ \A k \in DOMAIN g : Len(g[k].calls) \in Nat /\ DOMAIN g[k].calls = 1..Len(g[k].calls)
  BY <1>1, HistoryFacts
<1> HIDE DEF g
<1>4. \A k \in DOMAIN g : k = Len(h) + 1 \/ k \in DOMAIN h
  BY <1>2
<1>5. ASSUME NEW k \in Calling(g), NEW j \in DOMAIN g[k].calls, k + j \in DOMAIN g
      PROVE  g[k + j].role = "tool" /\ g[k + j].of = g[k].calls[j]
  <2>1. k \in DOMAIN g /\ g[k].role = "assistant" /\ j \in 1..Len(g[k].calls)
    BY <1>3 DEF Calling
  <2>2. k \in DOMAIN h /\ k # Len(h) + 1
    BY <1>2, <1>3, <1>5, <2>1
  <2>3. k \in Calling(h) /\ g[k] = h[k]
    BY <1>1, <1>2, <2>1, <2>2 DEF Calling
  <2>4. k + Len(h[k].calls) <= Len(h)
    BY <2>3 DEF Complete
  <2>5. k + j \in DOMAIN h
    BY <1>2, <1>3, <2>1, <2>2, <2>3, <2>4
  <2> QED
    BY <1>1, <1>2, <2>3, <2>5 DEF Paired
<1>6. ASSUME NEW k \in Tools(g)
      PROVE  \E j \in Calling(g) : j < k /\ k <= j + Len(g[j].calls)
  <2>1. k \in DOMAIN h /\ k \in Tools(h)
    BY <1>1, <1>2, <1>4 DEF Tools
  <2>2. PICK j \in Calling(h) : j < k /\ k <= j + Len(h[j].calls)
    BY <2>1 DEF Paired
  <2>3. j \in Calling(g) /\ g[j] = h[j]
    BY <1>1, <1>2, <2>2 DEF Calling
  <2> QED
    BY <2>2, <2>3
<1>7. Paired(g)
  BY <1>5, <1>6 DEF Paired
<1>8. ASSUME NEW k \in Calling(g), m.role # "assistant" \/ Len(m.calls) = 0
      PROVE  k + Len(g[k].calls) <= Len(g)
  <2>1. CASE k = Len(h) + 1
    <3>1. m.role = "assistant" /\ g[k] = m
      BY <1>1, <2>1 DEF Calling
    <3>2. Len(g[k].calls) = 0
      BY <1>8, <3>1
    <3>3. k + 0 <= Len(g)
      BY <1>1, <1>2, <2>1
    <3> QED
      BY <3>2, <3>3
  <2>2. CASE k # Len(h) + 1
    <3>1. k \in Calling(h) /\ g[k] = h[k] /\ k \in DOMAIN h
      BY <1>1, <1>2, <1>4, <2>2 DEF Calling
    <3> QED
      BY <1>1, <1>2, <1>3, <3>1 DEF Complete
  <2> QED
    BY <2>1, <2>2
<1>9. m.role # "assistant" \/ Len(m.calls) = 0 => Complete(g)
  BY <1>8 DEF Complete
<1> QED
  BY <1>7, <1>9 DEF g

\* A message that is none of a user's, or comes when every prompt is answered.
LEMMA NoPromptBefore ==
  ASSUME NEW h \in Hist, NEW m \in Msg, Prompted(h), m.role # "user" \/ Settled(h)
  PROVE  Prompted(Append(h, m))
<1> DEFINE g == Append(h, m)
<1>1. /\ g \in Hist /\ Len(g) = Len(h) + 1 /\ g[Len(h) + 1] = m /\ \A k \in 1..Len(h) : g[k] = h[k]
  BY OneMore
<1>2. Len(h) \in Nat /\ DOMAIN h = 1..Len(h) /\ DOMAIN g = 1..(Len(h) + 1)
  BY <1>1, HistoryFacts
<1> HIDE DEF g
<1>3. \A n \in Calling(h) : n \in Calling(g) /\ n \in DOMAIN h
  BY <1>1, <1>2 DEF Calling
<1>4. ASSUME NEW k \in DOMAIN g, NEW l \in DOMAIN g, k < l, Prompt(g[k]), g[l].role = "user"
      PROVE  \E n \in Calling(g) : k < n /\ n < l
  <2>1. k \in DOMAIN h /\ g[k] = h[k]
    BY <1>1, <1>2, <1>4
  <2>2. CASE l = Len(h) + 1
    <3>1. Settled(h)
      BY <1>1, <1>4, <2>2
    <3>2. PICK n \in Calling(h) : k < n
      BY <1>4, <2>1, <3>1 DEF Settled
    <3> QED
      BY <1>2, <1>3, <2>2, <3>2
  <2>3. CASE l # Len(h) + 1
    <3>1. l \in DOMAIN h /\ g[l] = h[l]
      BY <1>1, <1>2, <2>3
    <3>2. PICK n \in Calling(h) : k < n /\ n < l
      BY <1>4, <2>1, <3>1 DEF Prompted
    <3> QED
      BY <1>3, <3>2
  <2> QED
    BY <2>2, <2>3
<1>5. Prompted(g)
  BY <1>4 DEF Prompted
<1> QED
  BY <1>5 DEF g

\* A message of a user, after everything was answered.
LEMMA UserAdded ==
  ASSUME NEW h \in Hist, NEW m \in Msg, m.role = "user", Tidy(h), Complete(h), Settled(h), Until(h, m.turn)
  PROVE  /\ Tidy(Append(h, m)) /\ Complete(Append(h, m)) /\ Until(Append(h, m), m.turn) /\ Asked(Append(h, m), m.turn)
         /\ ~Prompt(m) => Settled(Append(h, m))
<1> DEFINE g == Append(h, m)
<1>1. Paired(h) /\ Prompted(h) /\ Rising(h)
  BY DEF Tidy
<1>2. Paired(g) /\ Complete(g)
  BY <1>1, NoAnswer
<1>3. Prompted(g) /\ Rising(g) /\ Until(g, m.turn)
  BY <1>1, NoPromptBefore, OneMoreRises
<1>4. /\ g \in Hist /\ Len(g) = Len(h) + 1 /\ g[Len(h) + 1] = m /\ Grows(h, g)
  BY OneMore
<1> HIDE DEF g
<1>5. Len(h) \in Nat /\ DOMAIN g = 1..(Len(h) + 1) /\ (Len(h) + 1)..Len(g) = {Len(h) + 1}
  BY <1>4, HistoryFacts
<1>6. Asked(g, m.turn)
  BY <1>4, <1>5 DEF Asked, UserOf
<1>7. ~Prompt(m) => Settled(g)
  <2>1. ~Prompt(m) => \A k \in (Len(h) + 1)..Len(g) : ~Prompt(g[k])
    BY <1>4, <1>5
  <2> QED
    BY <1>4, <2>1, GrowthKeeps
<1>8. Tidy(g)
  BY <1>2, <1>3 DEF Tidy
<1> QED
  BY <1>2, <1>3, <1>6, <1>7, <1>8 DEF g

\* A record of the system.
LEMMA SystemAdded ==
  ASSUME NEW h \in Hist, NEW m \in Msg, m.role = "system", Tidy(h), Complete(h), Until(h, m.turn)
  PROVE  /\ Tidy(Append(h, m)) /\ Complete(Append(h, m)) /\ Until(Append(h, m), m.turn)
         /\ Settled(h) => Settled(Append(h, m))
<1> DEFINE g == Append(h, m)
<1>1. Paired(h) /\ Prompted(h) /\ Rising(h)
  BY DEF Tidy
<1>2. Paired(g) /\ Complete(g)
  BY <1>1, NoAnswer
<1>3. Prompted(g) /\ Rising(g) /\ Until(g, m.turn)
  BY <1>1, NoPromptBefore, OneMoreRises
<1>4. /\ g \in Hist /\ Len(g) = Len(h) + 1 /\ g[Len(h) + 1] = m /\ Grows(h, g)
  BY OneMore
<1> HIDE DEF g
<1>5. Settled(h) => Settled(g)
  <2>1. Len(h) \in Nat /\ (Len(h) + 1)..Len(g) = {Len(h) + 1}
    BY <1>4, HistoryFacts
  <2>2. \A k \in (Len(h) + 1)..Len(g) : ~Prompt(g[k])
    BY <1>4, <2>1 DEF Prompt
  <2> QED
    BY <1>4, <2>2, GrowthKeeps
<1>6. Tidy(g)
  BY <1>2, <1>3 DEF Tidy
<1> QED
  BY <1>2, <1>3, <1>5, <1>6 DEF g

\* An answer of the provider.
LEMMA AssistantAdded ==
  ASSUME NEW h \in Hist, NEW m \in Msg, m.role = "assistant", Tidy(h), Complete(h), Until(h, m.turn), Asked(h, m.turn)
  PROVE  /\ Tidy(Append(h, m)) /\ Until(Append(h, m), m.turn) /\ Settled(Append(h, m))
         /\ Open(Append(h, m), m.calls, 0, m.turn)
         /\ Len(m.calls) = 0 => Complete(Append(h, m))
<1> DEFINE g == Append(h, m)
<1>1. Paired(h) /\ Prompted(h) /\ Rising(h)
  BY DEF Tidy
<1>2. Paired(g) /\ (Len(m.calls) = 0 => Complete(g))
  BY <1>1, NoAnswer
<1>3. Prompted(g) /\ Rising(g) /\ Until(g, m.turn)
  BY <1>1, NoPromptBefore, OneMoreRises
<1>4. /\ g \in Hist /\ Len(g) = Len(h) + 1 /\ g[Len(h) + 1] = m /\ \A k \in 1..Len(h) : g[k] = h[k]
  BY OneMore
<1> HIDE DEF g
<1>5. Len(h) \in Nat /\ DOMAIN h = 1..Len(h) /\ DOMAIN g = 1..(Len(h) + 1)
  BY <1>4, HistoryFacts
<1>6. Len(h) + 1 \in Calling(g)
  BY <1>4, <1>5 DEF Calling
<1>7. Settled(g)
  <2>1. ASSUME NEW k \in DOMAIN g, Prompt(g[k])
        PROVE  k < Len(h) + 1
    <3>1. k # Len(h) + 1
      BY <1>4, <2>1 DEF Prompt
    <3> QED
      BY <1>5, <3>1
  <2> QED
    BY <1>6, <2>1 DEF Settled
<1>8. Open(g, m.calls, 0, m.turn)
  <2>1. PICK u \in DOMAIN h : UserOf(h[u], m.turn)
    BY DEF Asked
  <2>2. u \in DOMAIN g /\ u < Len(h) + 1 /\ UserOf(g[u], m.turn)
    BY <1>4, <1>5, <2>1
  <2>3. Len(g) = (Len(h) + 1) + 0
    BY <1>4, <1>5
  <2> QED
    BY <1>4, <1>6, <2>2, <2>3 DEF Open
<1>9. Tidy(g)
  BY <1>2, <1>3 DEF Tidy
<1> QED
  BY <1>2, <1>3, <1>7, <1>8, <1>9 DEF g

\* The calls of the last message are answered when there are as many answers.
LEMMA AllAnswered ==
  ASSUME NEW h \in Hist, NEW ids \in Seq(Nat), NEW t, Paired(h), Open(h, ids, Len(ids), t)
  PROVE  Complete(h)
<1>1. PICK k \in Calling(h) : h[k].calls = ids /\ Len(h) = k + Len(ids)
  BY DEF Open
<1>2. /\ Len(h) \in Nat /\ DOMAIN h = 1..Len(h) /\ k \in 1..Len(h) /\ Len(ids) \in Nat
      /\ \A n \in DOMAIN h : Len(h[n].calls) \in Nat /\ DOMAIN h[n].calls = 1..Len(h[n].calls)
      /\ DOMAIN ids = 1..Len(ids)
  BY HistoryFacts DEF Calling
<1>3. ASSUME NEW n \in Calling(h)
      PROVE  n + Len(h[n].calls) <= Len(h)
  <2>0. n \in 1..Len(h) /\ Len(h[n].calls) \in Nat /\ h[n].role = "assistant" /\ h[k].role = "assistant"
    BY <1>2 DEF Calling
  <2>1. CASE n = k
    BY <1>1, <1>2, <2>1
  <2>2. CASE n > k
    <3>1. n - k \in DOMAIN h[k].calls /\ k + (n - k) = n
      BY <1>1, <1>2, <2>0, <2>2
    <3>2. h[n].role = "tool"
      BY <1>2, <2>0, <3>1 DEF Paired
    <3> QED
      BY <2>0, <3>2
  <2>3. CASE n < k
    <3>1. CASE n + Len(h[n].calls) < k
      BY <1>2, <2>0, <3>1
    <3>2. CASE n + Len(h[n].calls) >= k
      <4>1. k - n \in DOMAIN h[n].calls /\ n + (k - n) = k
        BY <1>2, <2>0, <2>3, <3>2
      <4>2. h[k].role = "tool"
        BY <1>2, <2>0, <4>1 DEF Paired
      <4> QED
        BY <2>0, <4>2
    <3> QED
      BY <1>2, <2>0, <3>1, <3>2
  <2> QED
    BY <1>2, <2>0, <2>1, <2>2, <2>3
<1> QED
  BY <1>3 DEF Complete

\* Answers to the calls of the last message, after those that are there.
Follow(e, ids, n, t) ==
  /\ n + Len(e) <= Len(ids)
  /\ \A k \in DOMAIN e : e[k].role = "tool" /\ e[k].of = ids[n + k] /\ e[k].turn = t

\* More answers to the calls of the last message.
LEMMA AnswersAdded ==
  ASSUME NEW h \in Hist, NEW e \in Hist, NEW ids \in Seq(Nat), NEW n \in Nat, NEW t \in Nat,
         Tidy(h), Until(h, t), Open(h, ids, n, t), Follow(e, ids, n, t)
  PROVE  /\ h \o e \in Hist /\ Grows(h, h \o e)
         /\ Tidy(h \o e) /\ Until(h \o e, t) /\ Open(h \o e, ids, n + Len(e), t)
         /\ Settled(h) => Settled(h \o e)
         /\ \A j \in 1..(n + Len(e)) : Recorded(h \o e, ids[j], t)
<1> DEFINE g == h \o e
<1>1. /\ Len(h) \in Nat /\ DOMAIN h = 1..Len(h) /\ Len(e) \in Nat /\ DOMAIN e = 1..Len(e)
      /\ Len(ids) \in Nat /\ DOMAIN ids = 1..Len(ids)
  BY HistoryFacts
<1>2. g \in Hist /\ Len(g) = Len(h) + Len(e) /\ \A k \in 1..Len(h) : g[k] = h[k]
  BY DEF Hist
<1>3. \A i \in 1..Len(e) : g[Len(h) + i] = e[i]
  BY DEF Hist
<1> HIDE DEF g
<1>4. DOMAIN g = 1..(Len(h) + Len(e)) /\ Grows(h, g) /\ \A k \in DOMAIN h : k \in DOMAIN g /\ g[k] = h[k]
  BY <1>1, <1>2, HistoryFacts DEF Grows
<1>5. PICK a \in Calling(h) : /\ h[a].calls = ids /\ h[a].turn = t /\ Len(h) = a + n
                              /\ \E u \in DOMAIN h : u < a /\ UserOf(h[u], t)
  BY DEF Open
<1>6. /\ a \in DOMAIN h /\ a \in Nat /\ h[a].role = "assistant" /\ Paired(h) /\ Prompted(h) /\ Rising(h)
      /\ n + Len(e) <= Len(ids)
  BY <1>1 DEF Calling, Tidy, Follow
<1>7. \A k \in DOMAIN g : k \in DOMAIN h \/ (k - Len(h) \in DOMAIN e /\ g[k] = e[k - Len(h)])
  <2>1. ASSUME NEW k \in DOMAIN g, k \notin DOMAIN h
        PROVE  k - Len(h) \in DOMAIN e /\ g[k] = e[k - Len(h)]
    <3>1. k - Len(h) \in 1..Len(e) /\ Len(h) + (k - Len(h)) = k
      BY <1>1, <1>4, <2>1
    <3> QED
      BY <1>1, <1>3, <3>1
  <2> QED
    BY <2>1
<1>8. ASSUME NEW k \in DOMAIN g, k \notin DOMAIN h
      PROVE  /\ k - a \in DOMAIN ids /\ a + (k - a) = k
             /\ g[k].role = "tool" /\ g[k].of = ids[k - a] /\ g[k].turn = t
  <2>1. k - Len(h) \in DOMAIN e /\ g[k] = e[k - Len(h)]
    BY <1>7, <1>8
  <2>2. n + (k - Len(h)) = k - a /\ k \in Nat
    BY <1>1, <1>4, <1>5, <1>6
  <2>3. k - a \in DOMAIN ids /\ a + (k - a) = k
    <3>1. k - Len(h) \in 1..Len(e) /\ k - a = n + (k - Len(h))
      BY <1>1, <2>1, <2>2
    <3>2. n + (k - Len(h)) \in 1..Len(ids)
      BY <1>1, <1>6, <3>1
    <3> QED
      BY <1>1, <1>6, <2>2, <3>1, <3>2
  <2> QED
    BY <2>1, <2>2, <2>3 DEF Follow
<1>9. Calling(g) = Calling(h)
  BY <1>4, <1>8 DEF Calling
<1>10. Paired(g)
  <2>1. ASSUME NEW k \in Calling(g), NEW j \in DOMAIN g[k].calls, k + j \in DOMAIN g
        PROVE  g[k + j].role = "tool" /\ g[k + j].of = g[k].calls[j]
    <3>1. k \in Calling(h) /\ k \in DOMAIN h /\ g[k] = h[k] /\ h[k].role = "assistant"
      BY <1>4, <1>9 DEF Calling
    <3>2. k \in Nat /\ Len(h[k].calls) \in Nat /\ DOMAIN h[k].calls = 1..Len(h[k].calls)
      BY <1>1, <3>1, HistoryFacts
    <3>3. CASE k + j \in DOMAIN h
      BY <1>4, <1>6, <3>1, <3>3 DEF Paired
    <3>4. CASE k + j \notin DOMAIN h
      <4>1. k <= a
        <5>1. SUFFICES ASSUME k > a PROVE FALSE
          BY <1>6, <3>2
        <5>2. k - a \in 1..n /\ k - a \in DOMAIN h[a].calls /\ a + (k - a) = k
          BY <1>1, <1>5, <1>6, <3>1, <3>2, <5>1
        <5>3. h[k].role = "tool"
          BY <1>6, <3>1, <5>2 DEF Paired
        <5> QED
          BY <3>1, <5>3
      <4>2. k = a
        <5>1. SUFFICES ASSUME k < a PROVE FALSE
          BY <1>6, <3>2, <4>1
        <5>2. k + j > Len(h)
          BY <1>1, <3>1, <3>2, <3>4
        <5>3. a - k \in DOMAIN h[k].calls /\ k + (a - k) = a
          BY <1>1, <1>5, <1>6, <3>1, <3>2, <5>1, <5>2
        <5>4. h[a].role = "tool"
          BY <1>6, <3>1, <5>3 DEF Paired
        <5> QED
          BY <1>6, <5>4
      <4>3. (k + j) - a = j
        BY <3>1, <3>2, <4>2
      <4> QED
        BY <1>5, <1>8, <2>1, <3>1, <3>4, <4>2, <4>3
    <3> QED
      BY <3>3, <3>4
  <2>2. ASSUME NEW k \in Tools(g)
        PROVE  \E j \in Calling(g) : j < k /\ k <= j + Len(g[j].calls)
    <3>1. CASE k \in DOMAIN h
      <4>1. k \in Tools(h)
        BY <1>4, <3>1 DEF Tools
      <4>2. PICK j \in Calling(h) : j < k /\ k <= j + Len(h[j].calls)
        BY <1>6, <4>1 DEF Paired
      <4>3. j \in Calling(g) /\ g[j] = h[j]
        BY <1>4, <1>9, <4>2 DEF Calling
      <4> QED
        BY <4>2, <4>3
    <3>2. CASE k \notin DOMAIN h
      <4>1. k \in DOMAIN g
        BY DEF Tools
      <4>2. k - a \in 1..Len(ids) /\ a \in Calling(g) /\ g[a].calls = ids /\ k \in Nat
        BY <1>1, <1>4, <1>5, <1>6, <1>8, <1>9, <3>2, <4>1
      <4> QED
        BY <1>1, <1>6, <4>2
    <3> QED
      BY <3>1, <3>2
  <2> QED
    BY <2>1, <2>2 DEF Paired
<1>11. Prompted(g)
  <2>1. ASSUME NEW k \in DOMAIN g, NEW l \in DOMAIN g, k < l, Prompt(g[k]), g[l].role = "user"
        PROVE  \E i \in Calling(g) : k < i /\ i < l
    <3>1. k \in DOMAIN h /\ l \in DOMAIN h
      BY <1>8, <2>1 DEF Prompt
    <3>2. PICK i \in Calling(h) : k < i /\ i < l
      BY <1>4, <1>6, <2>1, <3>1 DEF Prompted
    <3> QED
      BY <1>9, <3>2
  <2> QED
    BY <2>1 DEF Prompted
<1>12. Until(g, t)
  BY <1>4, <1>8 DEF Until
<1>13. Rising(g)
  <2>1. ASSUME NEW k \in DOMAIN g, NEW l \in DOMAIN g, k <= l
        PROVE  g[k].turn <= g[l].turn
    <3>1. CASE l \in DOMAIN h
      <4>1. k \in DOMAIN h
        BY <1>1, <1>4, <2>1, <3>1
      <4> QED
        BY <1>4, <1>6, <2>1, <3>1, <4>1 DEF Rising
    <3>2. CASE l \notin DOMAIN h
      BY <1>8, <1>12, <3>2 DEF Until
    <3> QED
      BY <3>1, <3>2
  <2> QED
    BY <2>1 DEF Rising
<1>14. Settled(h) => Settled(g)
  <2>1. \A k \in (Len(h) + 1)..Len(g) : k \in DOMAIN g /\ k \notin DOMAIN h
    BY <1>1, <1>2, <1>4
  <2>2. \A k \in (Len(h) + 1)..Len(g) : ~Prompt(g[k])
    BY <1>8, <2>1 DEF Prompt
  <2> QED
    BY <1>2, <1>4, <2>2, GrowthKeeps
<1>15. PICK u \in DOMAIN g : u < a /\ UserOf(g[u], t)
  BY <1>4, <1>5
<1>16. a \in Calling(g) /\ g[a].calls = ids /\ g[a].turn = t
  BY <1>4, <1>5, <1>6, <1>9
<1>17. Open(g, ids, n + Len(e), t)
  <2>1. Len(g) = a + (n + Len(e))
    BY <1>1, <1>2, <1>5, <1>6
  <2> QED
    BY <1>15, <1>16, <2>1 DEF Open
<1>18. ASSUME NEW j \in 1..(n + Len(e))
       PROVE  Recorded(g, ids[j], t)
  <2>1. j \in DOMAIN g[a].calls /\ a + j \in DOMAIN g
    BY <1>1, <1>2, <1>4, <1>5, <1>6, <1>16
  <2> QED
    BY <1>15, <1>16, <2>1 DEF Recorded
<1>19. Tidy(g)
  BY <1>10, <1>11, <1>13 DEF Tidy
<1> QED
  BY <1>2, <1>4, <1>12, <1>14, <1>17, <1>18, <1>19 DEF g

\* The messages of a turn.
WrittenBy(h, t) == {k \in DOMAIN h : h[k].turn = t}

\* They are finitely many.
LEMMA WrittenAreFew ==
  ASSUME NEW h \in Hist, NEW t
  PROVE  /\ WrittenBy(h, t) \subseteq 1..Len(h) /\ IsFiniteSet(WrittenBy(h, t))
         /\ Cardinality(WrittenBy(h, t)) \in Nat
<1>1. WrittenBy(h, t) \subseteq 1..Len(h) /\ Len(h) \in Nat
  BY HistoryFacts DEF WrittenBy
<1>2. IsFiniteSet(1..Len(h))
  BY <1>1, FS_Interval
<1>3. IsFiniteSet(WrittenBy(h, t))
  BY <1>1, <1>2, FS_Subset
<1> QED
  BY <1>1, <1>3, FS_CardinalityType

\* A history that differs in sizes only is as tidy, and says the same.
LEMMA SizesDoNotMatter ==
  ASSUME NEW h \in Hist, NEW g \in Alike(h), NEW t
  PROVE  /\ g \in Hist
         /\ Tidy(h) => Tidy(g)
         /\ Complete(h) => Complete(g)
         /\ Settled(h) => Settled(g)
         /\ Until(h, t) => Until(g, t)
         /\ Asked(h, t) => Asked(g, t)
         /\ \A id : Recorded(h, id, t) => Recorded(g, id, t)
         /\ WrittenBy(g, t) = WrittenBy(h, t)
<1>1. g \in Hist /\ Len(g) = Len(h) /\ \A k \in 1..Len(h) : Same(g[k], h[k])
  BY DEF Alike
<1>2. DOMAIN g = DOMAIN h /\ DOMAIN h = 1..Len(h)
  BY <1>1, HistoryFacts
<1>3. \A k \in DOMAIN h : /\ g[k].role = h[k].role /\ g[k].calls = h[k].calls /\ g[k].of = h[k].of /\ g[k].turn = h[k].turn
                          /\ (Prompt(g[k]) <=> Prompt(h[k])) /\ (UserOf(g[k], t) <=> UserOf(h[k], t))
  BY <1>1, <1>2 DEF Same, Prompt, UserOf
<1>4. Calling(g) = Calling(h) /\ Tools(g) = Tools(h) /\ WrittenBy(g, t) = WrittenBy(h, t)
  BY <1>2, <1>3 DEF Calling, Tools, WrittenBy
<1>5. Calling(h) \subseteq DOMAIN h
  BY DEF Calling
<1>6. Paired(h) => Paired(g)
  BY <1>2, <1>3, <1>4, <1>5 DEF Paired
<1>7. Prompted(h) => Prompted(g)
  BY <1>2, <1>3, <1>4 DEF Prompted
<1>8. Rising(h) => Rising(g)
  BY <1>2, <1>3 DEF Rising
<1>9. Complete(h) => Complete(g)
  BY <1>1, <1>3, <1>4, <1>5 DEF Complete
<1>10. Settled(h) => Settled(g)
  BY <1>2, <1>3, <1>4 DEF Settled
<1>11. (Until(h, t) => Until(g, t)) /\ (Asked(h, t) => Asked(g, t))
  BY <1>2, <1>3 DEF Until, Asked
<1>12. \A id : Recorded(h, id, t) => Recorded(g, id, t)
  BY <1>2, <1>3, <1>4, <1>5 DEF Recorded
<1> QED
  BY <1>1, <1>4, <1>6, <1>7, <1>8, <1>9, <1>10, <1>11, <1>12 DEF Tidy

\* g is h without the messages from the start of a turn to that of another,
\* with no message of a user before.
CutAt(g, h, s, keep) ==
  /\ s \in Starts(h) /\ keep \in Starts(h) /\ s <= keep
  /\ \A k \in Starts(h) : s <= k
  /\ Len(g) = (s - 1) + (Len(h) - keep + 1)
  /\ \A k \in 1..(s - 1) : g[k] = h[k]
  /\ \A k \in s..Len(g) : g[k] = h[k + (keep - s)]

\* Eviction drops whole turns, the oldest first.
LEMMA EvictionCuts ==
  ASSUME NEW h \in Hist, NEW max \in Nat
  PROVE  \/ Evicted(h, max) = h
         \/ \E s, keep \in 1..Len(h) : CutAt(Evicted(h, max), h, s, keep)
<1> DEFINE starts == Starts(h)
           s      == Least(starts)
           prefix == SubSeq(h, 1, s - 1)
           fits   == {k \in starts : history_bytes(prefix) + history_bytes(SubSeq(h, k, Len(h))) <= max}
           keep   == IF fits = {} THEN Greatest(starts) ELSE Least(fits)
<1>1. Evicted(h, max) = IF starts = {} THEN h ELSE prefix \o SubSeq(h, keep, Len(h))
  BY Zenon DEF Evicted
<1>2. Len(h) \in Nat /\ starts \subseteq 1..Len(h) /\ fits \subseteq starts
  BY HistoryFacts DEF Starts
<1> HIDE DEF fits, starts
<1>3. SUFFICES ASSUME starts # {} PROVE \E a, b \in 1..Len(h) : CutAt(Evicted(h, max), h, a, b)
  BY <1>1
<1>4. s \in starts /\ Greatest(starts) \in starts /\ \A k \in starts : s <= k
  <2>1. \E k \in starts : \A j \in starts : k <= j
    <3>1. starts \subseteq Nat
      BY <1>2
    <3> QED
      BY <1>3, <3>1, LeastNat
  <2>2. s \in starts /\ \A k \in starts : s <= k
    BY <2>1 DEF Least
  <2>3. Greatest(starts) \in starts
    BY <1>2, <1>3, Extremes
  <2> QED
    BY <2>2, <2>3
<1>5. keep \in starts
  <2>1. fits # {} => Least(fits) \in fits
    BY <1>2, Extremes
  <2> QED
    BY <1>2, <1>4, <2>1
<1> HIDE DEF s, keep
<1>6. s \in 1..Len(h) /\ keep \in 1..Len(h) /\ s <= keep
  BY <1>2, <1>4, <1>5
<1> DEFINE tail == SubSeq(h, keep, Len(h))
<1>7. /\ prefix \in Seq(Msg) /\ Len(prefix) = s - 1 /\ \A k \in 1..(s - 1) : prefix[k] = h[k]
      /\ tail \in Seq(Msg) /\ Len(tail) = Len(h) - keep + 1
      /\ \A k \in 1..(Len(h) - keep + 1) : tail[k] = h[keep + k - 1]
  BY <1>2, <1>6 DEF Hist
<1> DEFINE g == prefix \o tail
<1> HIDE DEF prefix, tail
<1>8. /\ Len(g) = (s - 1) + (Len(h) - keep + 1)
      /\ \A k \in 1..(s - 1) : g[k] = h[k]
  <2>1. s - 1 \in Nat /\ Len(h) - keep + 1 \in Nat
    BY <1>2, <1>6
  <2>2. prefix \in Seq(Msg) /\ tail \in Seq(Msg)
    BY <1>7
  <2>3. Len(g) = Len(prefix) + Len(tail) /\ \A k \in 1..Len(prefix) : g[k] = prefix[k]
    BY <2>2
  <2> HIDE DEF g
  <2> QED
    BY <1>7, <2>1, <2>3
<1>9. ASSUME NEW k \in s..Len(g)
      PROVE  g[k] = h[k + (keep - s)]
  <2>1. k - (s - 1) \in 1..(Len(h) - keep + 1) /\ k = (s - 1) + (k - (s - 1)) /\ keep + (k - (s - 1)) - 1 = k + (keep - s)
    BY <1>2, <1>6, <1>8
  <2>2. g[k] = tail[k - (s - 1)]
    BY <1>2, <1>6, <1>7, <1>8, <2>1
  <2> QED
    BY <1>7, <2>1, <2>2
<1>10. Evicted(h, max) = g
  BY <1>1, <1>3 DEF tail
<1> HIDE DEF g
<1>11. CutAt(g, h, s, keep)
  BY <1>4, <1>5, <1>6, <1>8, <1>9 DEF CutAt, starts
<1> QED
  BY <1>6, <1>10, <1>11

\* The answers to a call come before the next message of a user.
LEMMA CallsDoNotCross ==
  ASSUME NEW h \in Hist, Paired(h), Complete(h), NEW u \in Starts(h), NEW k \in Calling(h), k < u
  PROVE  k + Len(h[k].calls) < u
<1>1. /\ k \in DOMAIN h /\ u \in DOMAIN h /\ k \in Nat /\ u \in Nat /\ h[u].role = "user"
      /\ Len(h[k].calls) \in Nat /\ DOMAIN h[k].calls = 1..Len(h[k].calls)
  BY HistoryFacts DEF Calling, Starts
<1>2. SUFFICES ASSUME k + Len(h[k].calls) >= u PROVE FALSE
  BY <1>1
<1>3. u - k \in DOMAIN h[k].calls /\ k + (u - k) = u
  BY <1>1, <1>2
<1>4. h[u].role = "tool"
  BY <1>1, <1>3 DEF Paired
<1> QED
  BY <1>1, <1>4

\* Where the message at a place after the cut was before.
From(k, s, keep) == IF k < s THEN k ELSE k + (keep - s)

\* What is left is in the same order, and is all but what was between.
LEMMA CutPlaces ==
  ASSUME NEW h \in Hist, NEW g \in Hist, NEW s \in 1..Len(h), NEW keep \in 1..Len(h), CutAt(g, h, s, keep)
  PROVE  /\ \A k \in DOMAIN g : /\ From(k, s, keep) \in DOMAIN h /\ g[k] = h[From(k, s, keep)]
                                /\ From(k, s, keep) < s \/ keep <= From(k, s, keep)
         /\ \A k, l \in DOMAIN g : From(k, s, keep) < From(l, s, keep) <=> k < l
         /\ \A m \in DOMAIN h : m < s \/ keep <= m => \E k \in DOMAIN g : From(k, s, keep) = m
<1>1. /\ s <= keep /\ Len(g) = (s - 1) + (Len(h) - keep + 1) /\ Len(h) \in Nat
      /\ DOMAIN h = 1..Len(h) /\ DOMAIN g = 1..Len(g) /\ Len(g) \in Nat
  BY HistoryFacts DEF CutAt
<1>2. ASSUME NEW k \in DOMAIN g
      PROVE  /\ From(k, s, keep) \in DOMAIN h /\ g[k] = h[From(k, s, keep)]
             /\ From(k, s, keep) < s \/ keep <= From(k, s, keep)
  <2>1. CASE k < s
    <3>1. k \in 1..(s - 1) /\ From(k, s, keep) = k /\ k \in DOMAIN h
      BY <1>1, <2>1 DEF From
    <3> QED
      BY <2>1, <3>1 DEF CutAt
  <2>2. CASE ~(k < s)
    <3>1. k \in s..Len(g) /\ From(k, s, keep) = k + (keep - s) /\ k + (keep - s) \in DOMAIN h /\ keep <= k + (keep - s)
      BY <1>1, <2>2 DEF From
    <3> QED
      BY <3>1 DEF CutAt
  <2> QED
    BY <2>1, <2>2
<1>3. \A k, l \in DOMAIN g : From(k, s, keep) < From(l, s, keep) <=> k < l
  BY <1>1 DEF From
<1>4. ASSUME NEW m \in DOMAIN h, m < s \/ keep <= m
      PROVE  \E k \in DOMAIN g : From(k, s, keep) = m
  <2>1. CASE m < s
    <3>1. m \in DOMAIN g /\ From(m, s, keep) = m
      BY <1>1, <2>1 DEF From
    <3> QED
      BY <3>1
  <2>2. CASE keep <= m
    <3>1. m - (keep - s) \in DOMAIN g /\ From(m - (keep - s), s, keep) = m
      BY <1>1, <2>2 DEF From
    <3> QED
      BY <3>1
  <2> QED
    BY <1>4, <2>1, <2>2
<1> QED
  BY <1>2, <1>3, <1>4

\* A cut leaves a tidy history tidy.
LEMMA CutKeeps ==
  ASSUME NEW h \in Hist, NEW g \in Hist, NEW s \in 1..Len(h), NEW keep \in 1..Len(h), CutAt(g, h, s, keep),
         Tidy(h), Complete(h), NEW t \in Nat, Until(h, t)
  PROVE  /\ Tidy(g) /\ Complete(g) /\ Until(g, t)
         /\ Settled(h) => Settled(g)
         /\ Asked(h, t) => Asked(g, t)
<1> DEFINE F(k) == From(k, s, keep)
<1>1. /\ \A k \in DOMAIN g : F(k) \in DOMAIN h /\ g[k] = h[F(k)] /\ (F(k) < s \/ keep <= F(k))
      /\ \A k, l \in DOMAIN g : F(k) < F(l) <=> k < l
      /\ \A m \in DOMAIN h : m < s \/ keep <= m => \E k \in DOMAIN g : F(k) = m
  BY CutPlaces, Zenon
<1>2. /\ s \in Starts(h) /\ keep \in Starts(h) /\ s <= keep /\ \A k \in Starts(h) : s <= k
      /\ Len(g) = (s - 1) + (Len(h) - keep + 1) /\ Len(h) \in Nat /\ Len(g) \in Nat
      /\ DOMAIN h = 1..Len(h) /\ DOMAIN g = 1..Len(g)
  BY HistoryFacts DEF CutAt
<1>3. \A k \in DOMAIN h : Len(h[k].calls) \in Nat /\ DOMAIN h[k].calls = 1..Len(h[k].calls)
  BY HistoryFacts
<1>4. Paired(h) /\ Prompted(h) /\ Rising(h)
  BY DEF Tidy
<1>5. \A k \in DOMAIN g : F(k) = IF k < s THEN k ELSE k + (keep - s)
  BY DEF From
<1> HIDE DEF F
<1>6. \A k \in DOMAIN g : (k \in Calling(g) <=> F(k) \in Calling(h)) /\ (k \in Tools(g) <=> F(k) \in Tools(h))
  BY <1>1 DEF Calling, Tools
<1>7. \A u \in Starts(h), k \in Calling(h) : k < u => k + Len(h[k].calls) < u
  BY <1>4, CallsDoNotCross
<1>8. \A k \in DOMAIN g : h[F(k)].role = "user" => keep <= F(k)
  <2>1. ASSUME NEW k \in DOMAIN g, h[F(k)].role = "user"
        PROVE  keep <= F(k)
    <3>1. F(k) \in Starts(h) /\ F(k) \in Nat
      BY <1>1, <1>2, <2>1 DEF Starts
    <3> QED
      BY <1>1, <1>2, <2>1, <3>1
  <2> QED
    BY <2>1
<1>9. Paired(g)
  <2>1. ASSUME NEW k \in Calling(g), NEW j \in DOMAIN g[k].calls, k + j \in DOMAIN g
        PROVE  g[k + j].role = "tool" /\ g[k + j].of = g[k].calls[j]
    <3>1. k \in DOMAIN g /\ F(k) \in Calling(h) /\ F(k) \in DOMAIN h /\ g[k] = h[F(k)]
      BY <1>1, <1>6 DEF Calling
    <3>2. j \in 1..Len(h[F(k)].calls) /\ k \in Nat
      BY <1>2, <1>3, <3>1
    <3>3. F(k + j) = F(k) + j
      <4>1. CASE k < s
        <5>1. F(k) = k /\ k + Len(h[k].calls) < s
          BY <1>2, <1>5, <1>7, <3>1, <4>1
        <5>2. k + j < s
          BY <1>2, <1>3, <3>1, <3>2, <5>1
        <5> QED
          BY <1>5, <2>1, <5>1, <5>2
      <4>2. CASE ~(k < s)
        <5>1. j \in Nat /\ s \in Nat /\ keep \in Nat
          BY <1>2, <1>3, <3>1, <3>2
        <5>2. ~(k + j < s)
          BY <3>2, <4>2, <5>1
        <5>3. F(k) = k + (keep - s)
          BY <1>5, <3>1, <4>2
        <5>4. F(k + j) = (k + j) + (keep - s)
          BY <1>5, <2>1, <5>2
        <5> QED
          BY <3>2, <5>1, <5>3, <5>4
      <4> QED
        BY <4>1, <4>2
    <3>4. F(k) + j \in DOMAIN h /\ g[k + j] = h[F(k) + j]
      BY <1>1, <2>1, <3>3
    <3> QED
      BY <1>3, <1>4, <3>1, <3>2, <3>4 DEF Paired
  <2>2. ASSUME NEW k \in Tools(g)
        PROVE  \E j \in Calling(g) : j < k /\ k <= j + Len(g[j].calls)
    <3>1. k \in DOMAIN g /\ F(k) \in Tools(h) /\ F(k) \in DOMAIN h
      BY <1>1, <1>6 DEF Tools
    <3>2. PICK j \in Calling(h) : j < F(k) /\ F(k) <= j + Len(h[j].calls)
      BY <1>4, <3>1 DEF Paired
    <3>3. j \in DOMAIN h /\ Len(h[j].calls) \in Nat /\ j \in Nat /\ F(k) \in Nat
      BY <1>2, <1>3, <3>1 DEF Calling
    <3>4. (F(k) < s /\ j < s) \/ (keep <= F(k) /\ keep <= j)
      <4>1. CASE F(k) < s
        BY <1>2, <3>2, <3>3, <4>1
      <4>2. CASE keep <= F(k)
        <5>1. ~(j < keep)
          BY <1>2, <1>7, <3>2, <3>3, <4>2
        <5> QED
          BY <1>2, <3>3, <4>2, <5>1
      <4> QED
        BY <1>1, <3>1, <4>1, <4>2
    <3>5. PICK i \in DOMAIN g : F(i) = j
      BY <1>1, <3>3, <3>4
    <3>6. i \in Calling(g) /\ i < k /\ g[i] = h[j]
      BY <1>1, <1>6, <3>1, <3>2, <3>5
    <3>7. F(k) - F(i) = k - i
      BY <1>2, <1>5, <3>1, <3>4, <3>5
    <3>8. k <= i + Len(g[i].calls)
      BY <1>2, <3>1, <3>2, <3>3, <3>5, <3>6, <3>7
    <3> QED
      BY <3>6, <3>8
  <2> QED
    BY <2>1, <2>2 DEF Paired
<1>10. ASSUME NEW k \in DOMAIN g, Prompt(g[k]), NEW n \in Calling(h), F(k) < n
       PROVE  \E i \in Calling(g) : F(i) = n /\ k < i
  <2>1. n \in DOMAIN h /\ n \in Nat /\ F(k) \in Nat /\ keep <= F(k)
    BY <1>1, <1>2, <1>8, <1>10 DEF Calling, Prompt
  <2>2. PICK i \in DOMAIN g : F(i) = n
    BY <1>1, <1>2, <1>10, <2>1
  <2> QED
    BY <1>1, <1>6, <1>10, <2>2
<1>11. Prompted(g)
  <2>1. ASSUME NEW k \in DOMAIN g, NEW l \in DOMAIN g, k < l, Prompt(g[k]), g[l].role = "user"
        PROVE  \E i \in Calling(g) : k < i /\ i < l
    <3>1. PICK n \in Calling(h) : F(k) < n /\ n < F(l)
      BY <1>1, <1>4, <2>1 DEF Prompted
    <3>2. PICK i \in Calling(g) : F(i) = n /\ k < i
      BY <1>10, <2>1, <3>1
    <3>3. i < l
      BY <1>1, <3>1, <3>2 DEF Calling
    <3> QED
      BY <3>2, <3>3
  <2> QED
    BY <2>1 DEF Prompted
<1>12. Settled(h) => Settled(g)
  <2>1. ASSUME Settled(h), NEW k \in DOMAIN g, Prompt(g[k])
        PROVE  \E i \in Calling(g) : k < i
    <3>1. PICK n \in Calling(h) : F(k) < n
      BY <1>1, <2>1 DEF Settled
    <3> QED
      BY <1>10, <2>1, <3>1
  <2> QED
    BY <2>1 DEF Settled
<1>13. Rising(g)
  <2>1. ASSUME NEW k \in DOMAIN g, NEW l \in DOMAIN g, k <= l
        PROVE  g[k].turn <= g[l].turn
    <3>1. F(k) <= F(l)
      BY <1>2, <1>5, <2>1
    <3> QED
      BY <1>1, <1>4, <3>1 DEF Rising
  <2> QED
    BY <2>1 DEF Rising
<1>14. Until(g, t)
  BY <1>1 DEF Until
<1>15. Complete(g)
  <2>1. ASSUME NEW k \in Calling(g)
        PROVE  k + Len(g[k].calls) <= Len(g)
    <3>1. k \in DOMAIN g /\ F(k) \in Calling(h) /\ F(k) \in DOMAIN h /\ g[k] = h[F(k)]
      BY <1>1, <1>6 DEF Calling
    <3>2. F(k) + Len(h[F(k)].calls) <= Len(h) /\ Len(h[F(k)].calls) \in Nat
      BY <1>3, <3>1 DEF Complete
    <3>3. CASE k < s
      <4>1. F(k) = k /\ k + Len(h[k].calls) < s
        BY <1>2, <1>5, <1>7, <3>1, <3>3
      <4> QED
        BY <1>2, <3>1, <3>2, <4>1
    <3>4. CASE ~(k < s)
      BY <1>2, <1>5, <3>1, <3>2, <3>4
    <3> QED
      BY <3>3, <3>4
  <2> QED
    BY <2>1 DEF Complete
<1>16. Asked(h, t) => Asked(g, t)
  <2>1. SUFFICES ASSUME Asked(h, t) PROVE Asked(g, t)
    OBVIOUS
  <2>2. PICK u \in DOMAIN h : UserOf(h[u], t)
    BY <2>1 DEF Asked
  <2>3. \E m \in DOMAIN h : keep <= m /\ UserOf(h[m], t)
    <3>1. CASE keep <= u
      BY <2>2, <3>1
    <3>2. CASE ~(keep <= u)
      <4>1. u <= keep /\ keep \in DOMAIN h /\ h[keep].role = "user"
        BY <1>2, <3>2 DEF Starts
      <4>2. h[u].turn <= h[keep].turn /\ h[keep].turn <= t /\ h[u].turn = t /\ h[keep].turn \in Nat
        BY <1>4, <2>2, <4>1, HistoryFacts DEF Rising, Until, UserOf
      <4> QED
        BY <1>2, <4>1, <4>2 DEF UserOf
    <3> QED
      BY <3>1, <3>2
  <2>4. PICK m \in DOMAIN h : keep <= m /\ UserOf(h[m], t)
    BY <2>3
  <2>5. PICK k \in DOMAIN g : F(k) = m
    BY <1>1, <2>4
  <2> QED
    BY <1>1, <2>4, <2>5 DEF Asked
<1>17. Tidy(g)
  BY <1>9, <1>11, <1>13 DEF Tidy
<1> QED
  BY <1>12, <1>14, <1>15, <1>16, <1>17

\* A cut adds no messages of a turn, and one that drops a call with its prompt
\* drops two.
LEMMA CutLoses ==
  ASSUME NEW h \in Hist, NEW g \in Hist, NEW s \in 1..Len(h), NEW keep \in 1..Len(h), CutAt(g, h, s, keep),
         Tidy(h), NEW t \in Nat, Until(h, t)
  PROVE  /\ Cardinality(WrittenBy(g, t)) <= Cardinality(WrittenBy(h, t))
         /\ \A id : Recorded(h, id, t) =>
              Recorded(g, id, t) \/ Cardinality(WrittenBy(g, t)) + 2 <= Cardinality(WrittenBy(h, t))
<1> DEFINE F(k) == From(k, s, keep)
           V == WrittenBy(g, t)
           W == WrittenBy(h, t)
           f == [k \in V |-> F(k)]
<1>1. /\ \A k \in DOMAIN g : F(k) \in DOMAIN h /\ g[k] = h[F(k)] /\ (F(k) < s \/ keep <= F(k))
      /\ \A k, l \in DOMAIN g : F(k) < F(l) <=> k < l
      /\ \A m \in DOMAIN h : m < s \/ keep <= m => \E k \in DOMAIN g : F(k) = m
  BY CutPlaces, Zenon
<1>2. /\ s \in Starts(h) /\ keep \in Starts(h) /\ s <= keep /\ \A k \in Starts(h) : s <= k
      /\ Len(g) = (s - 1) + (Len(h) - keep + 1) /\ Len(h) \in Nat /\ Len(g) \in Nat
      /\ DOMAIN h = 1..Len(h) /\ DOMAIN g = 1..Len(g)
  BY HistoryFacts DEF CutAt
<1>3. \A k \in DOMAIN g : F(k) = IF k < s THEN k ELSE k + (keep - s)
  BY DEF From
<1> HIDE DEF F
<1>4. IsFiniteSet(V) /\ IsFiniteSet(W) /\ Cardinality(V) \in Nat /\ Cardinality(W) \in Nat /\ V \subseteq DOMAIN g
  BY <1>2, WrittenAreFew
<1>5. \A k \in V : F(k) \in W /\ (F(k) < s \/ keep <= F(k))
  BY <1>1 DEF WrittenBy
<1>6. \A k, l \in V : F(k) = F(l) => k = l
  BY <1>2, <1>3, <1>4
<1> HIDE DEF V, W
<1>7. ASSUME NEW T, \A k \in V : F(k) \in T
      PROVE  f \in Injection(V, T)
  BY <1>6, <1>7 DEF Injection, IsInjective
<1> HIDE DEF f
<1>8. Cardinality(V) <= Cardinality(W)
  BY <1>4, <1>5, <1>7, FS_Injection
<1>9. ASSUME NEW id, Recorded(h, id, t)
      PROVE  Recorded(g, id, t) \/ Cardinality(V) + 2 <= Cardinality(W)
  <2>1. PICK u \in DOMAIN h, k \in Calling(h) : \E j \in DOMAIN h[k].calls :
          /\ u < k /\ UserOf(h[u], t)
          /\ h[k].turn = t /\ h[k].calls[j] = id
          /\ k + j \in DOMAIN h
    BY <1>9 DEF Recorded
  <2>2. PICK j \in DOMAIN h[k].calls : h[k].calls[j] = id /\ k + j \in DOMAIN h
    BY <2>1
  <2>3. /\ k \in DOMAIN h /\ k \in Nat /\ h[k].role = "assistant" /\ j \in Nat
        /\ u \in Starts(h) /\ u \in Nat /\ h[u].role = "user" /\ s <= u
    <3>1. k \in DOMAIN h /\ h[k].role = "assistant"
      BY DEF Calling
    <3>2. DOMAIN h[k].calls = 1..Len(h[k].calls) /\ Len(h[k].calls) \in Nat
      BY <3>1, HistoryFacts
    <3>3. u \in Starts(h) /\ h[u].role = "user"
      BY <2>1 DEF Starts, UserOf
    <3>4. j \in Nat
      BY <3>2
    <3> QED
      BY <1>2, <3>1, <3>3, <3>4
  <2>4. CASE keep <= k
    <3>1. PICK i \in DOMAIN g : F(i) = k
      BY <1>1, <2>3, <2>4
    <3>2. i \in Calling(g) /\ g[i] = h[k]
      BY <1>1, <2>3, <3>1 DEF Calling
    <3>3. ~(i < s)
      BY <1>2, <1>3, <2>4, <3>1
    <3>4. i + j \in DOMAIN g
      BY <1>2, <1>3, <2>2, <2>3, <3>1, <3>3
    <3>5. \E m \in DOMAIN h : keep <= m /\ m < k /\ UserOf(h[m], t)
      <4>1. CASE keep <= u
        BY <2>1, <4>1
      <4>2. CASE ~(keep <= u)
        <5>1. u <= keep /\ keep \in DOMAIN h /\ h[keep].role = "user" /\ keep < k
          <6>1. keep \in DOMAIN h /\ h[keep].role = "user"
            BY <1>2 DEF Starts
          <6>2. keep # k
            BY <2>3, <6>1
          <6> QED
            BY <1>2, <2>3, <2>4, <4>2, <6>1, <6>2
        <5>2. h[u].turn <= h[keep].turn /\ h[keep].turn <= t /\ h[u].turn = t /\ h[keep].turn \in Nat
          BY <2>1, <5>1, HistoryFacts DEF Tidy, Rising, Until, UserOf
        <5> QED
          BY <1>2, <5>1, <5>2 DEF UserOf
      <4> QED
        BY <4>1, <4>2
    <3>6. PICK m \in DOMAIN h : keep <= m /\ m < k /\ UserOf(h[m], t)
      BY <3>5
    <3>7. PICK v \in DOMAIN g : F(v) = m
      BY <1>1, <3>6
    <3>8. v < i /\ UserOf(g[v], t)
      BY <1>1, <3>1, <3>6, <3>7
    <3>9. g[i].turn = t /\ j \in DOMAIN g[i].calls /\ g[i].calls[j] = id
      BY <2>1, <2>2, <3>2
    <3> QED
      BY <3>2, <3>4, <3>8, <3>9 DEF Recorded
  <2>5. CASE ~(keep <= k)
    <3>1. u # k /\ u \in W /\ k \in W \ {u}
      BY <2>1, <2>3 DEF W, WrittenBy, UserOf
    <3> DEFINE X == (W \ {u}) \ {k}
    <3>2. \A n \in V : F(n) \in X
      <4>1. s <= u /\ u < keep /\ s <= k /\ k < keep
        BY <1>2, <2>1, <2>3, <2>5
      <4> QED
        BY <1>2, <1>5, <2>3, <4>1
    <3>3. IsFiniteSet(W \ {u}) /\ Cardinality(W \ {u}) = Cardinality(W) - 1
      BY <1>4, <3>1, FS_RemoveElement
    <3>4. IsFiniteSet(X) /\ Cardinality(X) = Cardinality(W) - 2
      <4>1. IsFiniteSet(X) /\ Cardinality(X) = Cardinality(W \ {u}) - 1
        BY <3>1, <3>3, FS_RemoveElement
      <4> QED
        BY <1>4, <3>3, <4>1
    <3> HIDE DEF X
    <3>5. Cardinality(V) <= Cardinality(X)
      BY <1>7, <3>2, <3>4, FS_Injection
    <3> QED
      BY <1>4, <3>4, <3>5
  <2> QED
    BY <2>4, <2>5
<1> QED
  BY <1>8, <1>9 DEF V, W

\* What compaction keeps of a history.
Kept(g, h, t) ==
  /\ Tidy(g) /\ Complete(g) /\ Until(g, t)
  /\ Settled(h) => Settled(g)
  /\ Asked(h, t) => Asked(g, t)
  /\ Cardinality(WrittenBy(g, t)) <= Cardinality(WrittenBy(h, t))
  /\ \A id : Recorded(h, id, t) =>
       Recorded(g, id, t) \/ Cardinality(WrittenBy(g, t)) + 2 <= Cardinality(WrittenBy(h, t))

\* Compaction leaves a tidy history tidy, and what it drops of a turn shows
\* (compact_to).
LEMMA CompactionKeeps ==
  ASSUME NEW h \in Hist, Tidy(h), Complete(h), NEW t \in Nat, Until(h, t)
  PROVE  Kept(compact(h), h, t) /\ Kept(compact_overflow(h), h, t)
<1>1. MaxBytes \in Nat /\ MinimumBytes \in Nat /\ Marker \in Nat
  BY EngineAssumption
<1>2. Cardinality(WrittenBy(h, t)) \in Nat
  BY WrittenAreFew
<1>3. Kept(h, h, t)
  BY <1>2 DEF Kept
<1>4. ASSUME NEW max \in Nat
      PROVE  Kept(compact_to(h, max), h, t)
  <2> DEFINE g == Evicted(h, max)
             e == Elided(g, max)
  <2>1. g \in Hist
    BY EvictedIsAHistory
  <2>2. Kept(g, h, t)
    <3>1. CASE g = h
      BY <1>3, <3>1
    <3>2. CASE g # h
      <4>1. PICK s \in 1..Len(h), keep \in 1..Len(h) : CutAt(g, h, s, keep)
        BY <3>2, EvictionCuts
      <4> HIDE DEF g
      <4>2. /\ Tidy(g) /\ Complete(g) /\ Until(g, t)
            /\ Settled(h) => Settled(g)
            /\ Asked(h, t) => Asked(g, t)
        BY <2>1, <4>1, CutKeeps
      <4>3. /\ Cardinality(WrittenBy(g, t)) <= Cardinality(WrittenBy(h, t))
            /\ \A id : Recorded(h, id, t) =>
                 Recorded(g, id, t) \/ Cardinality(WrittenBy(g, t)) + 2 <= Cardinality(WrittenBy(h, t))
        BY <2>1, <4>1, CutLoses
      <4> QED
        BY <4>2, <4>3 DEF Kept
    <3> QED
      BY <3>1, <3>2
  <2>3. e \in Alike(g)
    BY <1>1, <2>1, ElidedIsAlike
  <2> HIDE DEF e, g
  <2>4. /\ Tidy(g) => Tidy(e)
        /\ Complete(g) => Complete(e)
        /\ Settled(g) => Settled(e)
        /\ Until(g, t) => Until(e, t)
        /\ Asked(g, t) => Asked(e, t)
        /\ \A id : Recorded(g, id, t) => Recorded(e, id, t)
        /\ WrittenBy(e, t) = WrittenBy(g, t)
    BY <2>1, <2>3, SizesDoNotMatter
  <2>5. Kept(e, h, t)
    BY <2>2, <2>4 DEF Kept
  <2> QED
    BY <1>3, <2>5 DEF compact_to, e, g
<1>5. Halved \in Nat
  BY <1>1 DEF Halved
<1> QED
  BY <1>1, <1>3, <1>4, <1>5 DEF compact, compact_overflow

\* Dropping payloads changes sizes only (drop_tool_payloads).
LEMMA DroppedIsAlike ==
  ASSUME NEW h \in Hist
  PROVE  drop_tool_payloads(h) \in Alike(h)
<1> DEFINE from == IF Starts(h) = {} THEN 1 ELSE Greatest(Starts(h))
           Cut(m) == [m EXCEPT !.size = IF m.role = "tool" THEN Marker ELSE @, !.reasoning = 0]
           s == [k \in DOMAIN h |-> IF k < from THEN h[k] ELSE Cut(h[k])]
<1>1. drop_tool_payloads(h) = s
  BY Zenon DEF drop_tool_payloads
<1>2. s \in Hist
  BY <1>1, RecordIsAHistory
<1>3. \A m \in Msg : Same(Cut(m), m) /\ Same(m, m)
  BY DEF Msg, Same
<1>4. DOMAIN h = 1..Len(h) /\ \A k \in DOMAIN h : h[k] \in Msg
  BY HistoryFacts
<1> HIDE DEF Cut, from
<1>5. \A k \in 1..Len(h) : Same(s[k], h[k])
  BY <1>3, <1>4
<1>6. DOMAIN s = DOMAIN h
  OBVIOUS
<1> HIDE DEF s
<1>7. Len(s) = Len(h)
  BY <1>2, <1>4, <1>6, HistoryFacts
<1> QED
  BY <1>1, <1>2, <1>5, <1>7 DEF Alike

-----------------------------------------------------------------------------
(* The request.                                                            *)

\* f[k] is what the first k messages of h contribute to Messages(h, roles).
Gathers(f, h, roles) ==
  f = [k \in 0..Len(h) |->
         IF k = 0 THEN <<>>
         ELSE IF h[k].role \in roles THEN Append(f[k - 1], h[k]) ELSE f[k - 1]]

\* Messages goes through the history message by message.
LEMMA MessagesGather ==
  ASSUME NEW h \in Hist, NEW roles
  PROVE  \E f : /\ Messages(h, roles) = f[Len(h)] /\ f[0] = <<>>
                /\ \A k \in 0..Len(h) : f[k] \in Hist
                /\ \A k \in 1..Len(h) : f[k] = IF h[k].role \in roles THEN Append(f[k - 1], h[k]) ELSE f[k - 1]
<1> DEFINE n == Len(h)
           Add(k, s) == IF h[k].role \in roles THEN Append(s, h[k]) ELSE s
           g == [x \in (1..n) \X Hist |-> Add(x[1], x[2])]
<1>1. n \in Nat /\ \A k \in 1..n : h[k] \in Msg
  BY HistoryFacts
<1>2. ASSUME NEW k \in 1..n, NEW s \in Hist
      PROVE  Add(k, s) \in Hist
  <2>1. Append(s, h[k]) \in Hist
    BY <1>1 DEF Hist
  <2> QED
    BY <2>1
<1>3. <<>> \in Hist
  BY DEF Hist
<1> HIDE DEF n, Add
<1>4. g \in [(1..n) \X Hist -> Hist]
  BY <1>2
<1>5. PICK f \in [0..n -> Hist] : Unfolds(f, n, <<>>, g)
  <2> HIDE DEF g
  <2> QED
    BY <1>1, <1>3, <1>4, UnfoldingExists
<1>6. \A k \in 1..n : <<k, f[k - 1]>> \in (1..n) \X Hist
  <2>1. \A k \in 1..n : k - 1 \in 0..n
    BY <1>1
  <2>2. \A k \in 1..n : f[k - 1] \in Hist
    BY <2>1
  <2> QED
    BY <2>2, Zenon
<1>7. \A k \in 1..n : g[<<k, f[k - 1]>>] = Add(k, f[k - 1])
  BY <1>6
<1> HIDE DEF g
<1>8. \A k \in 0..n : f[k] = IF k = 0 THEN <<>> ELSE g[<<k, f[k - 1]>>]
  BY <1>5 DEF Unfolds
<1>9. \A k \in 0..n : k # 0 => k \in 1..n
  BY <1>1
<1>10. f = [k \in 0..n |-> IF k = 0 THEN <<>> ELSE Add(k, f[k - 1])]
  <2>1. \A k \in 0..n : f[k] = IF k = 0 THEN <<>> ELSE Add(k, f[k - 1])
    BY <1>7, <1>8, <1>9, Zenon
  <2> QED
    BY <2>1
<1>11. Gathers(f, h, roles)
  BY <1>10, Zenon DEF Gathers, Add, n
<1>12. PICK e : Gathers(e, h, roles) /\ Messages(h, roles) = e[n]
  <2>1. Messages(h, roles) = (CHOOSE e : Gathers(e, h, roles))[n]
    BY Zenon DEF Messages, Gathers, n
  <2> QED
    BY <1>11, <2>1
<1>13. \A k \in 0..n : e[k] = IF k = 0 THEN <<>> ELSE Add(k, e[k - 1])
  BY <1>12, Zenon DEF Gathers, Add, n
<1>14. e[0] = <<>> /\ \A k \in 1..n : e[k] = Add(k, e[k - 1])
  <2>1. 0 \in 0..n /\ \A k \in 1..n : k \in 0..n /\ k # 0
    BY <1>1
  <2> QED
    BY <1>13, <2>1
<1>15. \A k \in 0..n : e[k] \in Hist
  <2>1. e[0] \in Hist /\ \A k \in 1..n : e[k - 1] \in Hist => e[k] \in Hist
    BY <1>2, <1>3, <1>14
  <2> QED
    BY <1>1, <2>1, UnfoldsWithin
<1> QED
  BY <1>12, <1>14, <1>15 DEF Add, n

\* r numbers the messages of h that are in g, in order.
Ranks(r, g, h, roles) ==
  /\ \A k \in 0..Len(h) : r[k] \in Nat
  /\ \A k \in 1..Len(h) : r[k] = IF h[k].role \in roles THEN r[k - 1] + 1 ELSE r[k - 1]
  /\ \A k, l \in 0..Len(h) : k <= l => r[k] <= r[l]
  /\ \A k \in 1..Len(h) : h[k].role \in roles => r[k] \in DOMAIN g /\ g[r[k]] = h[k]
  /\ \A p \in DOMAIN g : \E k \in 1..Len(h) : h[k].role \in roles /\ r[k] = p

\* Messages takes the messages with these roles, in order.
LEMMA MessagesAreRanked ==
  ASSUME NEW h \in Hist, NEW roles
  PROVE  Messages(h, roles) \in Hist /\ \E r : Ranks(r, Messages(h, roles), h, roles)
<1> DEFINE n == Len(h)
<1>1. PICK f : /\ Messages(h, roles) = f[n] /\ f[0] = <<>>
               /\ \A k \in 0..n : f[k] \in Hist
               /\ \A k \in 1..n : f[k] = IF h[k].role \in roles THEN Append(f[k - 1], h[k]) ELSE f[k - 1]
  BY MessagesGather
<1>2. n \in Nat /\ \A k \in 1..n : h[k] \in Msg /\ k - 1 \in 0..n /\ k \in 0..n
  BY HistoryFacts
<1> HIDE DEF n
<1>3. \A k \in 0..n : Len(f[k]) \in Nat /\ DOMAIN f[k] = 1..Len(f[k])
  BY <1>1, HistoryFacts
<1> DEFINE r == [k \in 0..n |-> Len(f[k])]
           Good(i) ==
             /\ \A k \in 0..i : r[k] <= r[i]
             /\ \A k \in 1..i : h[k].role \in roles => r[k] \in 1..r[i] /\ f[i][r[k]] = h[k]
             /\ \A p \in 1..r[i] : \E k \in 1..i : h[k].role \in roles /\ r[k] = p
           P == {i \in 0..n : Good(i)}
<1>4. \A k \in 0..n : r[k] = Len(f[k]) /\ r[k] \in Nat /\ DOMAIN f[k] = 1..r[k]
  BY <1>3
<1> HIDE DEF r
<1>5. ASSUME NEW k \in 1..n
      PROVE  /\ h[k].role \in roles => /\ r[k] = r[k - 1] + 1 /\ f[k][r[k]] = h[k]
                                       /\ \A p \in 1..r[k - 1] : f[k][p] = f[k - 1][p]
             /\ h[k].role \notin roles => r[k] = r[k - 1] /\ f[k] = f[k - 1]
  <2>1. k - 1 \in 0..n /\ k \in 0..n /\ f[k - 1] \in Hist /\ h[k] \in Msg
    BY <1>1, <1>2
  <2>2. CASE h[k].role \in roles
    <3>1. f[k] = Append(f[k - 1], h[k])
      BY <1>1, <2>2
    <3> DEFINE s == f[k - 1]
    <3>2. s \in Hist /\ Len(s) = r[k - 1]
      BY <1>4, <2>1
    <3> HIDE DEF s
    <3>3. /\ Len(Append(s, h[k])) = Len(s) + 1 /\ Append(s, h[k])[Len(s) + 1] = h[k]
          /\ \A p \in 1..Len(s) : Append(s, h[k])[p] = s[p]
      BY <2>1, <3>2, OneMore
    <3>4. r[k] = r[k - 1] + 1
      BY <1>4, <2>1, <3>1, <3>2, <3>3 DEF s
    <3> QED
      BY <2>2, <3>1, <3>2, <3>3, <3>4 DEF s
  <2>3. CASE h[k].role \notin roles
    <3>1. f[k] = f[k - 1]
      BY <1>1, <2>3
    <3> QED
      BY <1>4, <2>1, <2>3, <3>1
  <2> QED
    BY <2>2, <2>3
<1>6. 0 \in P
  <2>1. 0 \in 0..n /\ r[0] = 0
    BY <1>1, <1>2, <1>4
  <2>2. Good(0)
    BY <2>1
  <2> QED
    BY <2>1, <2>2
<1>7. ASSUME NEW i \in 1..n, i - 1 \in P
      PROVE  i \in P
  <2>1. Good(i - 1) /\ i - 1 \in 0..n /\ i \in 0..n /\ i \in Nat
    BY <1>2, <1>7
  <2>2. r[i - 1] \in Nat /\ r[i] \in Nat /\ r[i - 1] <= r[i]
    BY <1>4, <1>5, <2>1
  <2>3. \A k \in 0..i : k \in 0..(i - 1) \/ k = i
    BY <2>1
  <2>4. \A k \in 0..i : r[k] <= r[i]
    <3>1. \A k \in 0..(i - 1) : r[k] <= r[i - 1] /\ r[k] \in Nat
      BY <1>2, <1>4, <2>1
    <3>2. \A k \in 0..(i - 1) : r[k] <= r[i]
      BY <2>2, <3>1
    <3> QED
      BY <2>2, <2>3, <3>2
  <2>5. ASSUME NEW k \in 1..i, h[k].role \in roles
        PROVE  r[k] \in 1..r[i] /\ f[i][r[k]] = h[k]
    <3>1. CASE k = i
      BY <1>5, <2>2, <2>5, <3>1
    <3>2. CASE k # i
      <4>1. k \in 1..(i - 1)
        BY <2>1, <3>2
      <4>2. r[k] \in 1..r[i - 1] /\ f[i - 1][r[k]] = h[k]
        BY <2>1, <2>5, <4>1
      <4>3. f[i][r[k]] = f[i - 1][r[k]]
        BY <1>5, <4>2
      <4> QED
        BY <2>2, <4>2, <4>3
    <3> QED
      BY <3>1, <3>2
  <2>6. ASSUME NEW p \in 1..r[i]
        PROVE  \E k \in 1..i : h[k].role \in roles /\ r[k] = p
    <3>1. CASE p \in 1..r[i - 1]
      <4>1. PICK k \in 1..(i - 1) : h[k].role \in roles /\ r[k] = p
        BY <2>1, <3>1
      <4>2. k \in 1..i
        BY <2>1
      <4> QED
        BY <4>1, <4>2
    <3>2. CASE p \notin 1..r[i - 1]
      <4>1. h[i].role \in roles /\ p = r[i]
        BY <1>5, <2>2, <3>2
      <4> QED
        BY <2>1, <4>1
    <3> QED
      BY <3>1, <3>2
  <2>7. Good(i)
    BY <2>4, <2>5, <2>6
  <2> QED
    BY <2>1, <2>7
<1> HIDE DEF Good
<1>8. 0..n \subseteq P
  <2> HIDE DEF P
  <2> QED
    BY <1>2, <1>6, <1>7, UpTo
<1>9. n \in 0..n /\ \A i \in 0..n : Good(i)
  BY <1>2, <1>8
<1>10. \A k, l \in 0..n : k <= l => r[k] <= r[l]
  <2>1. ASSUME NEW k \in 0..n, NEW l \in 0..n, k <= l
        PROVE  r[k] <= r[l]
    <3>1. k \in 0..l /\ Good(l)
      BY <1>9, <2>1
    <3> QED
      BY <3>1 DEF Good
  <2> QED
    BY <2>1
<1>11. /\ \A k \in 1..n : h[k].role \in roles => r[k] \in 1..r[n] /\ f[n][r[k]] = h[k]
       /\ \A p \in 1..r[n] : \E k \in 1..n : h[k].role \in roles /\ r[k] = p
  BY <1>9 DEF Good
<1>12. f[n] \in Hist /\ DOMAIN f[n] = 1..r[n]
  BY <1>1, <1>4, <1>9
<1>13. \A k \in 1..n : r[k] = IF h[k].role \in roles THEN r[k - 1] + 1 ELSE r[k - 1]
  BY <1>5
<1>14. Ranks(r, f[n], h, roles)
  BY <1>4, <1>10, <1>11, <1>12, <1>13 DEF Ranks, n
<1> QED
  BY <1>1, <1>12, <1>14

Spoken == {"user", "assistant", "tool"}

\* The answers of a call are numbered after it.
LEMMA AnswersAreNext ==
  ASSUME NEW h \in Hist, Paired(h), Complete(h), NEW g, NEW r, Ranks(r, g, h, Spoken), NEW k \in Calling(h)
  PROVE  \A j \in 0..Len(h[k].calls) : k + j \in DOMAIN h /\ r[k + j] = r[k] + j
<1> DEFINE n == Len(h[k].calls)
           P == {j \in 0..n : r[k + j] = r[k] + j}
<1>1. /\ Len(h) \in Nat /\ DOMAIN h = 1..Len(h) /\ k \in 1..Len(h) /\ n \in Nat /\ DOMAIN h[k].calls = 1..n
      /\ k + n <= Len(h)
  BY HistoryFacts DEF Calling, Complete
<1>2. r[k] \in Nat /\ \A l \in 1..Len(h) : r[l] = IF h[l].role \in Spoken THEN r[l - 1] + 1 ELSE r[l - 1]
  BY <1>1 DEF Ranks
<1> HIDE DEF n
<1>3. 0 \in P
  BY <1>1, <1>2
<1>4. ASSUME NEW j \in 1..n, j - 1 \in P
      PROVE  j \in P
  <2>1. j \in 0..n /\ k + j \in 1..Len(h) /\ (k + j) - 1 = k + (j - 1)
    BY <1>1
  <2>2. h[k + j].role = "tool"
    BY <1>1, <2>1 DEF Paired
  <2>3. r[k + j] = r[k + (j - 1)] + 1
    BY <1>2, <2>1, <2>2 DEF Spoken
  <2>4. r[k + (j - 1)] = r[k] + (j - 1)
    BY <1>4
  <2>5. r[k + j] = r[k] + j
    BY <1>1, <1>2, <2>1, <2>3, <2>4
  <2> QED
    BY <2>1, <2>5
<1>5. 0..n \subseteq P
  <2> HIDE DEF P
  <2> QED
    BY <1>1, <1>3, <1>4, UpTo
<1>6. \A j \in 0..n : k + j \in DOMAIN h
  BY <1>1
<1> QED
  BY <1>5, <1>6 DEF n

\* What the provider is sent of a tidy history is well formed
\* (merge_system_messages).
LEMMA MergedIsWellFormed ==
  ASSUME NEW h \in Hist, Tidy(h), Complete(h)
  PROVE  WellFormed(merge_system_messages(h))
<1> DEFINE R == Messages(h, Spoken)
           m == merge_system_messages(h)
           one == SystemMessage(history_bytes(Messages(h, {"system"})), 0)
<1>1. R \in Hist /\ \E r : Ranks(r, R, h, Spoken)
  BY MessagesAreRanked
<1>2. m = R \/ m = <<one>> \o R
  BY Zenon DEF merge_system_messages, Spoken
<1>3. one.role = "system"
  BY DEF SystemMessage, Message
<1> HIDE DEF one, R, m
<1>4. Len(R) \in Nat /\ DOMAIN R = 1..Len(R)
  BY <1>1, HistoryFacts
<1>5. \E d \in {0, 1} : /\ DOMAIN m = 1..(d + Len(R)) /\ Len(m) = d + Len(R)
                        /\ \A p \in DOMAIN R : m[d + p] = R[p]
                        /\ d = 1 => m[1].role = "system"
  <2>1. CASE m = R
    <3>1. 0 + Len(R) = Len(R) /\ \A p \in DOMAIN R : 0 + p = p
      BY <1>4
    <3>2. DOMAIN m = 1..(0 + Len(R)) /\ Len(m) = 0 + Len(R)
      BY <1>4, <2>1, <3>1
    <3>3. \A p \in DOMAIN R : m[0 + p] = R[p]
      BY <2>1, <3>1
    <3>4. 0 \in {0, 1} /\ ~(0 = 1)
      OBVIOUS
    <3> QED
      BY <3>2, <3>3, <3>4, Zenon
  <2>2. CASE m = <<one>> \o R
    <3>1. R \in Seq(Msg \cup {one}) /\ <<one>> \in Seq(Msg \cup {one})
      BY <1>1 DEF Hist
    <3>2. <<one>> \o R \in Seq(Msg \cup {one}) /\ Len(<<one>> \o R) = 1 + Len(R) /\ (<<one>> \o R)[1] = one
      BY <1>4, <3>1
    <3>3. \A p \in 1..Len(R) : (<<one>> \o R)[1 + p] = R[p]
      BY <1>4, <3>1
    <3>4. DOMAIN m = 1..Len(m) /\ Len(m) = 1 + Len(R)
      BY <2>2, <3>2
    <3> QED
      BY <1>3, <1>4, <2>2, <3>2, <3>3, <3>4
  <2> QED
    BY <1>2, <2>1, <2>2
<1>6. PICK d \in {0, 1} : /\ DOMAIN m = 1..(d + Len(R)) /\ Len(m) = d + Len(R)
                          /\ \A p \in DOMAIN R : m[d + p] = R[p]
                          /\ d = 1 => m[1].role = "system"
  BY <1>5
<1>7. PICK r : Ranks(r, R, h, Spoken)
  BY <1>1
<1>8. /\ \A k \in 0..Len(h) : r[k] \in Nat
      /\ \A k, l \in 0..Len(h) : k <= l => r[k] <= r[l]
      /\ \A k \in 1..Len(h) : h[k].role \in Spoken => r[k] \in DOMAIN R /\ R[r[k]] = h[k]
      /\ \A p \in DOMAIN R : \E k \in 1..Len(h) : h[k].role \in Spoken /\ r[k] = p
  BY <1>7 DEF Ranks
<1>9. /\ Len(h) \in Nat /\ DOMAIN h = 1..Len(h) /\ Paired(h) /\ Prompted(h)
      /\ \A k \in DOMAIN h : Len(h[k].calls) \in Nat /\ DOMAIN h[k].calls = 1..Len(h[k].calls)
  BY HistoryFacts DEF Tidy
<1>10. ASSUME NEW k \in 1..Len(h), NEW l \in 1..Len(h), k < l, h[l].role \in Spoken
       PROVE  r[k] < r[l]
  <2>1. l - 1 \in 0..Len(h) /\ k \in 0..Len(h) /\ k <= l - 1
    BY <1>9, <1>10
  <2>2. r[k] <= r[l - 1] /\ r[k] \in Nat /\ r[l - 1] \in Nat
    BY <1>8, <2>1
  <2>3. r[l] = r[l - 1] + 1
    BY <1>7, <1>10 DEF Ranks
  <2> QED
    BY <2>2, <2>3
\* Each message that is not the merged record is one of h.
<1>11. ASSUME NEW k \in DOMAIN m, m[k].role # "system" \/ k # 1
       PROVE  \E i \in DOMAIN h : h[i].role \in Spoken /\ m[k] = h[i] /\ r[i] \in Nat /\ k = d + r[i]
  <2>1. k - d \in DOMAIN R /\ d + (k - d) = k
    BY <1>4, <1>6, <1>11
  <2>2. m[k] = R[k - d]
    BY <1>6, <2>1
  <2>3. PICK i \in 1..Len(h) : h[i].role \in Spoken /\ r[i] = k - d
    BY <1>8, <2>1
  <2>4. i \in DOMAIN h /\ i \in 0..Len(h) /\ R[r[i]] = h[i]
    BY <1>8, <1>9, <2>3
  <2> QED
    BY <1>8, <2>1, <2>2, <2>3, <2>4
<1>12. ASSUME NEW i \in DOMAIN h, h[i].role \in Spoken
       PROVE  d + r[i] \in DOMAIN m /\ m[d + r[i]] = h[i] /\ r[i] \in Nat
  BY <1>4, <1>6, <1>8, <1>9, <1>12
<1>13. \A k \in DOMAIN m : m[k].role = "system" => k = 1
  <2>1. ASSUME NEW k \in DOMAIN m, m[k].role = "system", k # 1
        PROVE  FALSE
    BY <1>11, <2>1 DEF Spoken
  <2> QED
    BY <2>1
<1>14. ASSUME NEW k \in 1..(Len(m) - 1), m[k].role = "user", m[k].of = 0
       PROVE  m[k + 1].role # "user"
  <2>1. SUFFICES ASSUME m[k + 1].role = "user" PROVE FALSE
    OBVIOUS
  <2>2. k \in DOMAIN m /\ k + 1 \in DOMAIN m /\ k \in Nat
    BY <1>4, <1>6
  <2>3. PICK i \in DOMAIN h : h[i].role \in Spoken /\ m[k] = h[i] /\ r[i] \in Nat /\ k = d + r[i]
    BY <1>11, <1>14, <2>2
  <2>4. PICK l \in DOMAIN h : h[l].role \in Spoken /\ m[k + 1] = h[l] /\ r[l] \in Nat /\ k + 1 = d + r[l]
    BY <1>11, <2>1, <2>2
  <2>5. r[l] = r[i] + 1
    BY <2>2, <2>3, <2>4
  <2>6. i < l
    <3>1. SUFFICES ASSUME l <= i PROVE FALSE
      BY <1>9
    <3>2. r[l] <= r[i]
      BY <1>8, <1>9, <3>1
    <3> QED
      BY <2>3, <2>4, <2>5, <3>2
  <2>7. PICK n \in Calling(h) : i < n /\ n < l
    BY <1>9, <1>14, <2>1, <2>3, <2>4, <2>6 DEF Prompted, Prompt
  <2>8. n \in DOMAIN h /\ h[n].role \in Spoken
    BY DEF Calling, Spoken
  <2>9. r[i] < r[n] /\ r[n] < r[l] /\ r[n] \in Nat
    BY <1>9, <1>10, <1>12, <2>4, <2>7, <2>8
  <2> QED
    BY <2>3, <2>4, <2>5, <2>9
<1>15. \A k \in Calling(m) : k \in DOMAIN m /\ m[k].role = "assistant"
  BY DEF Calling
<1>16. ASSUME NEW k \in Calling(m), NEW j \in DOMAIN m[k].calls
       PROVE  k + j \in DOMAIN m /\ m[k + j].role = "tool" /\ m[k + j].of = m[k].calls[j]
  <2>1. PICK i \in DOMAIN h : h[i].role \in Spoken /\ m[k] = h[i] /\ r[i] \in Nat /\ k = d + r[i]
    BY <1>11, <1>15
  <2>2. i \in Calling(h) /\ j \in 1..Len(h[i].calls) /\ j \in 0..Len(h[i].calls) /\ j \in Nat
    BY <1>9, <1>15, <2>1 DEF Calling
  <2>3. i + j \in DOMAIN h /\ r[i + j] = r[i] + j
    BY <1>7, <1>9, <2>2, AnswersAreNext
  <2>4. h[i + j].role = "tool" /\ h[i + j].of = h[i].calls[j]
    BY <1>9, <2>2, <2>3 DEF Paired
  <2>5. d + r[i + j] \in DOMAIN m /\ m[d + r[i + j]] = h[i + j]
    BY <1>12, <2>3, <2>4 DEF Spoken
  <2>6. d + r[i + j] = k + j
    BY <2>1, <2>2, <2>3
  <2> QED
    BY <2>1, <2>4, <2>5, <2>6
<1>17. ASSUME NEW k \in Tools(m)
       PROVE  \E j \in Calling(m) : j < k /\ k <= j + Len(m[j].calls)
  <2>1. k \in DOMAIN m /\ m[k].role = "tool"
    BY DEF Tools
  <2>2. PICK i \in DOMAIN h : h[i].role \in Spoken /\ m[k] = h[i] /\ r[i] \in Nat /\ k = d + r[i]
    BY <1>11, <2>1
  <2>3. i \in Tools(h)
    BY <2>1, <2>2 DEF Tools
  <2>4. PICK l \in Calling(h) : l < i /\ i <= l + Len(h[l].calls)
    BY <1>9, <2>3 DEF Paired
  <2>5. l \in DOMAIN h /\ h[l].role = "assistant" /\ Len(h[l].calls) \in Nat
    BY <1>9 DEF Calling
  <2>6. d + r[l] \in DOMAIN m /\ m[d + r[l]] = h[l] /\ r[l] \in Nat
    BY <1>12, <2>5 DEF Spoken
  <2>7. d + r[l] \in Calling(m)
    BY <2>5, <2>6 DEF Calling
  <2>8. i - l \in 0..Len(h[l].calls) /\ l + (i - l) = i /\ i - l > 0
    BY <1>9, <2>4, <2>5
  <2>9. r[i] = r[l] + (i - l)
    BY <1>7, <1>9, <2>4, <2>8, AnswersAreNext
  <2>10. d + r[l] < k /\ k <= (d + r[l]) + Len(m[d + r[l]].calls)
    BY <2>2, <2>5, <2>6, <2>8, <2>9
  <2> QED
    BY <2>7, <2>10
<1>18. WellFormed(m)
  BY <1>13, <1>14, <1>16, <1>17 DEF WellFormed, Calling
<1> QED
  BY <1>18 DEF m

-----------------------------------------------------------------------------
(* The invariant of the histories.                                         *)

\* An agent's history, and the one that a rollback would restore.
Filed(f, t) ==
  /\ Tidy(f.history) /\ Until(f.history, t)
  /\ Tidy(f.rollback) /\ Complete(f.rollback) /\ Settled(f.rollback) /\ Until(f.rollback, t)
  /\ f.observed => Settled(f.history)
  /\ NameCalls(f.ids, f.response, Len(f.response))

\* The agent has answered the first n calls of its response.
Midway(f, n, t) == Open(f.history, ProviderIds(f.response), n, t) /\ Settled(f.history)

AtRest    == {"idle", "direct"}
Asking    == {"charge", "provider"}
Answering == {"calls", "shell"} \cup Deciding
Answer    == {"after", "aborted"}

\* What the uppermost agent's history has come to, in the state p.
Reached(f, p, t) ==
  /\ p \in AtRest => Complete(f.history) /\ Settled(f.history)
  /\ p \in Asking => Complete(f.history) /\ Asked(f.history, t)
  /\ p \in Answering => Midway(f, f.index - 1, t)
  /\ p \in Answer => Midway(f, f.index, t)

\* The agents at work and their histories.  A subagent works on a call of the
\* root agent.
Books ==
  /\ \A n \in DOMAIN stack : Filed(stack[n], turn)
  /\ Reached(top, pc, turn)
  /\ IsChild => Midway(stack[1], stack[1].index - 1, turn)

\* The calls of the root agent that ran are on record, but for the current one
\* while it runs.
Credited(f, as, running, t) ==
  \A k \in DOMAIN as : as[k].scope = 0 =>
    Recorded(f.history, as[k].id[1], t) \/ (running /\ as[k].id[1] = f.response[f.index].id)

\* What the turn did, and what a rollback would undo.
Effects ==
  /\ pc = "idle" => EffectsAreKept
  /\ pc = "direct" => turn > 0 /\ Until(top.history, turn - 1) /\ acted = <<>>
  /\ pc \notin AtRest =>
       /\ turn > 0 /\ Until(stack[1].rollback, turn - 1)
       /\ stack[1].observed <=> RootActs # {}
       /\ ~evicted => Credited(stack[1], acted, IsChild \/ pc = "shell", turn)

\* One answer more.
LEMMA OneAnswer ==
  ASSUME NEW h \in Hist, NEW ids \in Seq(Nat), NEW n \in Nat, NEW t \in Nat, NEW size \in Nat,
         Tidy(h), Until(h, t), Open(h, ids, n, t), n + 1 <= Len(ids)
  PROVE  LET g == Append(h, ToolMessage(ids[n + 1], size, t))
         IN /\ g \in Hist /\ Grows(h, g) /\ Tidy(g) /\ Until(g, t) /\ Open(g, ids, n + 1, t)
            /\ Settled(h) => Settled(g)
            /\ Recorded(g, ids[n + 1], t)
<1> DEFINE m == ToolMessage(ids[n + 1], size, t)
           e == <<m>>
<1>1. Len(ids) \in Nat /\ n + 1 \in 1..Len(ids) /\ ids[n + 1] \in Nat
  <2>1. Len(ids) \in Nat /\ n + 1 \in 1..Len(ids)
    OBVIOUS
  <2> QED
    BY <2>1
<1>2. m \in Msg
  <2>1. <<>> \in Seq(Nat)
    OBVIOUS
  <2> QED
    BY <1>1, <2>1, MessagesAreTyped
<1>3. m.role = "tool" /\ m.of = ids[n + 1] /\ m.turn = t
  BY DEF ToolMessage, Message
<1> HIDE DEF m
<1>4. e \in Hist /\ Len(e) = 1 /\ DOMAIN e = {1} /\ e[1] = m
  BY <1>2 DEF Hist
<1>5. Append(h, m) = h \o e
  <2>1. h \in Seq(Msg)
    BY DEF Hist
  <2> QED
    BY <1>2, <2>1
<1> HIDE DEF e
<1>6. Follow(e, ids, n, t)
  BY <1>1, <1>3, <1>4 DEF Follow
<1>7. /\ h \o e \in Hist /\ Grows(h, h \o e)
      /\ Tidy(h \o e) /\ Until(h \o e, t) /\ Open(h \o e, ids, n + Len(e), t)
      /\ Settled(h) => Settled(h \o e)
      /\ \A j \in 1..(n + Len(e)) : Recorded(h \o e, ids[j], t)
  BY <1>4, <1>6, AnswersAdded
<1>8. n + 1 \in 1..(n + Len(e)) /\ n + Len(e) = n + 1
  BY <1>4
<1> QED
  BY <1>5, <1>7, <1>8 DEF m

\* The calls from the k-th on are answered, and all are.
LEMMA RestAnswered ==
  ASSUME NEW h \in Hist, NEW ids \in Seq(Nat), NEW k \in 1..(Len(ids) + 1), NEW t \in Nat,
         Tidy(h), Until(h, t), Open(h, ids, k - 1, t)
  PROVE  LET g == h \o Answers(SubSeq(ids, k, Len(ids)), 1, t)
         IN /\ g \in Hist /\ Tidy(g) /\ Until(g, t) /\ Complete(g)
            /\ Settled(h) => Settled(g)
            /\ \A id : Recorded(h, id, t) => Recorded(g, id, t)
<1> DEFINE rest == SubSeq(ids, k, Len(ids))
           e == Answers(rest, 1, t)
           n == k - 1
<1>1. Len(ids) \in Nat /\ n \in Nat /\ k \in Nat
  OBVIOUS
<1>2. rest \in Seq(Nat) /\ Len(rest) = Len(ids) - n /\ \A j \in 1..Len(rest) : rest[j] = ids[n + j]
  BY <1>1
<1> HIDE DEF rest
<1>3. e \in Hist
  <2>1. 1 \in Nat
    OBVIOUS
  <2> QED
    BY <1>2, <2>1, AnswersAreAHistory
<1>4. DOMAIN e = DOMAIN rest /\ \A j \in DOMAIN e : e[j].role = "tool" /\ e[j].of = rest[j] /\ e[j].turn = t
  BY DEF Answers, ToolMessage, Message
<1> HIDE DEF e
<1>5. DOMAIN rest = 1..Len(rest) /\ Len(rest) \in Nat /\ DOMAIN e = 1..Len(e) /\ Len(e) \in Nat
  BY <1>2, <1>3, HistoryFacts
<1>6. Len(e) = Len(rest)
  BY <1>4, <1>5
<1>7. n + Len(e) = Len(ids)
  BY <1>1, <1>2, <1>5, <1>6
<1>9. Open(h, ids, n, t)
  OBVIOUS
<1> HIDE DEF n
<1>8. Follow(e, ids, n, t)
  <2>1. \A j \in DOMAIN e : j \in 1..Len(rest) /\ rest[j] = ids[n + j]
    BY <1>2, <1>4, <1>5
  <2>2. n + Len(e) <= Len(ids)
    BY <1>1, <1>7
  <2> QED
    BY <1>4, <2>1, <2>2 DEF Follow
<1>10. /\ h \o e \in Hist /\ Grows(h, h \o e)
       /\ Tidy(h \o e) /\ Until(h \o e, t) /\ Open(h \o e, ids, n + Len(e), t)
       /\ Settled(h) => Settled(h \o e)
  BY <1>1, <1>3, <1>8, <1>9, AnswersAdded
<1>11. Complete(h \o e)
  BY <1>7, <1>10, AllAnswered DEF Tidy
<1>12. \A id : Recorded(h, id, t) => Recorded(h \o e, id, t)
  BY <1>10, GrowthKeeps
<1> QED
  BY <1>10, <1>11, <1>12 DEF e, rest

\* What an agent's parts are.
LEMMA AgentFacts ==
  ASSUME NEW f \in Agent
  PROVE  /\ f.history \in Hist /\ f.rollback \in Hist
         /\ f.response \in Seq(ToolCall) /\ Len(f.response) \in Nat /\ f.index \in Nat
         /\ ProviderIds(f.response) \in Seq(Nat) /\ Len(ProviderIds(f.response)) = Len(f.response)
         /\ \A j \in 1..Len(f.response) : ProviderIds(f.response)[j] = f.response[j].id
<1> DEFINE c == f.response
           s == ProviderIds(c)
<1>1. f.history \in Hist /\ f.rollback \in Hist /\ c \in Seq(ToolCall) /\ f.index \in Nat
  BY DEF Agent
<1> HIDE DEF c
<1>2. Len(c) \in Nat /\ DOMAIN c = 1..Len(c) /\ \A j \in 1..Len(c) : c[j] \in ToolCall
  BY <1>1
<1>3. s \in [1..Len(c) -> Nat] /\ \A j \in 1..Len(c) : s[j] = c[j].id
  BY <1>2 DEF ProviderIds, ToolCall
<1> HIDE DEF s
<1>4. s \in Seq(Nat) /\ Len(s) = Len(c)
  BY <1>2, <1>3
<1> QED
  BY <1>1, <1>2, <1>3, <1>4 DEF c, s

\* The current call of an agent is answered.
LEMMA AnsweredBooks ==
  ASSUME NEW t \in Nat, NEW size \in Nat, NEW f \in Agent, Filed(f, t), f.index \in 1..Len(f.response),
         Midway(f, f.index - 1, t),
         NEW g, g.history = Append(f.history, ToolMessage(f.response[f.index].id, size, t)),
         g.rollback = f.rollback, g.response = f.response, g.ids = f.ids
  PROVE  /\ Filed(g, t) /\ Midway(g, f.index, t)
         /\ \A id : Recorded(f.history, id, t) => Recorded(g.history, id, t)
         /\ Recorded(g.history, f.response[f.index].id, t)
<1> DEFINE ids == ProviderIds(f.response)
           h == f.history
           n == f.index - 1
<1>1. /\ h \in Hist /\ ids \in Seq(Nat) /\ Len(ids) = Len(f.response) /\ ids[f.index] = f.response[f.index].id
      /\ f.index \in Nat /\ n \in Nat /\ n + 1 = f.index /\ n + 1 <= Len(ids) /\ ProviderIds(g.response) = ids
  BY AgentFacts
<1>2. Tidy(h) /\ Until(h, t) /\ Open(h, ids, n, t) /\ Settled(h)
  BY DEF Filed, Midway
<1>3. g.history = Append(h, ToolMessage(ids[n + 1], size, t))
  BY <1>1
<1> HIDE DEF ids, h, n
<1>4. /\ g.history \in Hist /\ Grows(h, g.history) /\ Tidy(g.history) /\ Until(g.history, t) /\ Open(g.history, ids, n + 1, t)
      /\ Settled(h) => Settled(g.history)
      /\ Recorded(g.history, ids[n + 1], t)
  BY <1>1, <1>2, <1>3, OneAnswer
<1>5. \A id : Recorded(h, id, t) => Recorded(g.history, id, t)
  BY <1>1, <1>4, GrowthKeeps
<1>6. Filed(g, t)
  BY <1>2, <1>4 DEF Filed
<1>7. Midway(g, f.index, t)
  BY <1>1, <1>2, <1>4 DEF Midway
<1> QED
  BY <1>1, <1>4, <1>5, <1>6, <1>7 DEF h

\* The rest of an agent's calls are answered without being run.
LEMMA RestBooks ==
  ASSUME Agents, turn \in Nat, Filed(top, turn), NEW k \in 1..(Len(top.response) + 1), Midway(top, k - 1, turn)
  PROVE  /\ WithAnswers(k) \in Hist /\ Tidy(WithAnswers(k)) /\ Until(WithAnswers(k), turn)
         /\ Complete(WithAnswers(k)) /\ Settled(WithAnswers(k))
         /\ \A id : Recorded(top.history, id, turn) => Recorded(WithAnswers(k), id, turn)
<1> DEFINE ids == ProviderIds(top.response)
           h == top.history
<1>1. top \in Agent
  BY TopIsAnAgent
<1>2. h \in Hist /\ ids \in Seq(Nat) /\ Len(ids) = Len(top.response)
  BY <1>1, AgentFacts
<1>3. Tidy(h) /\ Until(h, turn) /\ Open(h, ids, k - 1, turn) /\ Settled(h)
  BY DEF Filed, Midway
<1>4. WithAnswers(k) = h \o Answers(SubSeq(ids, k, Len(ids)), 1, turn)
  BY <1>2 DEF WithAnswers, AnswersFrom
<1>5. k \in 1..(Len(ids) + 1)
  BY <1>2
<1> HIDE DEF ids, h
<1> QED
  BY <1>2, <1>3, <1>4, <1>5, RestAnswered DEF h

\* A conversation begins with a record of the system.
LEMMA PromptIsTidy ==
  ASSUME NEW m \in Msg, m.role = "system"
  PROVE  <<m>> \in Hist /\ Tidy(<<m>>) /\ Complete(<<m>>) /\ Settled(<<m>>) /\ Until(<<m>>, m.turn)
<1> DEFINE h == <<m>>
<1>1. h \in Hist /\ Len(h) = 1 /\ DOMAIN h = {1} /\ h[1] = m /\ m.turn \in Nat
  BY DEF Hist, Msg
<1> HIDE DEF h
<1>2. Calling(h) = {} /\ Tools(h) = {} /\ ~Prompt(h[1])
  BY <1>1 DEF Calling, Tools, Prompt
<1>3. Paired(h) /\ Complete(h)
  BY <1>2 DEF Paired, Complete
<1>4. Prompted(h) /\ Settled(h)
  BY <1>1, <1>2 DEF Prompted, Settled
<1>5. Rising(h) /\ Until(h, m.turn)
  BY <1>1 DEF Rising, Until
<1> QED
  BY <1>1, <1>3, <1>4, <1>5 DEF h, Tidy

\* What is not later than a turn is not later than the next.
LEMMA UntilLater ==
  ASSUME NEW h \in Hist, NEW t \in Nat, NEW u \in Nat, t <= u, Until(h, t)
  PROVE  Until(h, u)
  BY HistoryFacts DEF Until

\* Nor are the histories of an agent.
LEMMA FiledLater ==
  ASSUME NEW f \in Agent, NEW t \in Nat, NEW u \in Nat, t <= u, Filed(f, t)
  PROVE  Filed(f, u)
  BY AgentFacts, UntilLater DEF Filed

\* The root agent and the uppermost one.
LEMMA Uppermost ==
  ASSUME Agents
  PROVE  /\ 1 \in DOMAIN stack /\ Len(stack) \in DOMAIN stack /\ stack[1] \in Agent /\ top \in Agent
         /\ ~IsChild => stack[1] = top /\ DOMAIN stack = {1} /\ Len(stack) = 1
         /\ IsChild => stack[2] = top /\ DOMAIN stack = {1, 2} /\ Len(stack) = 2
  BY TopIsAnAgent DEF Agents, IsChild, top

-----------------------------------------------------------------------------
(* Steps that keep the histories.                                          *)

\* The step leaves every history, and every record of what was done.
LEMMA StillBooks ==
  ASSUME Books, Effects, UNCHANGED <<stack, turn, acted, evicted>>,
         \/ pc' = pc /\ outcome' = outcome
         \/ pc \in Asking /\ pc' \in Asking
         \/ pc \in Answering \ {"shell"} /\ pc' \in Answering \ {"shell"}
  PROVE  Books' /\ Effects'
<1>1. top' = top /\ (IsChild' <=> IsChild) /\ RootActs' = RootActs
  BY DEF top, IsChild, RootActs
<1>2. pc' = pc \/ (pc \notin AtRest /\ pc' \notin AtRest /\ (pc' = "shell" <=> pc = "shell"))
  BY DEF AtRest, Asking, Answering, Deciding
<1>3. Reached(top, pc', turn)
  BY DEF Books, Reached, AtRest, Asking, Answering, Answer, Deciding
<1>4. Books'
  BY <1>1, <1>3 DEF Books
<1>5. CASE pc' = pc /\ outcome' = outcome
  <2>1. EffectsAreKept' <=> EffectsAreKept
    BY <1>1, <1>5 DEF EffectsAreKept, Records
  <2> QED
    BY <1>1, <1>4, <1>5, <2>1 DEF Effects
<1>6. CASE pc \notin AtRest /\ pc' \notin AtRest /\ (pc' = "shell" <=> pc = "shell")
  <2>1. pc' # "idle" /\ pc' # "direct"
    BY <1>6 DEF AtRest
  <2> QED
    BY <1>1, <1>4, <1>6, <2>1 DEF Effects
<1> QED
  BY <1>2, <1>5, <1>6 DEF AtRest, Asking, Answering, Deciding

\* The processes, the clock, the walk and the decision.
LEMMA StillActions ==
  ASSUME Books, Effects,
         \/ StatAt \/ ReadLinkAt \/ OpenAt \/ WalkTimesOut \/ WalkDone
         \/ \E left \in BOOLEAN : ShellKilled(left)
         \/ \E held \in BOOLEAN : ShellExits(held)
         \/ HolderEnds \/ Cancel \/ Expire
         \/ \E b \in Binding : Swap(b)
         \/ Decide \/ ApprovalStopped
         \/ \E d \in {"approve", "deny", "abort_turn"} : Human(d)
  PROVE  Books' /\ Effects'
<1>1. UNCHANGED <<stack, turn, acted, evicted>>
  BY DEF StatAt, ReadLinkAt, OpenAt, WalkTimesOut, Walks, WalkDone, ShellKilled, ShellExits, HolderEnds, Cancel, Expire, Swap,
         Decide, ApprovalStopped, Human, ghosts
<1>2. CASE Decide
  <2>1. pc = "decide" /\ pc' \in {"approve", "decided"}
    BY <1>2 DEF Decide
  <2> QED
    BY <1>1, <2>1, StillBooks DEF Answering, Deciding
<1>3. CASE ApprovalStopped \/ \E d \in {"approve", "deny", "abort_turn"} : Human(d)
  <2>1. pc = "approve" /\ pc' = "decided"
    BY <1>3 DEF ApprovalStopped, Human
  <2> QED
    BY <1>1, <2>1, StillBooks DEF Answering, Deciding
<1>4. CASE WalkDone
  <2>1. pc = "prepare" /\ pc' = "decide"
    BY <1>4 DEF WalkDone
  <2> QED
    BY <1>1, <2>1, StillBooks DEF Answering, Deciding
<1>5. CASE \/ StatAt \/ ReadLinkAt \/ OpenAt \/ WalkTimesOut
           \/ \E left \in BOOLEAN : ShellKilled(left)
           \/ \E held \in BOOLEAN : ShellExits(held)
           \/ HolderEnds \/ Cancel \/ Expire
           \/ \E b \in Binding : Swap(b)
  <2>1. pc' = pc /\ outcome' = outcome
    BY <1>5 DEF StatAt, ReadLinkAt, OpenAt, WalkTimesOut, Walks, ShellKilled, ShellExits, HolderEnds, Cancel, Expire, Swap
  <2> QED
    BY <1>1, <2>1, StillBooks
<1> QED
  BY <1>2, <1>3, <1>4, <1>5

\* What the root agent did stays on record, whatever a subagent does.
SameRootActs == RootActs' = RootActs /\ \A k \in RootActs : acted'[k] = acted[k]

\* With the root agent at g, what it has done by then is on record.
RootKept(g) ==
  /\ Until(g.rollback, turn - 1)
  /\ g.observed <=> RootActs' # {}
  /\ ~evicted' => Credited(g, acted', pc' = "shell", turn)

\* The uppermost agent is g from now on, and its turn goes on.
LEMMA TopBooks ==
  ASSUME Agents, Books, Effects, NEW g, stack' = SetTop(g), turn' = turn, pc \notin AtRest, pc' \notin AtRest,
         Filed(g, turn), Reached(g, pc', turn),
         IsChild => SameRootActs /\ evicted' = evicted,
         ~IsChild => RootKept(g)
  PROVE  Books' /\ Effects'
<1>1. /\ 1 \in DOMAIN stack /\ Len(stack) \in DOMAIN stack
      /\ ~IsChild => stack[1] = top /\ DOMAIN stack = {1} /\ Len(stack) = 1
      /\ IsChild => stack[2] = top /\ DOMAIN stack = {1, 2} /\ Len(stack) = 2
  BY Uppermost
<1>2. /\ DOMAIN stack' = DOMAIN stack /\ Len(stack') = Len(stack)
      /\ stack'[Len(stack)] = g /\ \A n \in DOMAIN stack : n # Len(stack) => stack'[n] = stack[n]
  BY <1>1 DEF SetTop, Agents
<1>3. top' = g /\ (IsChild' <=> IsChild)
  BY <1>2 DEF top, IsChild
<1>4. \A n \in DOMAIN stack' : Filed(stack'[n], turn)
  BY <1>2 DEF Books
<1>5. CASE IsChild
  <2>1. stack'[1] = stack[1]
    BY <1>1, <1>2, <1>5
  <2>2. Books'
    BY <1>3, <1>4, <1>5, <2>1 DEF Books
  <2>3. /\ turn > 0 /\ Until(stack[1].rollback, turn - 1)
        /\ stack[1].observed <=> RootActs # {}
        /\ ~evicted => Credited(stack[1], acted, TRUE, turn)
    BY <1>5 DEF Effects, AtRest
  <2>4. ~evicted' => Credited(stack[1], acted', TRUE, turn)
    BY <1>5, <2>3 DEF Credited, RootActs, SameRootActs
  <2>5. /\ turn' > 0 /\ Until(stack'[1].rollback, turn' - 1)
        /\ stack'[1].observed <=> RootActs' # {}
        /\ ~evicted' => Credited(stack'[1], acted', (IsChild \/ pc = "shell")', turn')
    BY <1>3, <1>5, <2>1, <2>3, <2>4 DEF SameRootActs
  <2>6. Effects'
    BY <2>5 DEF Effects, AtRest
  <2> QED
    BY <2>2, <2>6
<1>6. CASE ~IsChild
  <2>1. stack'[1] = g
    BY <1>1, <1>2, <1>6
  <2>2. Books'
    BY <1>3, <1>4, <1>6 DEF Books
  <2>3. turn > 0
    BY DEF Effects, AtRest
  <2>4. /\ turn' > 0 /\ Until(stack'[1].rollback, turn' - 1)
        /\ stack'[1].observed <=> RootActs' # {}
        /\ ~evicted' => Credited(stack'[1], acted', (IsChild \/ pc = "shell")', turn')
    BY <1>3, <1>6, <2>1, <2>3 DEF RootKept
  <2>5. Effects'
    BY <2>4 DEF Effects, AtRest
  <2> QED
    BY <2>2, <2>5
<1> QED
  BY <1>5, <1>6

\* A call on record has its result.
LEMMA RecordedHasResult ==
  ASSUME NEW h \in Hist, Paired(h), NEW a, Recorded(h, a.id[1], turn)
  PROVE  Records(h, a)
<1>1. PICK k \in Calling(h) : \E j \in DOMAIN h[k].calls : h[k].turn = turn /\ h[k].calls[j] = a.id[1] /\ k + j \in DOMAIN h
  BY DEF Recorded
<1>2. PICK j \in DOMAIN h[k].calls : h[k].turn = turn /\ h[k].calls[j] = a.id[1] /\ k + j \in DOMAIN h
  BY <1>1
<1>3. h[k + j].role = "tool" /\ k \in DOMAIN h
  BY <1>2 DEF Paired, Calling
<1> QED
  BY <1>2, <1>3 DEF Records

\* The history that a turn leaves keeps what the turn did, and a failed turn
\* that did nothing leaves its records only.
Leaves(h, how) ==
  /\ Tidy(h) /\ Complete(h) /\ Settled(h) /\ Until(h, turn)
  /\ ~evicted' => \A k \in RootActs : Recorded(h, acted[k].id[1], turn)
  /\ how \in {"failed", "cancelled", "exhausted"} /\ RootActs = {} =>
       \A k \in DOMAIN h : h[k].turn = turn => h[k].role = "system"

\* An agent's turn ends.
LEMMA EndsBooks ==
  ASSUME Agents, Books, Effects, pc \notin AtRest, turn \in Nat, NEW h \in Hist, NEW how, Ends(h, how),
         ~IsChild => Leaves(h, how), IsChild => evicted' = evicted,
         turn' = turn, acted' = acted
  PROVE  Books' /\ Effects'
<1>1. /\ 1 \in DOMAIN stack /\ stack[1] \in Agent /\ Filed(stack[1], turn)
      /\ ~IsChild => stack[1] = top
  BY Uppermost DEF Books
<1>2. RootActs' = RootActs
  BY DEF RootActs
<1>3. CASE IsChild
  <2> DEFINE f == stack[1]
             m == ToolMessage(f.response[f.index].id, 1, turn)
             g == [f EXCEPT !.history = Append(@, m)]
  <2>1. stack' = <<g>> /\ pc' = IF how = "aborted" THEN "aborted" ELSE "after"
    BY <1>3 DEF Ends
  <2>2. f.index \in 1..Len(f.response) /\ Midway(f, f.index - 1, turn)
    <3>1. f.index <= Len(f.response) /\ SoundAgent(f)
      BY <1>1, <1>3 DEF Agents
    <3>2. f.index \in 1..(Len(f.response) + 1) /\ Len(f.response) \in Nat
      BY <1>1, <3>1, AgentFacts DEF SoundAgent
    <3> QED
      BY <1>3, <3>1, <3>2 DEF Books
  <2> HIDE DEF m
  <2>3. /\ g.history = Append(f.history, m)
        /\ g.rollback = f.rollback /\ g.response = f.response /\ g.ids = f.ids /\ g.index = f.index
        /\ g.observed = f.observed
    BY <1>1 DEF Agent
  <2> HIDE DEF f, g
  <2>4. /\ Filed(g, turn) /\ Midway(g, f.index, turn)
        /\ \A id : Recorded(f.history, id, turn) => Recorded(g.history, id, turn)
        /\ Recorded(g.history, f.response[f.index].id, turn)
    <3>1. f \in Agent /\ Filed(f, turn) /\ 1 \in Nat
      BY <1>1 DEF f
    <3> QED
      BY <2>2, <2>3, <3>1, AnsweredBooks DEF m
  <2>5. DOMAIN stack' = {1} /\ Len(stack') = 1 /\ stack'[1] = g
    BY <2>1
  <2>6. top' = g /\ ~IsChild'
    BY <2>5 DEF top, IsChild
  <2>7. Reached(g, pc', turn)
    BY <2>1, <2>3, <2>4 DEF Reached, AtRest, Asking, Answering, Answer, Deciding
  <2>8. Books'
    BY <2>4, <2>5, <2>6, <2>7 DEF Books
  <2>9. /\ turn > 0 /\ Until(f.rollback, turn - 1)
        /\ f.observed <=> RootActs # {}
        /\ ~evicted => Credited(f, acted, TRUE, turn)
    BY <1>3 DEF Effects, AtRest, f
  <2>10. ~evicted => Credited(g, acted, FALSE, turn)
    BY <2>4, <2>9 DEF Credited
  <2>11. pc' # "idle" /\ pc' # "direct" /\ pc' # "shell"
    BY <2>1
  <2>12. /\ turn' > 0 /\ Until(stack'[1].rollback, turn' - 1)
         /\ stack'[1].observed <=> RootActs' # {}
         /\ ~evicted' => Credited(stack'[1], acted', (IsChild \/ pc = "shell")', turn')
    <3>1. (IsChild \/ pc = "shell")' = FALSE
      BY <2>6, <2>11
    <3>2. turn' > 0 /\ Until(stack'[1].rollback, turn' - 1) /\ (stack'[1].observed <=> RootActs' # {})
      BY <1>2, <2>3, <2>5, <2>9
    <3>3. ~evicted' => ~evicted
      BY <1>3
    <3>4. ~evicted' => Credited(stack'[1], acted', FALSE, turn')
      BY <2>5, <2>10, <3>3, Zenon
    <3> QED
      BY <3>1, <3>2, <3>4
  <2>13. Effects'
    BY <2>11, <2>12 DEF Effects, AtRest
  <2> QED
    BY <2>8, <2>13
<1>4. CASE ~IsChild
  <2> DEFINE g == Frame(h, Tool, 0)
  <2>1. stack' = <<g>> /\ pc' = "idle" /\ outcome' = how
    BY <1>4 DEF Ends
  <2>2. /\ g.history = h /\ g.rollback = h /\ g.response = <<>> /\ g.ids = <<>> /\ g.observed = FALSE
    BY DEF Frame
  <2> HIDE DEF g
  <2>3. DOMAIN stack' = {1} /\ Len(stack') = 1 /\ stack'[1] = g
    BY <2>1
  <2>4. top' = g /\ ~IsChild'
    BY <2>3 DEF top, IsChild
  <2>5. NameCalls(<<>>, <<>>, Len(<<>>))
    BY DEF NameCalls
  <2>6. Filed(g, turn)
    BY <1>4, <2>2, <2>5 DEF Filed, Leaves
  <2>7. Reached(g, pc', turn)
    BY <1>4, <2>1, <2>2 DEF Reached, Leaves, AtRest, Asking, Answering, Answer, Deciding
  <2>8. Books'
    BY <2>3, <2>4, <2>6, <2>7 DEF Books
  <2>9. ~evicted' => \A k \in RootActs : Records(h, acted[k])
    BY <1>4, RecordedHasResult DEF Leaves, Tidy
  <2>10. \A k \in RootActs : Records(h, acted[k]) => Records(top.history, acted[k])'
    BY <2>2, <2>4 DEF Records
  <2>11. EffectsAreKept'
    <3>1. evicted' \/ \A k \in RootActs' : Records(top.history, acted[k])'
      BY <1>2, <2>9, <2>10
    <3>2. outcome' \in {"failed", "cancelled", "exhausted"} /\ RootActs' = {} /\ turn' > 0 =>
            \A k \in DOMAIN top'.history : top'.history[k].turn = turn' => top'.history[k].role = "system"
      BY <1>2, <1>4, <2>1, <2>2, <2>4 DEF Leaves
    <3> QED
      BY <3>1, <3>2 DEF EffectsAreKept
  <2>12. Effects'
    BY <2>1, <2>11 DEF Effects, AtRest
  <2> QED
    BY <2>8, <2>12
<1> QED
  BY <1>3, <1>4

\* An agent's turn fails: what it did is kept with the histories of the calls,
\* and otherwise the turn is rolled back (preserve_or_rollback_failed_turn).
LEMMA FailsBooks ==
  ASSUME Agents, Books, Effects, pc \notin AtRest, turn \in Nat, NEW h \in Hist, NEW how, FailsWith(h, how),
         ~IsChild => pc # "shell",
         top.observed => /\ Tidy(h) /\ Complete(h) /\ Settled(h) /\ Until(h, turn)
                         /\ \A id : Recorded(top.history, id, turn) => Recorded(h, id, turn),
         turn' = turn, acted' = acted, evicted' = evicted
  PROVE  Books' /\ Effects'
<1> DEFINE m == SystemMessage(1, turn)
           g == preserve_or_rollback(h, top.rollback, top.observed, turn)
<1>1. top \in Agent /\ Filed(top, turn) /\ (~IsChild => stack[1] = top)
  BY Uppermost DEF Books
<1>2. g \in Hist
  BY <1>1, AgentFacts, RecordIsAHistory
<1>3. Ends(g, how)
  BY DEF FailsWith
<1>4. m \in Msg /\ m.role = "system" /\ m.turn = turn
  <2>1. 1 \in Nat /\ <<>> \in Seq(Nat)
    OBVIOUS
  <2> QED
    BY <2>1, MessagesAreTyped DEF SystemMessage, Message
<1>5. g = IF top.observed THEN Append(h, m) ELSE top.rollback
  BY DEF preserve_or_rollback
<1> HIDE DEF m, g
<1>6. ASSUME ~IsChild
      PROVE  Leaves(g, how)
  <2>1. /\ turn > 0 /\ Until(top.rollback, turn - 1)
        /\ top.observed <=> RootActs # {}
        /\ ~evicted => Credited(top, acted, FALSE, turn)
    BY <1>1, <1>6 DEF Effects, AtRest
  <2>2. CASE top.observed
    <3>1. g = Append(h, m)
      BY <1>5, <2>2
    <3>2. Tidy(g) /\ Complete(g) /\ Settled(g) /\ Until(g, turn)
      BY <1>4, <2>2, <3>1, SystemAdded
    <3>3. \A id : Recorded(h, id, turn) => Recorded(g, id, turn)
      BY <1>2, <1>4, <3>1, OneMore, GrowthKeeps
    <3>4. ~evicted => \A k \in RootActs : Recorded(g, acted[k].id[1], turn)
      BY <2>1, <2>2, <3>3 DEF Credited, RootActs
    <3> QED
      BY <2>1, <2>2, <3>2, <3>4 DEF Leaves
  <2>3. CASE ~top.observed
    <3>1. g = top.rollback /\ RootActs = {}
      BY <1>5, <2>1, <2>3
    <3>2. Tidy(g) /\ Complete(g) /\ Settled(g) /\ Until(g, turn)
      BY <1>1, <3>1 DEF Filed
    <3>3. \A k \in DOMAIN g : g[k].turn # turn
      BY <1>2, <2>1, <3>1, HistoryFacts DEF Until
    <3> QED
      BY <3>1, <3>2, <3>3 DEF Leaves
  <2> QED
    BY <2>2, <2>3
<1> QED
  BY <1>2, <1>3, <1>6, EndsBooks

\* A turn of the root agent that is aborted keeps what it did.
LEMMA AbortsBooks ==
  ASSUME Agents, Books, Effects, pc \notin AtRest, pc # "shell", turn \in Nat, NEW h \in Hist, Ends(h, "aborted"),
         Tidy(h), Complete(h), Settled(h), Until(h, turn),
         \A id : Recorded(top.history, id, turn) => Recorded(h, id, turn),
         turn' = turn, acted' = acted, evicted' = evicted
  PROVE  Books' /\ Effects'
<1>1. ASSUME ~IsChild
      PROVE  Leaves(h, "aborted")
  <2>1. ~evicted => Credited(top, acted, FALSE, turn)
    BY <1>1, Uppermost DEF Effects, AtRest
  <2>2. ~evicted' => \A k \in RootActs : Recorded(h, acted[k].id[1], turn)
    BY <2>1 DEF Credited, RootActs
  <2> QED
    BY <2>2 DEF Leaves
<1> QED
  BY <1>1, EndsBooks

\* A call, or a request, at which the turn ends.
LEMMA EndingBooks ==
  ASSUME Agents, Stage, Books, Effects, turn \in Nat,
         \/ ProviderFails \/ ProviderStopped \/ CallCancelled \/ CallExhausted \/ DecidedCancelled \/ Aborted
         \/ SubagentAborted
         \/ Charge /\ ~MayRequest
         \/ AfterCall /\ cancelled
  PROVE  Books' /\ Effects'
<1>1. turn' = turn /\ acted' = acted /\ evicted' = evicted
  BY DEF ProviderFails, ProviderStopped, CallCancelled, CallExhausted, DecidedCancelled, Aborted, SubagentAborted, Charge,
         AfterCall, ghosts
<1>2. Filed(top, turn) /\ top \in Agent /\ top.history \in Hist /\ Reached(top, pc, turn)
  BY Uppermost, AgentFacts DEF Books
<1>3. top.index \in 1..(Len(top.response) + 1) /\ top.index \in Nat /\ Len(top.response) \in Nat
  BY TopIsAnAgent DEF SoundAgent
<1>4. CASE pc \in Asking /\ \E how : FailsWith(top.history, how)
  <2>1. pc \notin AtRest /\ pc # "shell"
    BY <1>4 DEF Asking, AtRest
  <2>2. Complete(top.history)
    BY <1>2, <1>4 DEF Reached
  <2>3. top.observed => Tidy(top.history) /\ Complete(top.history) /\ Settled(top.history) /\ Until(top.history, turn)
    BY <1>2, <2>2 DEF Filed
  <2> QED
    BY <1>1, <1>2, <1>4, <2>1, <2>3, FailsBooks
<1>5. ASSUME NEW k \in 1..(Len(top.response) + 1), Midway(top, k - 1, turn)
      PROVE  /\ WithAnswers(k) \in Hist /\ Tidy(WithAnswers(k)) /\ Until(WithAnswers(k), turn)
             /\ Complete(WithAnswers(k)) /\ Settled(WithAnswers(k))
             /\ \A id : Recorded(top.history, id, turn) => Recorded(WithAnswers(k), id, turn)
  BY <1>2, <1>5, RestBooks
<1>6. ASSUME NEW k \in 1..(Len(top.response) + 1), Midway(top, k - 1, turn), pc \notin AtRest, pc # "shell"
      PROVE  /\ \A how : FailsWith(WithAnswers(k), how) => Books' /\ Effects'
             /\ CancelledAt(k) => Books' /\ Effects'
             /\ Ends(WithAnswers(k), "aborted") => Books' /\ Effects'
  <2>1. ASSUME NEW how, FailsWith(WithAnswers(k), how)
        PROVE  Books' /\ Effects'
    BY <1>1, <1>5, <1>6, <2>1, FailsBooks
  <2>2. ASSUME CancelledAt(k)
        PROVE  Books' /\ Effects'
    <3>1. CASE top.observed
      BY <2>1, <2>2, <3>1 DEF CancelledAt
    <3>2. CASE ~top.observed
      <4>1. FailsWith(top.history, "cancelled")
        BY <2>2, <3>2 DEF CancelledAt
      <4> QED
        BY <1>1, <1>2, <1>6, <3>2, <4>1, FailsBooks
    <3> QED
      BY <3>1, <3>2
  <2>3. ASSUME Ends(WithAnswers(k), "aborted")
        PROVE  Books' /\ Effects'
    BY <1>1, <1>5, <1>6, <2>3, AbortsBooks
  <2> QED
    BY <2>1, <2>2, <2>3
<1>7. CASE ProviderFails \/ ProviderStopped \/ (Charge /\ ~MayRequest)
  BY <1>4, <1>7 DEF ProviderFails, ProviderStopped, Charge, Asking
<1>8. CASE pc \in {"calls", "decided"}
  <2>1. Midway(top, top.index - 1, turn) /\ pc \notin AtRest /\ pc # "shell"
    BY <1>2, <1>8 DEF Reached, Answering, Deciding, AtRest
  <2>2. \/ FailsWith(WithAnswers(top.index), "exhausted") \/ CancelledAt(top.index)
        \/ Ends(WithAnswers(top.index), "aborted")
    BY <1>8 DEF ProviderFails, ProviderStopped, CallCancelled, CallExhausted, DecidedCancelled, Aborted, SubagentAborted,
                Charge, AfterCall
  <2> QED
    BY <1>3, <1>6, <2>1, <2>2
<1>9. CASE pc \in Answer
  <2>1. Midway(top, top.index, turn) /\ pc \notin AtRest /\ pc # "shell" /\ top.index <= Len(top.response)
    BY <1>2, <1>9 DEF Reached, Answer, AtRest, Stage, Acting
  <2>2. top.index + 1 \in 1..(Len(top.response) + 1) /\ (top.index + 1) - 1 = top.index
    BY <1>3, <2>1
  <2>3. \/ FailsWith(WithAnswers(top.index + 1), "cancelled")
        \/ Ends(WithAnswers(top.index + 1), "aborted")
    BY <1>9 DEF ProviderFails, ProviderStopped, CallCancelled, CallExhausted, DecidedCancelled, Aborted, SubagentAborted,
                Charge, AfterCall, AtCall, Answer
  <2>4. Midway(top, (top.index + 1) - 1, turn)
    BY <2>1, <2>2
  <2> QED
    BY <1>6, <2>1, <2>2, <2>3, <2>4
<1> QED
  BY <1>7, <1>8, <1>9 DEF CallCancelled, CallExhausted, DecidedCancelled, Aborted, SubagentAborted, AfterCall, AtCall, Answer

\* The root agent has done nothing more, and nothing is lost.
LEMMA SameCredit ==
  ASSUME Agents, Effects, ~IsChild, pc \notin AtRest, pc # "shell", pc' # "shell", NEW g,
         g.rollback = top.rollback, g.observed = top.observed,
         ~evicted' => ~evicted /\ \A id : Recorded(top.history, id, turn) => Recorded(g.history, id, turn),
         acted' = acted
  PROVE  RootKept(g)
<1>1. /\ Until(top.rollback, turn - 1)
      /\ top.observed <=> RootActs # {}
      /\ ~evicted => Credited(top, acted, FALSE, turn)
  BY Uppermost DEF Effects, AtRest
<1>2. RootActs' = RootActs
  BY DEF RootActs
<1>3. ~evicted' => Credited(g, acted', pc' = "shell", turn)
  BY <1>1 DEF Credited
<1> QED
  BY <1>1, <1>2, <1>3 DEF RootKept

\* An agent passes to the next call, or to the next request.
LEMMA PassingBooks ==
  ASSUME Agents, Books, Effects, turn \in Nat,
         CallsDone \/ (AfterCall /\ ~cancelled) \/ (Charge /\ MayRequest)
  PROVE  Books' /\ Effects'
<1>1. turn' = turn /\ acted' = acted /\ evicted' = evicted
  BY DEF CallsDone, AfterCall, Charge, ghosts
<1>2. Filed(top, turn) /\ top \in Agent /\ Reached(top, pc, turn) /\ (~IsChild => stack[1] = top)
  BY Uppermost DEF Books
<1>3. top.index \in 1..(Len(top.response) + 1) /\ top.index \in Nat /\ Len(top.response) \in Nat
  BY TopIsAnAgent DEF SoundAgent
<1>4. CASE Charge /\ MayRequest
  <2>1. UNCHANGED stack /\ pc \in Asking /\ pc' \in Asking
    BY <1>4 DEF Charge, Asking
  <2> QED
    BY <1>1, <2>1, StillBooks
<1>5. RootActs' = RootActs /\ SameRootActs
  BY <1>1 DEF RootActs, SameRootActs
<1>7. CASE AfterCall /\ ~cancelled
  <2> DEFINE g == Passed(top)
  <2>1. pc = "after" /\ stack' = SetTop(g) /\ pc' = "calls"
    BY <1>7 DEF AfterCall
  <2>2. g.history = top.history /\ g.rollback = top.rollback /\ g.response = top.response /\ g.ids = top.ids
        /\ g.observed = top.observed /\ g.index = top.index + 1
    BY <1>2 DEF Passed, Agent
  <2> HIDE DEF g
  <2>3. pc \notin AtRest /\ pc' \notin AtRest /\ pc # "shell" /\ pc' # "shell"
    BY <2>1 DEF AtRest
  <2>4. Midway(top, top.index, turn)
    BY <1>2, <2>1 DEF Reached, Answer
  <2>5. (top.index + 1) - 1 = top.index
    BY <1>3
  <2>6. Midway(g, g.index - 1, turn)
    BY <2>2, <2>4, <2>5 DEF Midway
  <2>7. Filed(g, turn)
    BY <1>2, <2>2 DEF Filed
  <2>8. Reached(g, pc', turn)
    BY <2>1, <2>6 DEF Reached, AtRest, Asking, Answering, Answer
  <2>9. ~evicted' => ~evicted /\ \A id : Recorded(top.history, id, turn) => Recorded(g.history, id, turn)
    BY <1>1, <2>2
  <2>10. ~IsChild => RootKept(g)
    BY <1>1, <2>2, <2>3, <2>9, SameCredit
  <2> QED
    BY <1>1, <1>5, <2>1, <2>3, <2>7, <2>8, <2>10, TopBooks
<1>8. CASE CallsDone
  <2>1. pc = "calls" /\ pc' = "charge" /\ UNCHANGED stack /\ top.index > Len(top.response)
    BY <1>8 DEF CallsDone
  <2> DEFINE ids == ProviderIds(top.response)
  <2>2. top.history \in Hist /\ ids \in Seq(Nat) /\ Len(ids) = Len(top.response)
    BY <1>2, AgentFacts
  <2>3. top.index - 1 = Len(ids)
    BY <1>3, <2>1, <2>2
  <2>4. Midway(top, Len(ids), turn)
    BY <1>2, <2>1, <2>3 DEF Reached, Answering
  <2>5. Open(top.history, ids, Len(ids), turn) /\ Paired(top.history)
    BY <1>2, <2>4 DEF Midway, Filed, Tidy
  <2> HIDE DEF ids
  <2>6. Complete(top.history)
    BY <2>2, <2>5, AllAnswered
  <2>7. Asked(top.history, turn)
    BY <2>5 DEF Open, Asked
  <2>8. Reached(top, pc', turn)
    BY <2>1, <2>6, <2>7 DEF Reached, AtRest, Asking, Answering, Answer, Deciding
  <2>9. top' = top /\ (IsChild' <=> IsChild)
    BY <2>1 DEF top, IsChild
  <2>10. Books'
    BY <1>1, <2>1, <2>8, <2>9 DEF Books
  <2>11. pc' # "idle" /\ pc' # "direct" /\ (pc' = "shell" <=> pc = "shell") /\ pc \notin AtRest
    BY <2>1 DEF AtRest
  <2>12. Effects'
    BY <1>1, <1>5, <2>1, <2>9, <2>11 DEF Effects
  <2> QED
    BY <2>10, <2>12
<1> QED
  BY <1>4, <1>7, <1>8

-----------------------------------------------------------------------------
(* Answers to calls.                                                       *)

\* What an act of the uppermost agent adds.
LEMMA ActAdds ==
  ASSUME Agents, Stage, Deeds, Books, Acts, pc \in Deciding
  PROVE  /\ IsChild => SameRootActs
         /\ ~IsChild => /\ RootActs' # {}
                        /\ \A k \in DOMAIN acted' : acted'[k].scope = 0 =>
                             (k \in RootActs /\ acted'[k] = acted[k]) \/ acted'[k].id[1] = Call.id
<1> DEFINE d == [scope |-> top.scope, id |-> top.ids[top.index], call |-> Call, object |-> walk.object,
                 facts |-> CallFacts, human |-> decided.human, tools |-> top.tools]
<1>1. acted' = Append(acted, d)
  BY DEF Acts
<1>2. d.scope = top.scope /\ d.id = top.ids[top.index]
  OBVIOUS
<1> HIDE DEF d
<1>3. acted \in Seq(Deed) /\ Len(acted) \in Nat /\ DOMAIN acted = 1..Len(acted)
  BY DEF Deeds
<1>4. /\ Len(acted') = Len(acted) + 1 /\ acted'[Len(acted) + 1] = d
      /\ \A k \in 1..Len(acted) : acted'[k] = acted[k]
      /\ DOMAIN acted' = 1..(Len(acted) + 1)
  <2>1. acted \in Seq(Deed \cup {d}) /\ d \in Deed \cup {d}
    BY <1>3
  <2> QED
    BY <1>1, <1>3, <2>1
<1>5. \A k \in DOMAIN acted' : k = Len(acted) + 1 \/ (k \in DOMAIN acted /\ acted'[k] = acted[k])
  BY <1>3, <1>4
<1>6. DOMAIN acted \subseteq DOMAIN acted' /\ Len(acted) + 1 \in DOMAIN acted'
  BY <1>3, <1>4
<1>7. IsChild => SameRootActs
  <2>1. SUFFICES ASSUME IsChild PROVE SameRootActs
    OBVIOUS
  <2>2. top.scope # 0
    <3>1. stack[2] = top /\ stack[2].scope = stack[1].delegations /\ stack[1].delegations > 0 /\ stack[1] \in Agent
      BY <2>1, Uppermost DEF Agents
    <3>2. stack[1].delegations \in Nat
      BY <3>1 DEF Agent
    <3> QED
      BY <3>1, <3>2
  <2>3. \A k \in DOMAIN acted' : acted'[k].scope = 0 => k \in DOMAIN acted /\ acted'[k] = acted[k]
    BY <1>2, <1>4, <1>5, <2>2
  <2>4. \A k \in DOMAIN acted : acted'[k] = acted[k] /\ k \in DOMAIN acted'
    BY <1>3, <1>4, <1>6
  <2>5. RootActs' = RootActs
    BY <2>3, <2>4 DEF RootActs
  <2> QED
    BY <2>4, <2>5 DEF SameRootActs, RootActs
<1>8. ASSUME ~IsChild
      PROVE  /\ RootActs' # {}
             /\ \A k \in DOMAIN acted' : acted'[k].scope = 0 =>
                  (k \in RootActs /\ acted'[k] = acted[k]) \/ acted'[k].id[1] = Call.id
  <2>1. top.scope = 0 /\ top \in Agent /\ Filed(top, turn)
    BY <1>8, Uppermost DEF Agents, Books
  <2>2. d.scope = 0
    BY <1>2, <2>1
  <2>3. Len(acted) + 1 \in RootActs'
    BY <1>4, <1>6, <2>2 DEF RootActs
  <2>4. top.index \in 1..Len(top.response)
    BY TopIsAnAgent DEF Stage, SoundAgent
  <2>5. d.id[1] = Call.id
    BY <1>2, <2>1, <2>4 DEF Filed, NameCalls, Call
  <2>6. \A k \in DOMAIN acted' : acted'[k].scope = 0 =>
          (k \in RootActs /\ acted'[k] = acted[k]) \/ acted'[k].id[1] = Call.id
    BY <1>4, <1>5, <2>5 DEF RootActs
  <2> QED
    BY <2>3, <2>6
<1> QED
  BY <1>7, <1>8

\* What the root agent has done is on record when the current call is.
LEMMA PaidCredit ==
  ASSUME Agents, Stage, Deeds, Books, Effects, ~IsChild, pc \notin AtRest, NEW g,
         g.rollback = top.rollback,
         \A id : Recorded(top.history, id, turn) => Recorded(g.history, id, turn),
         Recorded(g.history, Call.id, turn), evicted' = evicted,
         \/ acted' = acted /\ g.observed = top.observed
         \/ Acts /\ pc \in Deciding /\ g.observed = TRUE
  PROVE  RootKept(g)
<1>1. /\ Until(top.rollback, turn - 1)
      /\ top.observed <=> RootActs # {}
      /\ ~evicted => Credited(top, acted, pc = "shell", turn)
  BY Uppermost DEF Effects, AtRest
<1>2. Call.id = top.response[top.index].id
  BY DEF Call
<1>3. ~evicted => \A k \in RootActs : Recorded(g.history, acted[k].id[1], turn)
  <2>1. SUFFICES ASSUME ~evicted, NEW k \in RootActs PROVE Recorded(g.history, acted[k].id[1], turn)
    OBVIOUS
  <2>2. k \in DOMAIN acted /\ acted[k].scope = 0
    BY DEF RootActs
  <2>3. Recorded(top.history, acted[k].id[1], turn) \/ acted[k].id[1] = Call.id
    BY <1>1, <1>2, <2>1, <2>2 DEF Credited
  <2> QED
    BY <2>3
<1>4. /\ g.observed <=> RootActs' # {}
      /\ ~evicted' => Credited(g, acted', pc' = "shell", turn)
  <2>1. CASE acted' = acted /\ g.observed = top.observed
    <3>1. RootActs' = RootActs
      BY <2>1 DEF RootActs
    <3>2. ~evicted' => Credited(g, acted', pc' = "shell", turn)
      BY <1>3, <2>1 DEF Credited, RootActs
    <3> QED
      BY <1>1, <2>1, <3>1, <3>2
  <2>2. CASE Acts /\ pc \in Deciding /\ g.observed = TRUE
    <3>1. /\ RootActs' # {}
          /\ \A k \in DOMAIN acted' : acted'[k].scope = 0 =>
               (k \in RootActs /\ acted'[k] = acted[k]) \/ acted'[k].id[1] = Call.id
      BY <2>2, ActAdds
    <3>2. ~evicted' => Credited(g, acted', pc' = "shell", turn)
      BY <1>3, <3>1 DEF Credited
    <3> QED
      BY <2>2, <3>1, <3>2
  <2> QED
    BY <2>1, <2>2
<1> QED
  BY <1>1, <1>4 DEF RootKept

\* The current call is answered, and over.
LEMMA AnsweringBooks ==
  ASSUME Agents, Stage, Deeds, Books, Effects, turn \in Nat, pc \in Answering, top.index <= Len(top.response),
         NEW size \in Nat, NEW g,
         g.history = Append(top.history, ToolMessage(Call.id, size, turn)),
         g.rollback = top.rollback, g.response = top.response, g.ids = top.ids,
         \/ g.index = top.index /\ pc' = "after"
         \/ g.index = top.index + 1 /\ pc' = "calls",
         stack' = SetTop(g), turn' = turn, evicted' = evicted,
         \/ acted' = acted /\ g.observed = top.observed
         \/ Acts /\ pc \in Deciding /\ g.observed = TRUE
  PROVE  Books' /\ Effects'
<1>1. top \in Agent /\ Filed(top, turn) /\ Reached(top, pc, turn)
  BY Uppermost DEF Books
<1>2. top.index \in 1..Len(top.response) /\ top.index \in Nat /\ Call.id = top.response[top.index].id
  BY TopIsAnAgent DEF SoundAgent, Call
<1>3. pc \notin AtRest /\ pc' \notin AtRest /\ Midway(top, top.index - 1, turn)
  BY <1>1 DEF AtRest, Answering, Deciding, Reached
<1>4. /\ Filed(g, turn) /\ Midway(g, top.index, turn)
      /\ \A id : Recorded(top.history, id, turn) => Recorded(g.history, id, turn)
      /\ Recorded(g.history, Call.id, turn)
  BY <1>1, <1>2, <1>3, AnsweredBooks
<1>5. (top.index + 1) - 1 = top.index
  BY <1>2
<1>6. Reached(g, pc', turn)
  BY <1>4, <1>5 DEF Reached, AtRest, Asking, Answering, Answer, Deciding
<1>7. IsChild => SameRootActs
  BY ActAdds DEF SameRootActs, RootActs
<1>8. ~IsChild => RootKept(g)
  BY <1>3, <1>4, PaidCredit
<1> QED
  BY <1>3, <1>4, <1>6, <1>7, <1>8, TopBooks

\* What is left of an agent that answers.
LEMMA AnsweredParts ==
  ASSUME NEW f \in Agent, NEW size
  PROVE  LET g == Answered(f, size)
             p == Passed(g)
             o == [g EXCEPT !.observed = TRUE]
         IN /\ g.history = Append(f.history, ToolMessage(Call.id, size, turn))
            /\ g.rollback = f.rollback /\ g.response = f.response /\ g.ids = f.ids /\ g.index = f.index
            /\ g.observed = f.observed
            /\ p.history = g.history /\ p.rollback = f.rollback /\ p.response = f.response /\ p.ids = f.ids
            /\ p.index = f.index + 1 /\ p.observed = f.observed
            /\ o.history = g.history /\ o.rollback = f.rollback /\ o.response = f.response /\ o.ids = f.ids
            /\ o.index = f.index /\ o.observed = TRUE
<1> DEFINE h == Append(f.history, ToolMessage(Call.id, size, turn))
           g == Answered(f, size)
<1>1. g = [f EXCEPT !.history = h]
  BY DEF Answered
<1> HIDE DEF h
<1>2. /\ g.history = h /\ g.rollback = f.rollback /\ g.response = f.response /\ g.ids = f.ids /\ g.index = f.index
      /\ g.observed = f.observed
      /\ DOMAIN g = {"history", "rollback", "response", "ids", "index", "observed", "auto", "retried", "delegations",
                     "tools", "scope", "seen"}
  BY <1>1 DEF Agent
<1> HIDE DEF g
<1>3. Passed(g) = [g EXCEPT !.index = g.index + 1]
  BY DEF Passed
<1> QED
  BY <1>2, <1>3 DEF g, h

\* A call that is refused, or whose result is in.
LEMMA AnsweringActions ==
  ASSUME Agents, Stage, Deeds, Books, Effects, turn \in Nat,
         \/ CallOverLimit \/ Denied \/ ShellReaped \/ ReadObject
         \/ \E size \in {1, LargeResult} : ShellOutput(size)
         \/ CallCharged /\ Call.tool \notin top.tools
         \/ Delegate /\ Call.tools = None
  PROVE  Books' /\ Effects'
<1>1. turn' = turn /\ evicted' = evicted
  BY DEF CallOverLimit, Denied, ShellReaped, ShellOutput, ShellResult, CallCharged, ReadObject, Delegate, ghosts
<1>2. top \in Agent /\ 1 \in Nat /\ LargeResult \in Nat
  BY Uppermost, EngineAssumption
<1>3. pc \in Deciding \cup Acting => top.index <= Len(top.response)
  BY DEF Stage
<1> DEFINE p == Passed(Answered(top, 1))
<1>4. /\ p.history = Append(top.history, ToolMessage(Call.id, 1, turn))
      /\ p.rollback = top.rollback /\ p.response = top.response /\ p.ids = top.ids
      /\ p.index = top.index + 1 /\ p.observed = top.observed
  BY <1>2, AnsweredParts
<1> HIDE DEF p
<1>5. CASE CallOverLimit
  <2>1. pc = "calls" /\ pc' = "calls" /\ stack' = SetTop(p) /\ acted' = acted /\ top.index <= Len(top.response)
    BY <1>5 DEF CallOverLimit, AtCall, ghosts, p
  <2> QED
    BY <1>1, <1>2, <1>4, <2>1, AnsweringBooks DEF Answering
<1>6. CASE CallCharged /\ Call.tool \notin top.tools
  <2>1. pc = "calls" /\ pc' = "calls" /\ stack' = SetTop(p) /\ acted' = acted /\ top.index <= Len(top.response)
    BY <1>6 DEF CallCharged, AtCall, ghosts, p
  <2> QED
    BY <1>1, <1>2, <1>4, <2>1, AnsweringBooks DEF Answering
<1>7. ASSUME NEW size \in {1, LargeResult}, pc \in {"decided", "shell"}, pc' = "after", stack' = SetTop(Answered(top, size)),
             acted' = acted
      PROVE  Books' /\ Effects'
  <2> DEFINE g == Answered(top, size)
  <2>1. /\ g.history = Append(top.history, ToolMessage(Call.id, size, turn))
        /\ g.rollback = top.rollback /\ g.response = top.response /\ g.ids = top.ids
        /\ g.index = top.index /\ g.observed = top.observed
    BY <1>2, AnsweredParts
  <2>2. pc \in Answering /\ top.index <= Len(top.response) /\ size \in Nat /\ stack' = SetTop(g)
    BY <1>2, <1>3, <1>7 DEF Answering, Deciding, Acting
  <2> HIDE DEF g
  <2> QED
    BY <1>1, <1>7, <2>1, <2>2, AnsweringBooks
<1>8. CASE Denied
  BY <1>7, <1>8 DEF Denied, ghosts
<1>9. CASE ShellReaped \/ \E size \in {1, LargeResult} : ShellOutput(size)
  <2>1. PICK size \in {1, LargeResult} : pc = "shell" /\ ShellResult(size)
    BY <1>9 DEF ShellReaped, ShellOutput
  <2> QED
    BY <1>7, <2>1 DEF ShellResult, ghosts
<1>10. CASE ReadObject
  <2> DEFINE g == [Answered(top, 1) EXCEPT !.observed = TRUE]
  <2>1. /\ g.history = Append(top.history, ToolMessage(Call.id, 1, turn))
        /\ g.rollback = top.rollback /\ g.response = top.response /\ g.ids = top.ids
        /\ g.index = top.index /\ g.observed = TRUE
    BY <1>2, AnsweredParts
  <2>2. pc = "decided" /\ pc' = "after" /\ Acts /\ stack' = SetTop(g)
    BY <1>10 DEF ReadObject, Runs
  <2>3. pc \in Answering /\ pc \in Deciding /\ top.index <= Len(top.response)
    BY <1>3, <2>2 DEF Answering, Deciding
  <2> HIDE DEF g
  <2> QED
    BY <1>1, <1>2, <2>1, <2>2, <2>3, AnsweringBooks
<1>11. CASE Delegate /\ Call.tools = None
  <2> DEFINE f == [top EXCEPT !.observed = TRUE, !.delegations = @ + 1]
             g == Answered(f, 1)
  <2>1. f \in Agent /\ f.history = top.history /\ f.rollback = top.rollback /\ f.response = top.response /\ f.ids = top.ids
        /\ f.index = top.index /\ f.observed = TRUE
    <3>1. f = [[top EXCEPT !.observed = TRUE] EXCEPT !.delegations = top.delegations + 1]
      BY <1>2 DEF Agent
    <3>2. top.delegations + 1 \in Nat
      BY <1>2 DEF Agent
    <3> QED
      BY <1>2, <3>1, <3>2 DEF Agent
  <2>2. pc = "decided" /\ pc' = "after" /\ Acts /\ stack' = SetTop(g)
    BY <1>11 DEF Delegate, Runs
  <2> HIDE DEF f
  <2>3. /\ g.history = Append(top.history, ToolMessage(Call.id, 1, turn))
        /\ g.rollback = top.rollback /\ g.response = top.response /\ g.ids = top.ids
        /\ g.index = top.index /\ g.observed = TRUE
    BY <2>1, AnsweredParts
  <2>4. pc \in Answering /\ pc \in Deciding /\ top.index <= Len(top.response)
    BY <1>3, <2>2 DEF Answering, Deciding
  <2> HIDE DEF g
  <2> QED
    BY <1>1, <1>2, <2>2, <2>3, <2>4, AnsweringBooks
<1> QED
  BY <1>5, <1>6, <1>8, <1>9, <1>10, <1>11

\* A call is charged, and goes on to its decision.
LEMMA ChargedBooks ==
  ASSUME Books, Effects, CallCharged, Call.tool \in top.tools
  PROVE  Books' /\ Effects'
<1>1. UNCHANGED <<stack, turn, acted, evicted>> /\ pc = "calls" /\ pc' \in {"decide", "prepare"}
  BY DEF CallCharged, AtCall, ghosts
<1> QED
  BY <1>1, StillBooks DEF Answering, Deciding

\* A command starts: its call is the current one.
LEMMA StartingShellBooks ==
  ASSUME Agents, Stage, Deeds, Books, Effects, turn \in Nat, StartShell
  PROVE  Books' /\ Effects'
<1> DEFINE g == [top EXCEPT !.observed = TRUE]
<1>1. /\ pc = "decided" /\ pc' = "shell" /\ stack' = SetTop(g) /\ Acts /\ turn' = turn /\ evicted' = evicted
  BY DEF StartShell, Runs
<1>2. /\ top \in Agent /\ Filed(top, turn) /\ Reached(top, pc, turn)
      /\ ~IsChild => stack[1] = top
  BY Uppermost DEF Books
<1>3. /\ g.history = top.history /\ g.rollback = top.rollback /\ g.response = top.response /\ g.ids = top.ids
      /\ g.index = top.index /\ g.observed = TRUE
  BY <1>2 DEF Agent
<1> HIDE DEF g
<1>4. pc \in Deciding /\ pc \in Answering /\ pc' \in Answering /\ pc \notin AtRest /\ pc' \notin AtRest
  BY <1>1 DEF Deciding, Answering, AtRest
<1>5. Midway(top, top.index - 1, turn)
  BY <1>2, <1>4 DEF Reached
<1>6. Filed(g, turn) /\ Midway(g, g.index - 1, turn)
  BY <1>2, <1>3, <1>5 DEF Filed, Midway
<1>7. Reached(g, pc', turn)
  BY <1>1, <1>6 DEF Reached, AtRest, Asking, Answering, Answer, Deciding
<1>8. IsChild => SameRootActs
  BY <1>1, <1>4, ActAdds
<1>9. ASSUME ~IsChild
      PROVE  RootKept(g)
  <2>1. /\ RootActs' # {}
        /\ \A k \in DOMAIN acted' : acted'[k].scope = 0 =>
             (k \in RootActs /\ acted'[k] = acted[k]) \/ acted'[k].id[1] = Call.id
    BY <1>1, <1>4, <1>9, ActAdds
  <2>2. /\ Until(top.rollback, turn - 1)
        /\ ~evicted => Credited(top, acted, FALSE, turn)
    BY <1>1, <1>2, <1>4, <1>9 DEF Effects, AtRest
  <2>3. ~evicted => \A k \in RootActs : Recorded(g.history, acted[k].id[1], turn)
    BY <1>3, <2>2 DEF Credited, RootActs
  <2>4. Call.id = g.response[g.index].id
    BY <1>3 DEF Call
  <2>5. ~evicted' => Credited(g, acted', pc' = "shell", turn)
    BY <1>1, <2>1, <2>3, <2>4 DEF Credited
  <2> QED
    BY <1>3, <2>1, <2>2, <2>5 DEF RootKept
<1> QED
  BY <1>1, <1>4, <1>6, <1>7, <1>8, <1>9, TopBooks

\* A subagent starts, with a history of its own.
LEMMA DelegatingBooks ==
  ASSUME Agents, Stage, Deeds, Books, Effects, turn \in Nat, Delegate, Call.tools # None, ~IsChild
  PROVE  Books' /\ Effects'
<1> DEFINE g == [top EXCEPT !.observed = TRUE, !.delegations = @ + 1]
           m == SystemMessage(1, turn)
           prompt == <<m>>
           i == Append(prompt, UserMessage(turn))
           c == [Frame(prompt, SubagentTools(Call), g.delegations) EXCEPT !.history = i]
<1>1. /\ pc = "decided" /\ pc' = "charge" /\ Acts /\ turn' = turn /\ evicted' = evicted
      /\ stack' = Append(SetTop(g), c)
  BY DEF Delegate, Runs
<1>2. top \in Agent /\ Filed(top, turn) /\ Reached(top, pc, turn) /\ stack[1] = top /\ Len(stack) = 1 /\ DOMAIN stack = {1}
  BY Uppermost DEF Books
<1>3. /\ g.history = top.history /\ g.rollback = top.rollback /\ g.response = top.response /\ g.ids = top.ids
      /\ g.index = top.index /\ g.observed = TRUE
  BY <1>2 DEF Agent
<1>4. c.history = i /\ c.rollback = prompt /\ c.response = <<>> /\ c.ids = <<>> /\ c.observed = FALSE
  BY DEF Frame
<1>5. /\ m \in Msg /\ m.role = "system" /\ m.turn = turn
      /\ UserMessage(turn) \in Msg /\ UserMessage(turn).role = "user" /\ UserMessage(turn).turn = turn
  <2>1. 1 \in Nat /\ <<>> \in Seq(Nat)
    OBVIOUS
  <2> QED
    BY <2>1, MessagesAreTyped DEF SystemMessage, UserMessage, Message
<1> HIDE DEF c, g
<1>6. SetTop(g) = <<g>>
  BY <1>2 DEF SetTop, Agents
<1>7. Len(stack') = 2 /\ stack'[1] = g /\ stack'[2] = c /\ DOMAIN stack' = {1, 2}
  <2>1. <<g>> \in Seq({g, c}) /\ Len(<<g>>) = 1 /\ <<g>>[1] = g /\ c \in {g, c}
    OBVIOUS
  <2>2. /\ Len(Append(<<g>>, c)) = 2 /\ DOMAIN Append(<<g>>, c) = {1, 2}
        /\ Append(<<g>>, c)[1] = g /\ Append(<<g>>, c)[2] = c
    BY ONLY <2>1, Pushed
  <2> QED
    BY <1>1, <1>6, <2>2
<1>8. top' = c /\ IsChild'
  BY <1>7 DEF top, IsChild
<1> HIDE DEF m
<1>9. prompt \in Hist /\ Tidy(prompt) /\ Complete(prompt) /\ Settled(prompt) /\ Until(prompt, turn)
  BY <1>5, PromptIsTidy
<1> HIDE DEF prompt
<1>10. Tidy(i) /\ Complete(i) /\ Until(i, turn) /\ Asked(i, turn)
  BY <1>5, <1>9, UserAdded
<1>11. NameCalls(<<>>, <<>>, Len(<<>>))
  BY DEF NameCalls
<1>12. Filed(c, turn) /\ Reached(c, pc', turn)
  BY <1>1, <1>4, <1>9, <1>10, <1>11 DEF Filed, Reached, AtRest, Asking, Answering, Answer, Deciding
<1>13. Midway(top, top.index - 1, turn)
  BY <1>1, <1>2 DEF Reached, Answering, Deciding
<1>14. Filed(g, turn) /\ Midway(g, g.index - 1, turn)
  BY <1>2, <1>3, <1>13 DEF Filed, Midway
<1>15. Books'
  BY <1>1, <1>7, <1>8, <1>12, <1>14 DEF Books
<1>16. /\ RootActs' # {}
       /\ \A k \in DOMAIN acted' : acted'[k].scope = 0 =>
            (k \in RootActs /\ acted'[k] = acted[k]) \/ acted'[k].id[1] = Call.id
  BY <1>1, ActAdds DEF Deciding
<1>17. /\ turn > 0 /\ Until(top.rollback, turn - 1)
       /\ ~evicted => Credited(top, acted, FALSE, turn)
  BY <1>1, <1>2 DEF Effects, AtRest
<1>18. ~evicted => \A k \in RootActs : Recorded(g.history, acted[k].id[1], turn)
  BY <1>3, <1>17 DEF Credited, RootActs
<1>19. Call.id = g.response[g.index].id
  BY <1>3 DEF Call
<1>20. ~evicted => Credited(g, acted', TRUE, turn)
  BY <1>16, <1>18, <1>19 DEF Credited
<1>21. /\ turn' > 0 /\ Until(stack'[1].rollback, turn' - 1)
       /\ stack'[1].observed <=> RootActs' # {}
       /\ ~evicted' => Credited(stack'[1], acted', (IsChild \/ pc = "shell")', turn')
  <2>1. (IsChild \/ pc = "shell")' = TRUE
    BY <1>8
  <2>2. turn' > 0 /\ Until(stack'[1].rollback, turn' - 1) /\ (stack'[1].observed <=> RootActs' # {})
    BY <1>1, <1>3, <1>7, <1>16, <1>17
  <2>3. ~evicted' => Credited(stack'[1], acted', TRUE, turn')
    BY <1>1, <1>7, <1>20, Zenon
  <2> QED
    BY <2>1, <2>2, <2>3
<1>22. Effects'
  BY <1>1, <1>21 DEF Effects, AtRest
<1> QED
  BY <1>15, <1>22

-----------------------------------------------------------------------------
(* Answers of the provider.                                                *)

\* A message of a turn counts as one.
LEMMA WrittenMore ==
  ASSUME NEW h \in Hist, NEW m \in Msg
  PROVE  Cardinality(WrittenBy(Append(h, m), m.turn)) = Cardinality(WrittenBy(h, m.turn)) + 1
<1> DEFINE g == Append(h, m)
           n == Len(h) + 1
           W == WrittenBy(h, m.turn)
<1>1. g \in Hist /\ Len(g) = n /\ g[n] = m /\ \A k \in 1..Len(h) : g[k] = h[k]
  BY OneMore
<1>2. Len(h) \in Nat /\ DOMAIN h = 1..Len(h) /\ DOMAIN g = 1..n
  BY <1>1, HistoryFacts
<1>3. W \subseteq 1..Len(h) /\ IsFiniteSet(W)
  BY WrittenAreFew
<1> HIDE DEF g
<1>4. WrittenBy(g, m.turn) = W \cup {n} /\ n \notin W
  BY <1>1, <1>2, <1>3 DEF WrittenBy
<1> HIDE DEF W, n
<1>5. Cardinality(W \cup {n}) = Cardinality(W) + 1
  BY <1>3, <1>4, FS_AddElement
<1> QED
  BY <1>4, <1>5 DEF g, W

\* Eviction shows in the messages of the turn.
LEMMA EvictsShows ==
  ASSUME NEW h
  PROVE  /\ IsChild => ~Evicts(h)
         /\ ~IsChild /\ ~Evicts(h) => ~(Cardinality(WrittenBy(h, turn)) < Cardinality(WrittenBy(top.history, turn)))
  BY DEF Evicts, WrittenBy

\* The history with the provider's answer.
LEMMA RespondedHistory ==
  ASSUME turn \in Nat, top.history \in Hist, Tidy(top.history), Complete(top.history), Until(top.history, turn),
         Asked(top.history, turn), NEW m \in Msg, m.role = "assistant", m.turn = turn, NEW h, h = Append(Staged, m)
  PROVE  /\ h \in Hist /\ Tidy(h) /\ Until(h, turn) /\ Settled(h) /\ Asked(h, turn) /\ Open(h, m.calls, 0, turn)
         /\ Len(m.calls) = 0 => Complete(h)
         /\ ~IsChild /\ ~Evicts(h) => \A id : Recorded(top.history, id, turn) => Recorded(h, id, turn)
         /\ Cardinality(WrittenBy(h, turn)) \in Nat /\ Cardinality(WrittenBy(top.history, turn)) \in Nat
         /\ Cardinality(WrittenBy(h, turn)) <= Cardinality(WrittenBy(top.history, turn)) + 1
<1> DEFINE s == Staged
           C(g) == Cardinality(WrittenBy(g, turn))
<1>1. s \in Hist
  BY CompactedIsAHistory DEF Staged
<1>2. Kept(s, top.history, turn)
  BY CompactionKeeps DEF Staged
<1>3. h = Append(s, m)
  OBVIOUS
<1> HIDE DEF s
<1>4. Tidy(s) /\ Complete(s) /\ Until(s, turn) /\ Asked(s, turn)
  BY <1>2 DEF Kept
<1>5. /\ Tidy(h) /\ Until(h, turn) /\ Settled(h) /\ Open(h, m.calls, 0, turn)
      /\ Len(m.calls) = 0 => Complete(h)
  BY <1>1, <1>3, <1>4, AssistantAdded
<1>6. h \in Hist /\ Grows(s, h)
  BY <1>1, <1>3, OneMore
<1>7. Asked(h, turn) /\ \A id : Recorded(s, id, turn) => Recorded(h, id, turn)
  BY <1>1, <1>4, <1>6, GrowthKeeps
<1>8. C(h) = C(s) + 1
  BY <1>1, <1>3, WrittenMore
<1>9. C(h) \in Nat /\ C(s) \in Nat /\ C(top.history) \in Nat
  BY <1>1, <1>6, WrittenAreFew
<1>10. /\ C(s) <= C(top.history)
       /\ \A id : Recorded(top.history, id, turn) => Recorded(s, id, turn) \/ C(s) + 2 <= C(top.history)
  BY <1>2 DEF Kept
<1>11. ~IsChild /\ ~Evicts(h) => ~(C(h) < C(top.history))
  BY EvictsShows
<1> HIDE DEF C
<1>12. ~IsChild /\ ~Evicts(h) => \A id : Recorded(top.history, id, turn) => Recorded(h, id, turn)
  <2>1. ~IsChild /\ ~Evicts(h) => ~(C(s) + 2 <= C(top.history))
    BY <1>8, <1>9, <1>11
  <2> QED
    BY <1>7, <1>10, <2>1
<1>13. C(h) <= C(top.history) + 1
  BY <1>8, <1>9, <1>10
<1> QED
  BY <1>5, <1>6, <1>7, <1>9, <1>12, <1>13 DEF C

\* The uppermost agent has the calls of an answer, or makes the next request.
LEMMA GoesOnBooks ==
  ASSUME Agents, Books, Effects, pc = "provider", turn' = turn, acted' = acted, NEW g, stack' = SetTop(g),
         pc' \in {"calls", "charge"}, g.rollback = top.rollback, g.observed = top.observed, g.index = 1,
         Tidy(g.history), Until(g.history, turn), Settled(g.history), NameCalls(g.ids, g.response, Len(g.response)),
         pc' = "calls" => Open(g.history, ProviderIds(g.response), 0, turn),
         pc' = "charge" => Complete(g.history) /\ Asked(g.history, turn),
         IsChild => evicted' = evicted,
         ~IsChild /\ ~evicted' => ~evicted /\ \A id : Recorded(top.history, id, turn) => Recorded(g.history, id, turn)
  PROVE  Books' /\ Effects'
<1>1. top \in Agent /\ Filed(top, turn)
  BY Uppermost DEF Books
<1>2. pc \notin AtRest /\ pc' \notin AtRest /\ pc # "shell" /\ pc' # "shell"
  BY DEF AtRest
<1>3. Filed(g, turn)
  BY <1>1 DEF Filed
<1>4. Reached(g, pc', turn)
  <2>1. g.index - 1 = 0
    OBVIOUS
  <2>2. pc' = "calls" => Midway(g, g.index - 1, turn)
    BY <2>1 DEF Midway
  <2> QED
    BY <2>2 DEF Reached, AtRest, Asking, Answering, Answer, Deciding
<1>5. SameRootActs
  BY DEF SameRootActs, RootActs
<1>6. ~IsChild => RootKept(g)
  BY <1>2, SameCredit
<1> QED
  BY <1>2, <1>3, <1>4, <1>5, <1>6, TopBooks

\* An answer of the provider.
LEMMA RespondBooks ==
  ASSUME Agents, Stage, Books, Effects, turn \in Nat, evicted \in BOOLEAN, NEW r \in Responses, Respond(r)
  PROVE  Books' /\ Effects'
<1> DEFINE m == AssistantMessage(ProviderIds(r.calls), r.thought, turn)
           h == Append(Staged, m)
           ids == Scoped(r.calls, top.seen)
           g == Given(top, h, r.calls, ids, top.seen \cup Named(ids))
           n == Append(h, Nudge(turn))
<1>1. /\ pc = "provider" /\ turn' = turn /\ acted' = acted
      /\ evicted' = (evicted \/ Evicts(h) \/ (pc' \notin {"calls", "charge"} /\ Evicts(compact(h))))
  BY DEF Respond
<1>2. \/ stack' = SetTop(g) /\ pc' = "calls"
      \/ /\ r.calls = <<>>
         /\ stack' = SetTop([g EXCEPT !.history = n, !.auto = @ + 1])
         /\ pc' = "charge"
      \/ r.calls = <<>> /\ Ends(compact(h), "completed")
  <2>1. CASE r.calls # <<>>
    BY <2>1, Zenon DEF Respond, Given, Named, StoppedEarly
  <2>2. CASE StoppedEarly(r) /\ top.auto < limits.auto_continues
    <3>1. r.calls = <<>>
      BY <2>2 DEF StoppedEarly
    <3>2. \/ /\ stack' = SetTop([g EXCEPT !.history = n, !.auto = @ + 1])
             /\ pc' = "charge"
          \/ stack' = SetTop(g) /\ pc' = "calls"
      BY <2>2, <3>1, Zenon DEF Respond, Given, Named
    <3> QED
      BY <3>1, <3>2
  <2>3. CASE r.calls = <<>> /\ ~(StoppedEarly(r) /\ top.auto < limits.auto_continues)
    BY <2>3, Zenon DEF Respond, Given, Named
  <2> QED
    BY <2>1, <2>2, <2>3
<1>3. /\ top \in Agent /\ SoundAgent(top) /\ Filed(top, turn) /\ Reached(top, pc, turn)
      /\ ~IsChild => stack[1] = top
  BY Uppermost, TopIsAnAgent DEF Books
<1>4. r.calls \in Seq(ToolCall) /\ r.thought \in Nat
  BY EngineAssumption
<1>5. /\ m \in Msg /\ m.role = "assistant" /\ m.turn = turn /\ m.calls = ProviderIds(r.calls) /\ Len(m.calls) = Len(r.calls)
      /\ Nudge(turn) \in Msg /\ Nudge(turn).role = "user" /\ Nudge(turn).of = 1 /\ Nudge(turn).turn = turn
  <2>1. \A k \in DOMAIN r.calls : r.calls[k] \in ToolCall
    BY <1>4
  <2>2. ProviderIds(r.calls) \in [1..Len(r.calls) -> Nat] /\ Len(r.calls) \in Nat
    BY <1>4, <2>1 DEF ProviderIds, ToolCall
  <2>3. ProviderIds(r.calls) \in Seq(Nat) /\ Len(ProviderIds(r.calls)) = Len(r.calls)
    BY <2>2
  <2>4. 1 \in Nat
    OBVIOUS
  <2>5. m \in Msg /\ Nudge(turn) \in Msg
    BY <1>4, <2>3, <2>4, MessagesAreTyped
  <2>6. m.role = "assistant" /\ m.turn = turn /\ m.calls = ProviderIds(r.calls)
    BY DEF AssistantMessage, Message
  <2>7. Nudge(turn).role = "user" /\ Nudge(turn).of = 1 /\ Nudge(turn).turn = turn
    BY DEF Nudge, Message
  <2> QED
    BY <2>3, <2>5, <2>6, <2>7
<1>6. top.history \in Hist /\ Tidy(top.history) /\ Complete(top.history) /\ Until(top.history, turn) /\ Asked(top.history, turn)
  BY <1>1, <1>3, AgentFacts DEF Filed, Reached, Asking
<1> HIDE DEF m
<1>7. /\ h \in Hist /\ Tidy(h) /\ Until(h, turn) /\ Settled(h) /\ Asked(h, turn) /\ Open(h, m.calls, 0, turn)
      /\ Len(m.calls) = 0 => Complete(h)
      /\ ~IsChild /\ ~Evicts(h) => \A id : Recorded(top.history, id, turn) => Recorded(h, id, turn)
      /\ Cardinality(WrittenBy(h, turn)) \in Nat /\ Cardinality(WrittenBy(top.history, turn)) \in Nat
      /\ Cardinality(WrittenBy(h, turn)) <= Cardinality(WrittenBy(top.history, turn)) + 1
  BY <1>5, <1>6, RespondedHistory
<1> HIDE DEF h
<1>8. NameCalls(ids, r.calls, Len(r.calls)) /\ ids \in Seq(ScopedId)
  <2>1. IsFiniteSet(top.seen)
    BY <1>3 DEF SoundAgent
  <2>2. NewIds(ids, Len(r.calls), top.seen) /\ NameCalls(ids, r.calls, Len(r.calls))
    BY <1>4, <2>1, ScopedAreNew
  <2> QED
    BY <2>2 DEF NewIds
<1> HIDE DEF ids
<1>9. /\ g.history = h /\ g.rollback = top.rollback /\ g.observed = top.observed /\ g.response = r.calls /\ g.ids = ids
      /\ g.index = 1
      /\ DOMAIN g = {"history", "rollback", "response", "ids", "index", "observed", "auto", "retried", "delegations",
                     "tools", "scope", "seen"}
  BY <1>3 DEF Given, Agent
<1> HIDE DEF g
<1>10. /\ IsChild => evicted' = evicted
       /\ ~evicted' => ~evicted /\ ~Evicts(h)
  BY <1>1, EvictsShows
<1>11. CASE stack' = SetTop(g) /\ pc' = "calls"
  <2>1. ~IsChild /\ ~evicted' => ~evicted /\ \A id : Recorded(top.history, id, turn) => Recorded(g.history, id, turn)
    BY <1>7, <1>9, <1>10
  <2> QED
    BY <1>1, <1>5, <1>7, <1>8, <1>9, <1>10, <1>11, <2>1, GoesOnBooks
<1>12. r.calls = <<>> => Complete(h)
  BY <1>5, <1>7
<1>13. CASE /\ r.calls = <<>>
            /\ stack' = SetTop([g EXCEPT !.history = n, !.auto = @ + 1])
            /\ pc' = "charge"
  <2> DEFINE f == [g EXCEPT !.history = n, !.auto = @ + 1]
  <2>1. ~Prompt(Nudge(turn))
    BY <1>5 DEF Prompt
  <2>2. Tidy(n) /\ Complete(n) /\ Until(n, turn) /\ Asked(n, turn) /\ Settled(n)
    BY <1>5, <1>7, <1>12, <1>13, <2>1, UserAdded
  <2>3. n \in Hist /\ Grows(h, n)
    BY <1>5, <1>7, OneMore
  <2>4. \A id : Recorded(h, id, turn) => Recorded(n, id, turn)
    BY <1>7, <2>3, GrowthKeeps
  <2> HIDE DEF n
  <2>5. f.history = n /\ f.rollback = top.rollback /\ f.observed = top.observed /\ f.response = r.calls /\ f.ids = ids
        /\ f.index = 1
    BY <1>9
  <2>6. ~IsChild /\ ~evicted' => ~evicted /\ \A id : Recorded(top.history, id, turn) => Recorded(f.history, id, turn)
    BY <1>7, <1>10, <2>4, <2>5
  <2>7. stack' = SetTop(f)
    BY <1>13, Zenon
  <2> HIDE DEF f
  <2> QED
    BY <1>1, <1>8, <1>10, <1>13, <2>2, <2>5, <2>6, <2>7, GoesOnBooks
<1>14. CASE r.calls = <<>> /\ Ends(compact(h), "completed")
  <2> DEFINE e == compact(h)
             C(i) == Cardinality(WrittenBy(i, turn))
  <2>1. e \in Hist /\ Kept(e, h, turn)
    BY <1>7, <1>12, <1>14, CompactedIsAHistory, CompactionKeeps
  <2>2. Tidy(e) /\ Complete(e) /\ Until(e, turn) /\ Settled(e) /\ C(e) \in Nat
    BY <1>7, <2>1, WrittenAreFew DEF Kept
  <2>3. \A id : Recorded(h, id, turn) => Recorded(e, id, turn) \/ C(e) + 2 <= C(h)
    BY <2>1 DEF Kept
  <2>4. ~IsChild /\ ~Evicts(e) => ~(C(e) < C(top.history))
    BY EvictsShows
  <2> HIDE DEF e, C
  <2>5. C(h) \in Nat /\ C(top.history) \in Nat /\ C(h) <= C(top.history) + 1
    BY <1>7 DEF C
  <2>6. ASSUME ~IsChild
        PROVE  Leaves(e, "completed")
    <3>1. pc' = "idle"
      BY <1>14, <2>6 DEF Ends
    <3>2. ~evicted' => ~Evicts(e)
      BY <1>1, <3>1 DEF e
    <3>3. ~evicted' => ~(C(e) + 2 <= C(h))
      BY <2>2, <2>4, <2>5, <2>6, <3>2
    <3>4. ~evicted => Credited(top, acted, FALSE, turn)
      BY <1>1, <1>3, <2>6 DEF Effects, AtRest
    <3>5. ~evicted' => \A k \in RootActs : Recorded(top.history, acted[k].id[1], turn)
      BY <1>10, <3>4 DEF Credited, RootActs
    <3>6. ~evicted' => \A k \in RootActs : Recorded(e, acted[k].id[1], turn)
      BY <1>7, <1>10, <2>3, <2>6, <3>3, <3>5
    <3> QED
      BY <2>2, <3>6 DEF Leaves
  <2>7. Ends(e, "completed")
    BY <1>14 DEF e
  <2>8. pc \notin AtRest
    BY <1>1 DEF AtRest
  <2> QED
    BY <1>1, <1>10, <2>1, <2>6, <2>7, <2>8, EndsBooks
<1> QED
  BY <1>2, <1>11, <1>13, <1>14

\* A history too long for the provider.
LEMMA OverflowBooks ==
  ASSUME Agents, Stage, Books, Effects, turn \in Nat, evicted \in BOOLEAN, Overflow
  PROVE  Books' /\ Effects'
<1> DEFINE h == compact_overflow(top.history)
           back == compact_overflow(top.rollback)
           m == SystemMessage(1, turn)
           C(i) == Cardinality(WrittenBy(i, turn))
<1>1. pc = "provider" /\ turn' = turn /\ acted' = acted /\ pc \notin AtRest /\ pc # "shell"
  BY DEF Overflow, AtRest
<1>2. /\ top \in Agent /\ Filed(top, turn) /\ Reached(top, pc, turn)
      /\ ~IsChild => stack[1] = top
  BY Uppermost DEF Books
<1>3. top.history \in Hist /\ top.rollback \in Hist
  BY <1>2, AgentFacts
<1>4. /\ Tidy(top.history) /\ Until(top.history, turn) /\ Complete(top.history) /\ Asked(top.history, turn)
      /\ Tidy(top.rollback) /\ Until(top.rollback, turn) /\ Complete(top.rollback) /\ Settled(top.rollback)
      /\ top.observed => Settled(top.history)
      /\ NameCalls(top.ids, top.response, Len(top.response))
  BY <1>1, <1>2 DEF Filed, Reached, Asking
<1>5. ~IsChild => /\ turn > 0 /\ Until(top.rollback, turn - 1)
                  /\ top.observed <=> RootActs # {}
                  /\ ~evicted => Credited(top, acted, FALSE, turn)
  BY <1>1, <1>2 DEF Effects, AtRest
<1>6. RootActs' = RootActs /\ SameRootActs
  BY <1>1 DEF RootActs, SameRootActs
<1>7. CASE h # top.history
  <2> DEFINE g == [top EXCEPT !.history = h, !.rollback = compact_overflow(@), !.retried = TRUE]
  <2>1. stack' = SetTop(g) /\ pc' = "charge" /\ evicted' = (evicted \/ Evicts(h))
    BY <1>7 DEF Overflow
  <2>2. /\ g.history = h /\ g.rollback = back /\ g.response = top.response /\ g.ids = top.ids
        /\ g.observed = top.observed /\ g.index = top.index
    BY <1>2 DEF Agent
  <2>3. h \in Hist /\ back \in Hist
    BY <1>3, CompactedIsAHistory
  <2>4. Kept(h, top.history, turn)
    BY <1>3, <1>4, CompactionKeeps
  <2>5. Kept(back, top.rollback, turn)
    BY <1>3, <1>4, CompactionKeeps
  <2>6. ~IsChild => Until(back, turn - 1)
    <3>1. ~IsChild => turn - 1 \in Nat
      BY <1>5
    <3>2. ~IsChild => Kept(back, top.rollback, turn - 1)
      BY <1>3, <1>4, <1>5, <3>1, CompactionKeeps
    <3> QED
      BY <3>2 DEF Kept
  <2>7. C(h) \in Nat /\ C(top.history) \in Nat
    BY <1>3, <2>3, WrittenAreFew
  <2>8. ~IsChild /\ ~Evicts(h) => ~(C(h) < C(top.history))
    BY EvictsShows
  <2>9. IsChild => ~Evicts(h)
    BY EvictsShows
  <2> HIDE DEF h, back, g
  <2>10. Filed(g, turn)
    BY <1>4, <2>2, <2>4, <2>5 DEF Filed, Kept
  <2>11. Reached(g, pc', turn)
    BY <1>4, <2>1, <2>2, <2>4 DEF Reached, AtRest, Asking, Answering, Answer, Deciding, Kept
  <2>12. \A id : Recorded(top.history, id, turn) => Recorded(h, id, turn) \/ C(h) + 2 <= C(top.history)
    BY <2>4 DEF Kept
  <2> HIDE DEF C
  <2>13. ~IsChild /\ ~Evicts(h) => \A id : Recorded(top.history, id, turn) => Recorded(h, id, turn)
    <3>1. ~IsChild /\ ~Evicts(h) => ~(C(h) + 2 <= C(top.history))
      BY <2>7, <2>8
    <3> QED
      BY <2>12, <3>1
  <2>14. IsChild => SameRootActs /\ evicted' = evicted
    BY <1>6, <2>1, <2>9
  <2>15. ~IsChild /\ ~evicted' => Credited(g, acted', FALSE, turn)
    BY <1>1, <1>5, <2>1, <2>2, <2>13 DEF Credited
  <2>16. pc' \notin AtRest /\ ~(pc' = "shell")
    BY <2>1 DEF AtRest
  <2>17. ~IsChild => Until(g.rollback, turn - 1) /\ (g.observed <=> RootActs' # {})
    BY <1>5, <1>6, <2>2, <2>6
  <2>18. ~IsChild => RootKept(g)
    BY <2>15, <2>16, <2>17, Zenon DEF RootKept
  <2> QED
    BY <1>1, <2>1, <2>10, <2>11, <2>14, <2>16, <2>18, TopBooks
<1>8. CASE h = top.history
  <2> DEFINE dropped == drop_tool_payloads(top.history)
             e == IF top.observed THEN Append(dropped, m) ELSE Append(top.rollback, m)
  <2>1. Ends(e, "failed") /\ evicted' = evicted
    BY <1>8 DEF Overflow, preserve_or_rollback
  <2>2. m \in Msg /\ m.role = "system" /\ m.turn = turn
    <3>1. 1 \in Nat /\ <<>> \in Seq(Nat)
      OBVIOUS
    <3> QED
      BY <3>1, MessagesAreTyped DEF SystemMessage, Message
  <2> HIDE DEF m, h
  <2>3. dropped \in Alike(top.history)
    BY <1>3, DroppedIsAlike
  <2> HIDE DEF dropped
  <2>4. /\ dropped \in Hist /\ Tidy(dropped) /\ Complete(dropped) /\ Until(dropped, turn)
        /\ top.observed => Settled(dropped)
        /\ \A id : Recorded(top.history, id, turn) => Recorded(dropped, id, turn)
    BY <1>3, <1>4, <2>3, SizesDoNotMatter
  <2>5. CASE top.observed
    <3>1. e = Append(dropped, m)
      BY <2>5
    <3> HIDE DEF e
    <3>2. Tidy(e) /\ Complete(e) /\ Until(e, turn) /\ Settled(e)
      BY <2>2, <2>4, <2>5, <3>1, SystemAdded
    <3>3. e \in Hist /\ Grows(dropped, e)
      BY <2>2, <2>4, <3>1, OneMore
    <3>4. \A id : Recorded(dropped, id, turn) => Recorded(e, id, turn)
      BY <2>4, <3>3, GrowthKeeps
    <3>5. ~IsChild => Leaves(e, "failed")
      <4>1. ~IsChild /\ ~evicted' => \A k \in RootActs : Recorded(e, acted[k].id[1], turn)
        BY <1>5, <2>1, <2>4, <3>4 DEF Credited, RootActs
      <4>2. ~IsChild => RootActs # {}
        BY <1>5, <2>5
      <4> QED
        BY <3>2, <4>1, <4>2 DEF Leaves
    <3> QED
      BY <1>1, <2>1, <3>3, <3>5, EndsBooks
  <2>6. CASE ~top.observed
    <3>1. e = Append(top.rollback, m)
      BY <2>6
    <3> HIDE DEF e
    <3>2. Tidy(e) /\ Complete(e) /\ Until(e, turn) /\ Settled(e)
      BY <1>3, <1>4, <2>2, <3>1, SystemAdded
    <3>3. /\ e \in Hist /\ Len(e) = Len(top.rollback) + 1 /\ e[Len(top.rollback) + 1] = m
          /\ \A k \in 1..Len(top.rollback) : e[k] = top.rollback[k]
      BY <1>3, <2>2, <3>1, OneMore
    <3>4. ~IsChild => \A k \in DOMAIN e : e[k].turn = turn => e[k].role = "system"
      <4>1. /\ Len(e) \in Nat /\ DOMAIN e = 1..Len(e)
            /\ Len(top.rollback) \in Nat /\ DOMAIN top.rollback = 1..Len(top.rollback)
        BY <1>3, <3>3, HistoryFacts
      <4>2. ~IsChild => \A k \in 1..Len(top.rollback) : top.rollback[k].turn # turn
        BY <1>3, <1>5, HistoryFacts DEF Until
      <4>3. \A k \in DOMAIN e : k = Len(top.rollback) + 1 \/ k \in 1..Len(top.rollback)
        BY <3>3, <4>1
      <4> QED
        BY <2>2, <3>3, <4>2, <4>3
    <3>5. ~IsChild => RootActs = {}
      BY <1>5, <2>6
    <3>6. ~IsChild => Leaves(e, "failed")
      BY <3>2, <3>4, <3>5 DEF Leaves
    <3> QED
      BY <1>1, <2>1, <3>3, <3>6, EndsBooks
  <2> QED
    BY <2>5, <2>6
<1> QED
  BY <1>7, <1>8

-----------------------------------------------------------------------------
(* The start of a turn.                                                    *)

\* Nothing done, nothing to keep.
LEMMA NoRootActs ==
  ASSUME acted' = <<>>
  PROVE  RootActs' = {} /\ DOMAIN acted' = {}
<1>1. DOMAIN acted' = {}
  OBVIOUS
<1> QED
  BY <1>1 DEF RootActs

\* A command that the user types leaves the conversation as it is.
LEMMA DirectKeeps ==
  ASSUME Agents, ~IsChild, stack' = stack, acted' = <<>>, pc' \in AtRest, turn \in Nat, turn' \in {turn, turn + 1}, turn' > 0,
         Filed(top, turn), Complete(top.history), Settled(top.history), Until(top.history, turn' - 1)
  PROVE  Books' /\ Effects'
<1>1. /\ top \in Agent /\ top.history \in Hist /\ DOMAIN stack = {1} /\ stack[1] = top
  BY Uppermost, AgentFacts
<1>2. top' = top /\ ~IsChild'
  BY DEF top, IsChild
<1>3. Filed(top, turn')
  BY <1>1, FiledLater
<1>4. Reached(top, pc', turn')
  BY DEF Reached, AtRest, Asking, Answering, Answer, Deciding
<1>5. Books'
  BY <1>1, <1>2, <1>3, <1>4 DEF Books
<1>6. \A k \in DOMAIN top.history : top.history[k].turn # turn'
  BY <1>1, HistoryFacts DEF Until
<1>7. EffectsAreKept'
  BY <1>2, <1>6, NoRootActs DEF EffectsAreKept
<1>8. pc' = "direct" => turn' > 0 /\ Until(top'.history, turn' - 1) /\ acted' = <<>>
  BY <1>2
<1> QED
  BY <1>5, <1>7, <1>8 DEF Effects

\* A turn begins with the history that the last one left.
LEMMA StartingBooks ==
  ASSUME Agents, Stage, Books, Effects, turn \in Nat, StartTurn \/ DirectCaptured \/ DirectStarts \/ DirectDone
  PROVE  Books' /\ Effects'
<1>1. pc \in AtRest /\ ~IsChild
  BY DEF StartTurn, DirectCaptured, DirectStarts, DirectBegins, DirectDone, Stage, AtRest
<1>2. /\ top \in Agent /\ top.history \in Hist /\ Filed(top, turn) /\ Complete(top.history) /\ Settled(top.history)
      /\ Tidy(top.history) /\ Until(top.history, turn)
  BY <1>1, Uppermost, AgentFacts DEF Books, Reached, Filed
<1>3. turn + 1 \in Nat /\ (turn + 1) - 1 = turn /\ turn <= turn + 1 /\ turn + 1 > 0
  OBVIOUS
<1>4. CASE StartTurn
  <2> DEFINE h == top.history
             m == UserMessage(turn + 1)
             i == Append(h, m)
             g == [Frame(i, Tool, 0) EXCEPT !.rollback = h]
  <2>1. /\ pc' = "charge" /\ stack' = <<g>> /\ acted' = <<>> /\ turn' = turn + 1
    BY <1>4 DEF StartTurn
  <2>2. g.history = i /\ g.rollback = h /\ g.observed = FALSE /\ g.response = <<>> /\ g.ids = <<>>
    BY DEF Frame
  <2>3. m \in Msg /\ m.role = "user" /\ m.turn = turn + 1
    <3>1. <<>> \in Seq(Nat) /\ 0 \in Nat
      OBVIOUS
    <3> QED
      BY <1>3, <3>1, MessagesAreTyped DEF UserMessage, Message
  <2>4. DOMAIN stack' = {1} /\ Len(stack') = 1 /\ stack'[1] = g
    BY <2>1
  <2>5. top' = g /\ ~IsChild'
    BY <2>4 DEF top, IsChild
  <2> HIDE DEF g, m
  <2>6. Until(h, turn + 1)
    BY <1>2, <1>3, UntilLater
  <2>7. Tidy(i) /\ Complete(i) /\ Until(i, turn + 1) /\ Asked(i, turn + 1)
    BY <1>2, <2>3, <2>6, UserAdded
  <2> HIDE DEF i
  <2>8. NameCalls(<<>>, <<>>, 0)
    BY DEF NameCalls
  <2>9. Len(g.response) = 0
    BY <2>2
  <2>10. Filed(g, turn + 1)
    BY <1>2, <2>2, <2>6, <2>7, <2>8, <2>9 DEF Filed
  <2>11. Reached(g, "charge", turn + 1)
    BY <2>2, <2>7 DEF Reached, AtRest, Asking, Answering, Answer, Deciding
  <2>12. Books'
    BY <2>1, <2>4, <2>5, <2>10, <2>11 DEF Books
  <2>13. RootActs' = {} /\ DOMAIN acted' = {}
    BY <2>1, NoRootActs
  <2>14. Credited(g, acted', (IsChild \/ pc = "shell")', turn')
    BY <2>13 DEF Credited
  <2>15. pc' # "idle" /\ pc' # "direct"
    BY <2>1
  <2>16. turn' > 0 /\ Until(stack'[1].rollback, turn' - 1) /\ (stack'[1].observed <=> RootActs' # {})
    BY <1>2, <1>3, <2>1, <2>2, <2>4, <2>13
  <2>17. ~evicted' => Credited(stack'[1], acted', (IsChild \/ pc = "shell")', turn')
    BY <2>4, <2>14
  <2>18. Effects'
    BY <2>15, <2>16, <2>17 DEF Effects, AtRest
  <2> QED
    BY <2>12, <2>18
<1>5. CASE DirectCaptured \/ DirectStarts
  <2>1. /\ stack' = stack /\ acted' = <<>> /\ pc' \in AtRest /\ turn' = turn + 1
    BY <1>5 DEF DirectCaptured, DirectStarts, DirectBegins, AtRest
  <2> QED
    BY <1>1, <1>2, <1>3, <2>1, DirectKeeps
<1>6. CASE DirectDone
  <2>1. /\ pc = "direct" /\ pc' = "idle" /\ stack' = stack /\ acted' = acted /\ turn' = turn
    BY <1>6 DEF DirectDone, ghosts
  <2>2. turn > 0 /\ Until(top.history, turn - 1) /\ acted = <<>>
    BY <2>1 DEF Effects
  <2>3. acted' = <<>> /\ turn' > 0 /\ Until(top.history, turn' - 1) /\ pc' \in AtRest
    BY <2>1, <2>2 DEF AtRest
  <2> QED
    BY <1>1, <1>2, <2>1, <2>3, DirectKeeps
<1> QED
  BY <1>4, <1>5, <1>6

\* So does the conversation.
LEMMA BooksOpen ==
  ASSUME Init
  PROVE  Books /\ Effects
<1> DEFINE m == SystemMessage(1, 0)
           h == <<m>>
           f == Frame(h, Tool, 0)
<1>1. stack = <<f>> /\ turn = 0 /\ acted = <<>> /\ pc = "idle"
  BY DEF Init
<1>2. m \in Msg /\ m.role = "system" /\ m.turn = 0
  <2>1. <<>> \in Seq(Nat) /\ 0 \in Nat /\ 1 \in Nat
    OBVIOUS
  <2> QED
    BY <2>1, MessagesAreTyped DEF SystemMessage, Message
<1>3. f.history = h /\ f.rollback = h /\ f.observed = FALSE /\ f.response = <<>> /\ f.ids = <<>>
  BY DEF Frame
<1> HIDE DEF m
<1>4. h \in Hist /\ Tidy(h) /\ Complete(h) /\ Settled(h) /\ Until(h, 0)
  BY <1>2, PromptIsTidy
<1> HIDE DEF h, f
<1>5. DOMAIN stack = {1} /\ Len(stack) = 1 /\ stack[1] = f
  BY <1>1
<1>6. top = f /\ ~IsChild
  BY <1>5 DEF top, IsChild
<1>7. NameCalls(<<>>, <<>>, 0)
  BY DEF NameCalls
<1>8. Len(f.response) = 0
  BY <1>3
<1>9. Filed(f, 0)
  BY <1>3, <1>4, <1>7, <1>8 DEF Filed
<1>10. Reached(f, "idle", 0)
  BY <1>3, <1>4 DEF Reached, AtRest, Asking, Answering, Answer, Deciding
<1>11. Books
  BY <1>1, <1>5, <1>6, <1>9, <1>10 DEF Books
<1>12. RootActs = {}
  <2>1. DOMAIN acted = {}
    BY <1>1
  <2> QED
    BY <2>1 DEF RootActs
<1>13. EffectsAreKept
  BY <1>1, <1>12 DEF EffectsAreKept
<1>14. Effects
  BY <1>1, <1>13 DEF Effects, AtRest
<1> QED
  BY <1>11, <1>14

\* Every step of the engine keeps the conversation.
LEMMA BooksKept ==
  ASSUME EngineInv, Books, Effects, [Next]_vars
  PROVE  Books' /\ Effects'
<1>1. Agents /\ Stage /\ Deeds /\ turn \in Nat /\ evicted \in BOOLEAN
  BY DEF EngineInv, Plain
<1>2. CASE Next
  <2>1. \/ ProviderFails \/ ProviderStopped \/ CallCancelled \/ CallExhausted \/ DecidedCancelled \/ Aborted
        \/ SubagentAborted
        => Books' /\ Effects'
    BY <1>1, EndingBooks
  <2>2. Charge => Books' /\ Effects'
    <3>1. CASE MayRequest
      BY <1>1, <3>1, PassingBooks
    <3>2. CASE ~MayRequest
      BY <1>1, <3>2, EndingBooks
    <3> QED
      BY <3>1, <3>2
  <2>3. AfterCall => Books' /\ Effects'
    <3>1. CASE cancelled
      BY <1>1, <3>1, EndingBooks
    <3>2. CASE ~cancelled
      BY <1>1, <3>2, PassingBooks
    <3> QED
      BY <3>1, <3>2
  <2>4. CallsDone => Books' /\ Effects'
    BY <1>1, PassingBooks
  <2>5. \/ StatAt \/ ReadLinkAt \/ OpenAt \/ WalkTimesOut \/ WalkDone
        \/ \E left \in BOOLEAN : ShellKilled(left)
        \/ \E held \in BOOLEAN : ShellExits(held)
        \/ HolderEnds \/ Cancel \/ Expire
        \/ \E b \in Binding : Swap(b)
        \/ Decide \/ ApprovalStopped
        \/ \E d \in {"approve", "deny", "abort_turn"} : Human(d)
        => Books' /\ Effects'
    BY StillActions
  <2>6. \/ CallOverLimit \/ Denied \/ ShellReaped \/ ReadObject
        \/ \E size \in {1, LargeResult} : ShellOutput(size)
        => Books' /\ Effects'
    BY <1>1, AnsweringActions
  <2>7. CallCharged => Books' /\ Effects'
    <3>1. CASE Call.tool \in top.tools
      BY <3>1, ChargedBooks
    <3>2. CASE Call.tool \notin top.tools
      BY <1>1, <3>2, AnsweringActions
    <3> QED
      BY <3>1, <3>2
  <2>8. StartShell => Books' /\ Effects'
    BY <1>1, StartingShellBooks
  <2>9. Delegate => Books' /\ Effects'
    <3>1. CASE Call.tools = None
      BY <1>1, <3>1, AnsweringActions
    <3>2. Delegate => ~IsChild
      <4>1. Delegate => Call.tool \in top.tools /\ Call.tool = "delegate_task"
        BY <1>1 DEF Delegate, Runs, Stage, Deciding
      <4>2. IsChild => "delegate_task" \notin top.tools
        BY <1>1, Uppermost DEF Agents
      <4> QED
        BY <4>1, <4>2
    <3>3. CASE Call.tools # None
      BY <1>1, <3>2, <3>3, DelegatingBooks
    <3> QED
      BY <3>1, <3>3
  <2>10. (\E r \in Responses : Respond(r)) => Books' /\ Effects'
    BY <1>1, RespondBooks
  <2>11. Overflow => Books' /\ Effects'
    BY <1>1, OverflowBooks
  <2>12. StartTurn \/ DirectCaptured \/ DirectStarts \/ DirectDone => Books' /\ Effects'
    BY <1>1, StartingBooks
  <2> QED
    BY <1>2, <2>1, <2>2, <2>3, <2>4, <2>5, <2>6, <2>7, <2>8, <2>9, <2>10, <2>11, <2>12, Zenon DEF Next, Engine, Environment
<1>3. CASE UNCHANGED vars
  <2>1. UNCHANGED <<stack, turn, acted, evicted>> /\ pc' = pc /\ outcome' = outcome
    BY <1>3 DEF vars, ghosts
  <2> QED
    BY <2>1, StillBooks
<1> QED
  BY <1>2, <1>3

-----------------------------------------------------------------------------
(* The invariant of the histories, and what follows from it.               *)

\* Between its requests an agent's history pairs every call with its answer, in
\* every turn, whatever was compacted, cancelled, aborted or rolled back, and a
\* turn's deeds stay on record (run_agent_turn_with_budget, compaction.rs).
THEOREM BooksInvariant == TurnSpec => [](EngineInv /\ Books /\ Effects)
<1>1. Init => EngineInv /\ Books /\ Effects
  BY EngineStarts, BooksOpen
<1>2. EngineInv /\ Books /\ Effects /\ [Next]_vars => (EngineInv /\ Books /\ Effects)'
  BY EngineKeeps, BooksKept
<1> QED
  BY <1>1, <1>2, PTL DEF TurnSpec

\* Whatever earlier turns were compacted, cancelled, cut off by the budget or
\* aborted half way through a batch of calls, the next request is one that a
\* provider accepts (compaction.rs, stub_unfinished_tool_calls,
\* merge_system_messages, preserve_or_rollback_failed_turn).
THEOREM RequestsAreWellFormed == TurnSpec => []RequestIsWellFormed
<1>1. EngineInv /\ Books => RequestIsWellFormed
  <2>1. SUFFICES ASSUME EngineInv, Books, pc = "provider"
                 PROVE  WellFormed(Request)
    BY DEF RequestIsWellFormed
  <2> DEFINE h == top.history
  <2>2. Agents /\ turn \in Nat
    BY <2>1 DEF EngineInv, Plain
  <2>3. h \in Hist /\ Tidy(h) /\ Complete(h) /\ Until(h, turn)
    BY <2>1, <2>2, Uppermost, AgentFacts DEF Books, Filed, Reached, Asking
  <2>4. compact(h) \in Hist
    BY <2>3, CompactedIsAHistory
  <2>5. Kept(compact(h), h, turn)
    BY <2>2, <2>3, CompactionKeeps
  <2>6. Tidy(compact(h)) /\ Complete(compact(h))
    BY <2>5 DEF Kept
  <2>7. WellFormed(merge_system_messages(compact(h)))
    BY <2>4, <2>6, MergedIsWellFormed
  <2> QED
    BY <2>7 DEF Request, Staged
<1> QED
  BY <1>1, BooksInvariant, PTL

\* However a turn ends, what it did stays in the conversation: every call of the
\* root agent that ran is on record with its result, unless compaction has
\* removed a part of the turn; and a turn that failed before it did anything
\* leaves no prompt and no answer (preserve_or_rollback_failed_turn).
THEOREM EffectsStay == TurnSpec => []EffectsAreKept
<1>1. Effects => EffectsAreKept
  BY DEF Effects, EffectsAreKept
<1> QED
  BY <1>1, BooksInvariant, PTL

=============================================================================

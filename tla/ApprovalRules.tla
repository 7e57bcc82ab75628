--------------------------- MODULE ApprovalRules ---------------------------
(***************************************************************************)
(* The decision on a tool call (policy.rs and gate in tools.rs): the host's *)
(* policy, a client's overlay, and the approval mode.                      *)
(*                                                                         *)
(* A shell command is represented by what its text lets a reader see:      *)
(*   parts    the command words found when it is split at every            *)
(*            metacharacter (command_parts);                               *)
(*   simple   it is one simple command with a plain command word;          *)
(*   checked  every part can be read as written (checked_parts is Some);   *)
(*   runs     the command words the shell really runs.                     *)
(* What is read as written is what runs; of any other command nothing is   *)
(* known.  A pattern matches by the command word alone, a path pattern by  *)
(* the path the tool opened.  read_file stands for list_directory too.     *)
(***************************************************************************)
EXTENDS Naturals, Sequences

CONSTANTS
  Word,     \* command words
  Path,     \* canonical paths beneath the working directory
  None

Mode     == {"off", "ask", "auto"}
Tool     == {"read_file", "run_shell", "delegate_task"}
Decision == {"deny", "prompt", "run"}

Command == {c \in [parts: SUBSET Word, simple: BOOLEAN, checked: BOOLEAN, runs: SUBSET Word] :
              /\ c.simple => c.checked /\ \E w \in Word : c.parts = {w}
              /\ c.checked => c.runs = c.parts}

Rule == [kind: {"tool"}, tool: Tool, pattern: {None}]
          \cup [kind: {"shell"}, tool: {"run_shell"}, pattern: Word]
          \cup [kind: {"path"}, tool: {"read_file"}, pattern: Path]

\* allowed is None when the policy has no such list.
Policy == [always_allowed: Seq(Rule), allowed: Seq(Rule) \cup {None}, denied: Seq(Rule)]

\* CallFacts.  path: what preparation opened, or None.
Facts == [tool: Tool, command: Command \cup {None}, path: Path \cup {None},
          gated: BOOLEAN, sensitive: BOOLEAN]

Rank(d) == CASE d = "deny" -> 0 [] d = "prompt" -> 1 [] d = "run" -> 2

Stricter(d, e) == IF Rank(d) <= Rank(e) THEN d ELSE e

-----------------------------------------------------------------------------

\* Rule::allows
allows(rule, call) ==
  /\ rule.tool = call.tool
  /\ CASE rule.kind = "tool"  -> TRUE
       [] rule.kind = "shell" -> call.command # None /\ call.command.simple
                                   /\ rule.pattern \in call.command.parts
       [] rule.kind = "path"  -> call.path = rule.pattern

\* Rule::denies looks into each part of a compound command.
denies(rule, call) ==
  IF rule.kind = "shell"
    THEN /\ rule.tool = call.tool
         /\ call.command # None
         /\ rule.pattern \in call.command.parts
    ELSE allows(rule, call)

AnyAllows(list, call) == \E k \in DOMAIN list : allows(list[k], call)

\* The first entry of a list that allows the call.
FirstAllowing(list, call) ==
  list[CHOOSE k \in DOMAIN list : allows(list[k], call)
                                    /\ \A j \in 1..(k - 1) : ~allows(list[j], call)]

denial_is_uncheckable(p, call) ==
  /\ call.tool = "run_shell"
  /\ \E k \in DOMAIN p.denied : p.denied[k].kind = "shell"
  /\ call.command = None \/ ~call.command.checked

default_decision(call, mode) ==
  IF ~call.gated THEN "run"
  ELSE CASE mode = "off" -> "deny" [] mode = "ask" -> "prompt" [] mode = "auto" -> "run"

decide_by_rules(p, call, mode, base) ==
  LET always  == AnyAllows(p.always_allowed, call)
      allowed == p.allowed # None /\ AnyAllows(p.allowed, call)
      named   == FirstAllowing(p.always_allowed, call).kind = "path"
      asks    == IF always THEN call.sensitive /\ ~(base /\ named) ELSE TRUE
  IN CASE \E k \in DOMAIN p.denied : denies(p.denied[k], call) -> "deny"
       [] OTHER ->
     CASE p.allowed # None /\ ~always /\ ~allowed -> "deny"
       [] (always \/ allowed) /\ mode = "off"      -> "deny"
       [] (always \/ allowed) /\ mode # "off"      -> IF asks /\ mode = "ask" THEN "prompt" ELSE "run"
       [] OTHER                                    -> IF base THEN default_decision(call, mode) ELSE "run"

\* Policy::decide
decide(p, call, mode, base) ==
  IF denial_is_uncheckable(p, call)
    THEN Stricter(decide_by_rules(p, call, mode, base), IF mode = "ask" THEN "prompt" ELSE "deny")
    ELSE decide_by_rules(p, call, mode, base)

\* ApprovalRules::decide
RulesDecide(rules, call, mode) ==
  LET base == decide(rules.base, call, mode, TRUE)
  IN IF rules.overlay = None THEN base
     ELSE Stricter(base, decide(rules.overlay, call, mode, FALSE))

\* A rule of the host or of the client forbids what the call really does.
Forbidden(rules, call) ==
  \E p \in {rules.base} \cup ({rules.overlay} \ {None}) : \E k \in DOMAIN p.denied :
    LET rule == p.denied[k]
    IN IF rule.kind = "shell" THEN call.command # None /\ rule.pattern \in call.command.runs
       ELSE allows(rule, call)

=============================================================================

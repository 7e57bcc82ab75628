---------------------------- MODULE MCTurnEngine ----------------------------
(* Two turns under four policies, with a provider that repeats its ids, asks *)
(* for too much, delegates and announces steps it does not take.           *)
EXTENDS TurnEngine

CONSTANTS ls, rm

\* "ls", "rm", "ls; rm", and an expansion that turns out to run rm.
List     == [parts |-> {ls}, simple |-> TRUE, checked |-> TRUE, runs |-> {ls}]
Compound == [parts |-> {ls, rm}, simple |-> FALSE, checked |-> TRUE, runs |-> {ls, rm}]
Opaque   == [parts |-> {ls}, simple |-> FALSE, checked |-> FALSE, runs |-> {rm}]

Read(id, path)      == [id |-> id, tool |-> "read_file", command |-> None, path |-> path, tools |-> None]
Shell(id, command)  == [id |-> id, tool |-> "run_shell", command |-> command, path |-> None, tools |-> None]
Task(id, tools)     == [id |-> id, tool |-> "delegate_task", command |-> None, path |-> None, tools |-> tools]
Unknown(id)         == [id |-> id, tool |-> "unknown", command |-> None, path |-> None, tools |-> None]

Answer(asked, thought, says, cut) == [calls |-> asked, thought |-> thought, says |-> says, cut |-> cut]

MCResponses ==
  {Answer(<<Read(1, "f")>>, 0, "nothing", FALSE),
   Answer(<<Shell(1, List), Shell(1, Compound)>>, 1, "announcement", FALSE),
   Answer(<<Shell(0, Opaque), Unknown(0), Read(2, "secret")>>, 0, "text", FALSE),
   Answer(<<Task(1, "inherit"), Task(2, None)>>, 0, "nothing", FALSE),
   Answer(<<>>, 0, "nothing", FALSE),
   Answer(<<>>, 0, "announcement", TRUE)}

ShellRule(w) == [kind |-> "shell", tool |-> "run_shell", pattern |-> w]
PathRule(p)  == [kind |-> "path", tool |-> "read_file", pattern |-> p]
ToolRule(t)  == [kind |-> "tool", tool |-> t, pattern |-> None]
Rules(always, allowed, denied) == [always_allowed |-> always, allowed |-> allowed, denied |-> denied]
Nothing == Rules(<<>>, None, <<>>)

Limits(r, c, p, a) == [provider_requests |-> r, tool_calls |-> c, tool_calls_per_response |-> p, auto_continues |-> a]

\* ".ssh/**", "/**/id" and "id*".
Keys   == {Pattern(FALSE, <<Segment({".ssh"}), AnyDepth>>)}
Rooted == {Pattern(TRUE, <<AnyDepth, Segment({"id"})>>)}
Named  == {Pattern(FALSE, <<Segment({"id", "id.pub"})>>)}

\* Every host counts the key as sensitive, or has blocked it.
MCSetups ==
  {[asked |-> "auto", max_approval |-> "ask", limits |-> Limits(9, 9, 9, 9), sensitive |-> Keys, blocked |-> {},
    rules |-> [base |-> Rules(<<ShellRule(ls)>>, None, <<ShellRule(rm)>>), overlay |-> None]],
   [asked |-> "auto", max_approval |-> "auto", limits |-> Limits(3, 2, 1, 2), sensitive |-> {}, blocked |-> Keys,
    rules |-> [base |-> Nothing, overlay |-> Rules(<<>>, None, <<ShellRule(rm)>>)]],
   [asked |-> "ask", max_approval |-> "auto", limits |-> Limits(3, 3, 2, 0), sensitive |-> Rooted, blocked |-> {},
    rules |-> [base |-> Rules(<<PathRule("secret")>>, <<ToolRule("read_file"), ToolRule("delegate_task")>>, <<>>),
               overlay |-> Rules(<<ToolRule("run_shell")>>, None, <<>>)]],
   [asked |-> "ask", max_approval |-> "off", limits |-> Limits(2, 2, 2, 1), sensitive |-> Named, blocked |-> {},
    rules |-> [base |-> Nothing, overlay |-> None]]}

=============================================================================

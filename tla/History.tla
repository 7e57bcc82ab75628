------------------------------ MODULE History ------------------------------
(***************************************************************************)
(* Conversation histories and what the engine does with them: compaction   *)
(* (compaction.rs), the request made of a history, and the record of a     *)
(* turn that failed (engine.rs).                                           *)
(*                                                                         *)
(* A message has a role, the provider's ids of the calls it makes or of    *)
(* the call it answers, and a size in bytes.  A user message that the      *)
(* engine sent to make the model go on has of = 1.                         *)
(***************************************************************************)
EXTENDS Naturals, Sequences

CONSTANTS
  MaxBytes,       \* max_bytes of the compactor, 0 for NoCompaction
  MinimumBytes,   \* MINIMUM_HISTORY_BYTES
  Marker          \* the length of ELIDED_MARKER and of the other markers

\* turn: the turn that wrote it, which the code does not keep.
Message(role, calls, of, size, reasoning, turn) ==
  [role |-> role, calls |-> calls, of |-> of, size |-> size, reasoning |-> reasoning, turn |-> turn]

SystemMessage(size, turn)            == Message("system", <<>>, 0, size, 0, turn)
UserMessage(turn)                    == Message("user", <<>>, 0, 1, 0, turn)
Nudge(turn)                          == Message("user", <<>>, 1, 1, 0, turn)
AssistantMessage(calls, thought, turn) == Message("assistant", calls, 0, 1, thought, turn)
ToolMessage(id, size, turn)          == Message("tool", <<>>, id, size, 0, turn)

history_bytes(h) ==
  LET sum[k \in 0..Len(h)] == IF k = 0 THEN 0 ELSE sum[k - 1] + h[k].size + h[k].reasoning
  IN sum[Len(h)]

\* turn_starts: a turn begins at each user message, also at one the engine sent.
Starts(h) == {k \in DOMAIN h : h[k].role = "user"}

Least(s)    == CHOOSE k \in s : \A j \in s : k <= j
Greatest(s) == CHOOSE k \in s : \A j \in s : j <= k

\* Mutant: eviction drops messages, not turns.
EvictedByMessage(h, max) ==
  LET fits == {k \in 2..Len(h) : history_bytes(SubSeq(h, k, Len(h))) <= max}
  IN IF fits = {} \/ Starts(h) = {} THEN h ELSE <<Head(h)>> \o SubSeq(h, Least(fits), Len(h))

\* The oldest turns go, but never the last one.
Evicted(h, max) ==
  LET starts == Starts(h)
      prefix == SubSeq(h, 1, Least(starts) - 1)
      fits   == {k \in starts : history_bytes(prefix) + history_bytes(SubSeq(h, k, Len(h))) <= max}
      keep   == IF fits = {} THEN Greatest(starts) ELSE Least(fits)
  IN IF starts = {} THEN h ELSE prefix \o SubSeq(h, keep, Len(h))

Tools(h) == {k \in DOMAIN h : h[k].role = "tool"}

\* elide_oversized_bodies: the payloads of all but the newest result, oldest
\* first; then the newest is cut; then the reasoning goes.
Elided(h, max) ==
  LET newest == IF Tools(h) = {} THEN 0 ELSE Greatest(Tools(h))
      bodies[k \in 0..Len(h)] ==
        IF k = 0 THEN h
        ELSE IF history_bytes(bodies[k - 1]) > max /\ k \in Tools(h) \ {newest} /\ h[k].size > Marker
          THEN [bodies[k - 1] EXCEPT ![k].size = Marker] ELSE bodies[k - 1]
      first  == bodies[Len(h)]
      others == history_bytes(first) - (IF newest = 0 THEN 0 ELSE first[newest].size)
      budget == IF max > others THEN max - others ELSE 0
      second == IF history_bytes(first) > max /\ newest # 0 /\ first[newest].size > budget /\ budget > Marker
                  THEN [first EXCEPT ![newest].size = budget] ELSE first
      thoughts[k \in 0..Len(h)] ==
        IF k = 0 THEN second
        ELSE IF history_bytes(thoughts[k - 1]) > max THEN [thoughts[k - 1] EXCEPT ![k].reasoning = 0]
                                                     ELSE thoughts[k - 1]
  IN thoughts[Len(h)]

\* compact_to.  There is a report exactly when the history changes.
compact_to(h, max) == IF history_bytes(h) <= max THEN h ELSE Elided(Evicted(h, max), max)

compact(h) == IF MaxBytes = 0 THEN h ELSE compact_to(h, MaxBytes)

Halved == IF MaxBytes \div 2 > MinimumBytes THEN MaxBytes \div 2 ELSE MinimumBytes

compact_overflow(h) == IF MaxBytes = 0 THEN h ELSE compact_to(h, Halved)

\* drop_tool_payloads, from the last user message on.
drop_tool_payloads(h) ==
  LET from == IF Starts(h) = {} THEN 1 ELSE Greatest(Starts(h))
  IN [k \in DOMAIN h |->
        IF k < from THEN h[k]
        ELSE [h[k] EXCEPT !.size = IF h[k].role = "tool" THEN Marker ELSE @, !.reasoning = 0]]

\* The messages of h that have one of these roles.
Messages(h, roles) ==
  LET those[k \in 0..Len(h)] ==
        IF k = 0 THEN <<>>
        ELSE IF h[k].role \in roles THEN Append(those[k - 1], h[k]) ELSE those[k - 1]
  IN those[Len(h)]

\* merge_system_messages: what the provider is sent.
merge_system_messages(h) ==
  LET records == Messages(h, {"system"})
      rest    == Messages(h, {"user", "assistant", "tool"})
  IN IF records = <<>> THEN rest
     ELSE <<SystemMessage(history_bytes(records), 0)>> \o rest

\* stub_unfinished_tool_calls, and refusals: a result for each call.
Answers(calls, size, turn) == [k \in DOMAIN calls |-> ToolMessage(calls[k], size, turn)]

\* Mutant: what the tools of a failed turn did is rolled back.
always_rollback(h, rollback, observed, turn) == rollback

\* preserve_or_rollback_failed_turn
preserve_or_rollback(h, rollback, observed, turn) ==
  IF observed THEN Append(h, SystemMessage(1, turn)) ELSE rollback

\* What strict providers accept: system messages only at the head, no prompt
\* directly after another one that was left unanswered (a nudge of the engine
\* may be left so), and after each message with calls one answer to each, in
\* order, and no other answers.
WellFormed(h) ==
  LET at == {k \in DOMAIN h : h[k].role = "assistant"} IN
  /\ \A k \in DOMAIN h : h[k].role = "system" => k = 1
  /\ \A k \in 1..(Len(h) - 1) : h[k].role = "user" /\ h[k].of = 0 => h[k + 1].role # "user"
  /\ \A k \in at : \A j \in DOMAIN h[k].calls :
       k + j \in DOMAIN h /\ h[k + j].role = "tool" /\ h[k + j].of = h[k].calls[j]
  /\ \A k \in Tools(h) : \E j \in at : j < k /\ k <= j + Len(h[j].calls)

=============================================================================

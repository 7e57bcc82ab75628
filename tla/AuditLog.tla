------------------------------ MODULE AuditLog ------------------------------
(***************************************************************************)
(* An audit log as xshell-auditd writes it and xshell-audit-verify reads   *)
(* it (log.rs): records in a hash chain, and signed checkpoints.           *)
(*                                                                         *)
(* A hash is represented by what it is computed from, the records up to    *)
(* and including the one it is of, so two of them are equal only if the    *)
(* records are.  Signatures, nonces and commitments are always well formed *)
(* in a log that its writer wrote.  A line that was not written completely *)
(* is the entry Torn.                                                      *)
(***************************************************************************)
EXTENDS Naturals, Sequences

CONSTANTS
  Event,                \* what is recorded
  CheckpointInterval    \* checkpoint_interval

Hash == Seq([sequence: Nat, event: Event])

RecordEntry(sequence, previous, event) ==
  [kind |-> "record", sequence |-> sequence, previous |-> previous, event |-> event]

\* checkpoint_head, the hash of the previous checkpoint, is its number.
CheckpointEntry(number, previous, sequence, head, final) ==
  [kind |-> "checkpoint", number |-> number, previous |-> previous,
   sequence |-> sequence, head |-> head, final |-> final]

Torn == [kind |-> "torn"]

\* AuditLogWriter
Writer == [sequence: Nat, chain_head: Hash, checkpoint_sequence: Nat, checkpoint_head: Nat]

NoWriter == [sequence |-> 0, chain_head |-> <<>>, checkpoint_sequence |-> 0, checkpoint_head |-> 0]

hash_record_body(sequence, previous, event) ==
  Append(previous, [sequence |-> sequence, event |-> event])

\* append, its record.  The sequence number moves before the record is written.
Counted(w) == [w EXCEPT !.sequence = @ + 1]

RecordOf(w, event) == RecordEntry(w.sequence + 1, w.chain_head, event)

\* Mutant: the chain does not move on.
UnchainedAfter(w, event) == Counted(w)

Chained(w, event) ==
  [Counted(w) EXCEPT !.chain_head = hash_record_body(w.sequence + 1, w.chain_head, event)]

CheckpointDue(w) == w.sequence % CheckpointInterval = 0

\* write_checkpoint
CheckpointOf(w, final) ==
  CheckpointEntry(w.checkpoint_sequence + 1, w.checkpoint_head, w.sequence, w.chain_head, final)

Checkpointed(w) ==
  [w EXCEPT !.checkpoint_sequence = @ + 1, !.checkpoint_head = w.checkpoint_sequence + 1]

-----------------------------------------------------------------------------

\* The state of verify_log before a log's first line.
Start == [ok |-> TRUE, sequence |-> 1, chain_head |-> <<>>, checkpoints |-> 0, checkpoint_head |-> 0,
          final |-> FALSE]

Verified1(v, entry) ==
  CASE entry.kind = "record" ->
         [v EXCEPT !.ok = @ /\ entry.sequence = v.sequence /\ entry.previous = v.chain_head,
                   !.sequence = @ + 1,
                   !.chain_head = hash_record_body(entry.sequence, entry.previous, entry.event)]
    [] entry.kind = "checkpoint" ->
         [v EXCEPT !.ok = @ /\ entry.number = v.checkpoints + 1 /\ entry.previous = v.checkpoint_head
                            /\ entry.sequence = v.sequence - 1 /\ entry.head = v.chain_head,
                   !.checkpoints = @ + 1,
                   !.checkpoint_head = entry.number,
                   !.final = entry.final]
    [] OTHER -> [v EXCEPT !.ok = FALSE]

\* verify_log after the first n lines.
verify_log(s) ==
  LET after[n \in 0..Len(s)] == IF n = 0 THEN Start ELSE Verified1(after[n - 1], s[n])
  IN after[Len(s)]

EventsOf(s) == {s[k].event : k \in {i \in DOMAIN s : s[i].kind = "record"}}

=============================================================================

---------------------------- MODULE MCAuditTrail ----------------------------
(* AuditTrail for TLC: three actions, two connections, two faults.         *)
EXTENDS AuditTrail

=============================================================================

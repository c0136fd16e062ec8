----------------------------- MODULE MCAuditLog -----------------------------
(* Instances of AuditLog for TLC. *)
EXTENDS AuditLog, TLC

CONSTANTS serve, cli, request1, request2, command

(* The console serves its requests on threads; a CLI command has one. *)
MCHome == [t \in Threads |-> IF t = command THEN cli ELSE serve]
=============================================================================

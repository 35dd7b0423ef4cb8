--------------------------- MODULE MCAuditRecorder ---------------------------
(* A bounded instance of AuditRecorder.  Handles do not share state, so one  *)
(* call with every boundary and decision is enough for the safety of each.   *)
EXTENDS AuditRecorder
=============================================================================

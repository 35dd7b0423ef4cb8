-------------------------- MODULE MCApprovalService --------------------------
(* Bounded instances of ApprovalService: tickets as model values, a TTL that *)
(* is refused, one that expires at once and one that outlives it.            *)
EXTENDS ApprovalService
=============================================================================

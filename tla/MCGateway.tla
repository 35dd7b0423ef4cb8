------------------------------ MODULE MCGateway ------------------------------
(* Bounded instances of Gateway. *)
EXTENDS Gateway
=============================================================================

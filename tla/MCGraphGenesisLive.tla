-------------------------- MODULE MCGraphGenesisLive --------------------------
(* Bounded instances of GraphGenesisLive. *)
EXTENDS GraphGenesisLive
=============================================================================

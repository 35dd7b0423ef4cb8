--------------------------- MODULE MCMetadataBroker ---------------------------
(* Bounded instances of MetadataBroker. *)
EXTENDS MetadataBroker
=============================================================================

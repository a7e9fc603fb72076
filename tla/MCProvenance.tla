---------------------------- MODULE MCProvenance ----------------------------
(* Small instances of Provenance for TLC. *)
EXTENDS Provenance

=============================================================================

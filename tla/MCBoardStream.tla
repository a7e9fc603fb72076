---------------------------- MODULE MCBoardStream ----------------------------
(* Small instances of BoardStream for TLC. *)
EXTENDS BoardStream

=============================================================================

------------------------- MODULE MCSessionHeartbeat -------------------------
(* Small instances of SessionHeartbeat for TLC. *)
EXTENDS SessionHeartbeat

\* A parked worker, and one with a vault and no task.
SomeDeclarations ==
  {[task |-> TRUE, vault |-> TRUE, location |-> "local", state |-> "idle",
    source |-> "mcp-timer"],
   [task |-> FALSE, vault |-> TRUE, location |-> "local", state |-> "idle",
    source |-> "mcp-timer"]}

=============================================================================

--------------------------- MODULE MCSessionLedger ---------------------------
(* Small instances of SessionLedger for TLC. *)
EXTENDS SessionLedger, TLC

CONSTANTS sa, sb, v1, v2

RowOf(spawned, task, vault, stopped) ==
  [f \in Fields |-> CASE f = "spawned_at" -> spawned [] f = "task" -> task
                      [] f = "vault" -> vault [] f = "stopped_at" -> stopped]

Anchored == RowOf(v1, v1, v1, Absent)

Stopped == RowOf(v2, Absent, Absent, v2)

HalfAnchored == RowOf(v1, v1, Absent, Absent)

\* An anchored spawn, a stopped one and one whose anchor has no vault.
SpawnPosts == {Anchored, Stopped, HalfAnchored}

\* A stop, a stop withdrawn, an anchor cleared half and whole, a renamed
\* session, a misspelt field and one that is dropped with its null.
SpawnPatches ==
  { [f \in {"stopped_at"} |-> v1],
    [f \in {"stopped_at"} |-> Absent],
    [f \in {"vault"} |-> Absent],
    [f \in {"task", "vault"} |-> Absent],
    [f \in {"session_id"} |-> v1],
    [f \in {"stopped_at", "unknown"} |-> v1],
    [f \in {"stopped_at", "unknown"} |-> IF f = "unknown" THEN Absent ELSE v2] }

\* A stale file of both sessions, a batch that repeats a session, and one whose
\* second row is invalid.
SpawnImports ==
  { << [session |-> sa, row |-> Stopped], [session |-> sb, row |-> Anchored] >>,
    << [session |-> sa, row |-> Anchored], [session |-> sa, row |-> Stopped] >>,
    << [session |-> sa, row |-> Anchored], [session |-> sb, row |-> HalfAnchored] >> }

=============================================================================

-------------------------- MODULE MCAttentionStore --------------------------
(* Small instances of AttentionStore for TLC. *)
EXTENDS AttentionStore, TLC

CONSTANTS i1, i2, i3, k1, k2, p1, p2, s1, s2, o1, h1, a1, m1, m2,
          allow, deny, why, up, delivered, held, r1, r2

Row(key, payload, mechanism, options, ref, deadline) ==
  [ key |-> key, payload |-> payload, mechanism |-> mechanism,
    options |-> options, ref |-> ref, expiresAt |-> deadline ]

\* One question, pushed again and again.
IndexRequests ==
  { Row(k1, p1, "message", FALSE, h1, Never) }

\* A session's question with no deadline, then with one; a gate of an owner
\* nobody probes.
PruneRequests ==
  { Row(k1, p1, "message", FALSE, s1, Never),
    Row(k1, p1, "message", FALSE, s1, 1),
    Row(k1, p1, "permission", FALSE, o1, 1) }

\* A permission gate and a question.
AnswerRequests ==
  { Row(k1, p1, "permission", FALSE, h1, Never),
    Row(k2, p1, "message", TRUE, h1, Never) }

\* One key carrying two different asks.
SweepRequests ==
  { Row(k1, p1, "message", FALSE, o1, Never),
    Row(k1, p2, "message", FALSE, o1, Never) }

IdSymmetry == Permutations(Ids)

=============================================================================

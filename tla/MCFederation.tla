---------------------------- MODULE MCFederation ----------------------------
(* Small instances of Federation for TLC. *)
EXTENDS Federation

CONSTANTS i1, arm, sa, sb, allow, up

\* A call without arguments.
Bare(kind, id) ==
  [kind |-> kind, id |-> id, arm |-> None, resolver |-> None, decision |-> None,
   rating |-> None, valid |-> TRUE]

\* Calls on one ask, with what tells their outcomes apart: an answer, its
\* resolution by the asking session and one that is not on offer, a close by an
\* arm, two carriers and a malformed rating.
CallOps ==
  { [Bare("answer", i1) EXCEPT !.arm = arm, !.decision = allow],
    [Bare("answer", i1) EXCEPT !.resolver = sa],
    [Bare("answer", i1) EXCEPT !.valid = FALSE],
    [Bare("close", i1) EXCEPT !.arm = arm],
    [Bare("escalate", i1) EXCEPT !.resolver = sa],
    [Bare("escalate", i1) EXCEPT !.resolver = sb],
    [Bare("rate", i1) EXCEPT !.valid = FALSE] }

\* What moves an ask out of the queue.
BoardOps == { Bare("answer", i1), Bare("close", i1) }

=============================================================================

---------------------------- MODULE AskLifecycle ----------------------------
(***************************************************************************)
(* What the store promises of every ask, whatever its indexes, its readers  *)
(* and its sweep do: an id is drawn once; an open ask is answered, closed   *)
(* or removed; an answered ask is only ever closed and a closed one stays;  *)
(* an answer is never lost, and a verdict once recorded is never replaced.  *)
(* Any number of asks may move in one step, because a sweep and a prune     *)
(* each settle a batch in one transaction.                                 *)
(***************************************************************************)
CONSTANTS Ids, Decisions, None

VARIABLES phase, verdict

Phases == {"unused", "open", "answered", "closed", "gone"}

Moves ==
  { <<"unused", "open">>, <<"open", "answered">>, <<"open", "closed">>,
    <<"open", "gone">>, <<"answered", "closed">> }

Init ==
  /\ phase = [i \in Ids |-> "unused"]
  /\ verdict = [i \in Ids |-> None]

\* A verdict is recorded by an answer, once.
Settles(i) ==
  \/ verdict'[i] = verdict[i]
  \/ verdict[i] = None /\ phase'[i] = "answered" /\ verdict'[i] \in Decisions

Next ==
  /\ phase' \in [Ids -> Phases]
  /\ verdict' \in [Ids -> Decisions \cup {None}]
  /\ \A i \in Ids :
       /\ phase'[i] = phase[i] \/ <<phase[i], phase'[i]>> \in Moves
       /\ Settles(i)

Spec == Init /\ [][Next]_<<phase, verdict>>

=============================================================================

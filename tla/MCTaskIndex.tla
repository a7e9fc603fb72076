----------------------------- MODULE MCTaskIndex -----------------------------
(* Small instances of TaskIndex for TLC. *)
EXTENDS TaskIndex

TaskFile(session, status, goals) ==
  <<Line("fence", "", ""), Line("key", SessionKey, session), Line("key", StatusKey, status),
    Line("key", GoalsKey, "")>>
  \o [i \in DOMAIN goals |-> Line("item", "", goals[i])]
  \o <<Line("fence", "", "")>>

\* A task in flight and a completed one, of one session.
SomeBodies ==
  {TaskFile("sa", "in_progress", <<"ga", "gb">>), TaskFile("sa", "completed", <<"gb">>)}

Page(goals) ==
  <<Line("section", "", "")>> \o [i \in DOMAIN goals |-> Line("item", "", goals[i])]

\* A goal that goes missing, and topic pages that list the goals or do not.
RungsBefore == [goals |-> {"ga", "gb"}, pages |-> <<Page(<<>>), Page(<<"ga">>)>>]

SomeRungs == {RungsBefore, [goals |-> {"gb"}, pages |-> <<Page(<<"gb">>), Page(<<"ga">>)>>]}

=============================================================================

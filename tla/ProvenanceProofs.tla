-------------------------- MODULE ProvenanceProofs --------------------------
(***************************************************************************)
(* Proofs about Provenance, for any number of requests and of refreshes      *)
(* behind them, any window and any bounds.                                   *)
(*                                                                         *)
(* A registry read that was cut short belongs to an abandoned request, and    *)
(* the listing of an abandoned request fails: so a snapshot with half the     *)
(* names never holds a pane a claim could rest on.                           *)
(*                                                                         *)
(* What is kept of a log is what its whole lines before the offset say: the    *)
(* merge of a part read later onto it is the merge of all of them.           *)
(***************************************************************************)
EXTENDS Provenance, FiniteSetTheorems, SequenceTheorems, TLAPS

\* Refreshes run behind requests only once there is something to serve.
BackgroundServes == \A b \in Background : Running(b) => cached # NoRecord

\* Names cut short come with a listing that fails.
CutFails ==
  /\ \A r \in Runners :
       /\ task[r].step = "names" => task[r].panes = "failed"
       /\ task[r].names = "cut" => Cancelled(r) /\ task[r].panes = "failed"
  /\ cached # NoRecord /\ cached.names = "cut" => cached.panes = "failed"

IInv ==
  /\ TypeOK
  /\ SingleFlight
  /\ BackgroundServes
  /\ CutFails

-----------------------------------------------------------------------------
(* Types. *)

\* A task that has not read anything, and one that starts.
LEMMA NoTaskTyped ==
  /\ NoTask \in Task
  /\ [NoTask EXCEPT !.step = "names"] \in Task
  /\ [NoTask EXCEPT !.step = "finish"] \in Task
  BY DEF NoTask, Task, Steps, ReadKinds, NameKinds

\* What a refresh has read is a snapshot.
LEMMA SnapshotTyped ==
  ASSUME TypeOK, NEW r \in Runners
  PROVE  SnapshotOf(r) \in Snapshot /\ SnapshotOf(r) # NoRecord
<1>1. task[r] \in Task
  BY DEF TypeOK
<1>2. SnapshotOf(r) \in Snapshot
  BY <1>1 DEF SnapshotOf, Snapshot, Task
<1>3. QED
  BY <1>2, ProvenanceAssumption DEF Snapshot

\* A producer's write leaves a log.
LEMMA WrittenTyped ==
  ASSUME NEW l \in Log, NEW w \in Written(l)
  PROVE  w \in Log
<1>1. ASSUME w = [l EXCEPT !.torn = TRUE, !.present = TRUE]
      PROVE  w \in Log
  BY <1>1 DEF Log
<1>2. ASSUME NEW r \in Records, w = [l EXCEPT !.lines = Append(l.lines, r), !.torn = FALSE]
      PROVE  w \in Log
  <2>1. l.lines \in Seq(Records)
    BY DEF Log
  <2>2. Append(l.lines, r) \in Seq(Records)
    BY <2>1
  <2>3. QED
    BY <1>2, <2>2 DEF Log
<1>3. ASSUME NEW p \in BOOLEAN, w = [Absent EXCEPT !.present = p, !.serial = l.serial + 1]
      PROVE  w \in Log
  <2>1. l.serial + 1 \in Nat
    BY DEF Log
  <2>2. << >> \in Seq(Records)
    OBVIOUS
  <2>3. QED
    BY <1>3, <2>1, <2>2 DEF Absent, Log
<1>4. QED
  BY <1>1, <1>2, <1>3 DEF Written

\* The initial state is typed.
LEMMA InitTyped == Init => TypeOK
<1> SUFFICES ASSUME Init PROVE TypeOK
  OBVIOUS
<1>1. << >> \in Seq(Records)
  OBVIOUS
<1>2. Absent \in Log
  BY <1>1 DEF Absent, Log
<1>3. task \in [Runners -> Task]
  BY NoTaskTyped DEF Init
<1>4. QED
  BY <1>2, <1>3, ProvenanceAssumption DEF Init, TypeOK

\* What a refresh learns of the session's name is of the kinds a read may give,
\* and is cut short only for an abandoned request.
LEMMA NamesLearned ==
  ASSUME TypeOK, NEW r \in Runners, ReadNames(r) \/ SkipName(r)
  PROVE  \E names \in ReadKinds :
           NamesRead(r, names) /\ (names = "cut" => Cancelled(r))
<1>1. registry \in ReadKinds /\ registry # "cut" /\ {"none", "cut"} \subseteq ReadKinds
  BY ProvenanceAssumption DEF TypeOK, ReadKinds, NameKinds
<1>2. QED
  BY <1>1 DEF ReadNames, SkipName

\* Every step keeps the types.
LEMMA NextTyped == TypeOK /\ [Next]_vars => TypeOK'
<1> SUFFICES ASSUME TypeOK, [Next]_vars PROVE TypeOK'
  OBVIOUS
<1> USE ProvenanceAssumption
<1>1. CASE ChangeHost
  <2>1. title' \in Titles
    BY <1>1 DEF ChangeHost, TypeOK
  <2>2. registry' \in Names
    BY <1>1 DEF ChangeHost, TypeOK
  <2>3. changes' \in 0 .. MaxChanges
    BY <1>1 DEF ChangeHost, TypeOK
  <2>4. QED
    BY <1>1, <2>1, <2>2, <2>3 DEF ChangeHost, TypeOK, logVars
<1>2. CASE Tick
  BY <1>2 DEF Tick, Aged, TypeOK, logVars
<1>3. ASSUME NEW b \in Background, ServeStale(b) PROVE TypeOK'
  <2>1. task' \in [Runners -> Task]
    BY <1>3, NoTaskTyped DEF ServeStale, Started, TypeOK
  <2>2. QED
    BY <1>3, <2>1 DEF ServeStale, TypeOK, Runners, logVars
<1>4. ASSUME NEW c \in Callers, ColdStart(c) PROVE TypeOK'
  <2>1. task' \in [Runners -> Task]
    BY <1>4, NoTaskTyped DEF ColdStart, Started, TypeOK
  <2>2. QED
    BY <1>4, <2>1 DEF ColdStart, TypeOK, Runners, logVars
<1>5. ASSUME NEW c \in Callers, Abandon(c) PROVE TypeOK'
  BY <1>5 DEF Abandon, TypeOK, logVars
<1>6. ASSUME NEW r \in Runners, ReadNames(r) \/ SkipName(r) PROVE TypeOK'
  <2>1. PICK names \in ReadKinds : NamesRead(r, names)
    BY <1>6, NamesLearned
  <2>2. [task[r] EXCEPT !.names = names, !.step = "list"] \in Task
    BY DEF TypeOK, Task, Steps
  <2>3. task' = [task EXCEPT ![r] = [task[r] EXCEPT !.names = names, !.step = "list"]]
    BY <2>1 DEF NamesRead, TypeOK
  <2>4. task' \in [Runners -> Task]
    BY <2>2, <2>3 DEF TypeOK
  <2>5. faults' \in 0 .. MaxFaults
    BY <1>6 DEF ReadNames, SkipName, TypeOK
  <2>6. QED
    BY <2>1, <2>4, <2>5 DEF NamesRead, TypeOK, logVars
<1>7. ASSUME NEW r \in Runners, List(r) PROVE TypeOK'
  <2>1. task' \in [Runners -> Task]
    BY <1>7 DEF List, TypeOK, Task, Steps
  <2>2. QED
    BY <1>7, <2>1 DEF List, TypeOK, logVars
<1>8. ASSUME NEW r \in Runners, ListFails(r) PROVE TypeOK'
  <2>1. task' \in [Runners -> Task]
    BY <1>8 DEF ListFails, TypeOK, Task, Steps
  <2>2. faults' \in 0 .. MaxFaults
    BY <1>8 DEF ListFails, TypeOK
  <2>3. QED
    BY <1>8, <2>1, <2>2 DEF ListFails, TypeOK, logVars
<1>9. ASSUME NEW r \in Runners, Publish(r) PROVE TypeOK'
  <2>1. task' \in [Runners -> Task]
    BY <1>9, NoTaskTyped DEF Publish, TypeOK
  <2>2. cached' \in Snapshot
    BY <1>9, SnapshotTyped DEF Publish, Published
  <2>3. QED
    BY <1>9, <2>1, <2>2 DEF Publish, TypeOK, logVars
<1>10. ASSUME NEW r \in Runners, FinishRefresh(r) PROVE TypeOK'
  <2>1. task' \in [Runners -> Task]
    BY <1>10, NoTaskTyped DEF FinishRefresh, TypeOK
  <2>2. abandoned' \in [Callers -> BOOLEAN]
    BY <1>10 DEF FinishRefresh, TypeOK
  <2>3. QED
    BY <1>10, <2>1, <2>2 DEF FinishRefresh, Cleared, TypeOK, logVars
<1>11. CASE Write
  <2>1. log' \in Log
    BY <1>11, WrittenTyped DEF Write, TypeOK
  <2>2. QED
    BY <1>11, <2>1 DEF Write, TypeOK, hostVars
<1>12. CASE ReadEvents
  <2>1. log' \in Log
    BY <1>12, WrittenTyped DEF ReadEvents, TypeOK
  <2>2. log'.serial \in Nat /\ Len(log'.lines) \in Nat
    BY <2>1 DEF Log
  <2>3. offset' \in Nat
    BY <1>12, <2>2 DEF ReadEvents, Consumed, TypeOK
  <2>4. origin' \in Nat
    BY <1>12, <2>2 DEF ReadEvents, TypeOK
  <2>5. QED
    BY <1>12, <2>1, <2>3, <2>4 DEF ReadEvents, TypeOK, hostVars
<1>13. CASE UNCHANGED vars
  BY <1>13 DEF vars, hostVars, logVars, TypeOK
<1>14. QED
  BY <1>1, <1>2, <1>3, <1>4, <1>5, <1>6, <1>7, <1>8, <1>9, <1>10, <1>11, <1>12, <1>13
     DEF Next, Refresh

-----------------------------------------------------------------------------
(* The token, and what names cut short come with. *)

\* A cache that holds a snapshot never loses it.
LEMMA CacheStays ==
  ASSUME TypeOK, [Next]_vars, cached # NoRecord
  PROVE  cached' # NoRecord
<1>1. ASSUME NEW r \in Runners, Publish(r) PROVE cached' # NoRecord
  BY <1>1, SnapshotTyped DEF Publish, Published
<1>2. QED
  BY <1>1 DEF Next, Refresh, ChangeHost, Tick, ServeStale, ColdStart, Abandon, ReadNames, List,
              SkipName, NamesRead, ListFails, FinishRefresh, Write, ReadEvents, vars, hostVars

\* The token goes with its refresh.
LEMMA FlightStep ==
  ASSUME TypeOK, SingleFlight, BackgroundServes, [Next]_vars
  PROVE  SingleFlight' /\ BackgroundServes'
<1> USE ProvenanceAssumption DEF SingleFlight, BackgroundServes, Running
<1>1. cached # NoRecord => cached' # NoRecord
  BY CacheStays
<1>2. ASSUME UNCHANGED <<refreshing, task>> PROVE SingleFlight' /\ BackgroundServes'
  BY <1>1, <1>2
<1>3. ASSUME NEW r \in Runners, UNCHANGED refreshing,
             \A q \in Runners : Running(q)' <=> Running(q)
      PROVE  SingleFlight' /\ BackgroundServes'
  BY <1>1, <1>3 DEF TypeOK, Runners
<1>4. ASSUME NEW b \in Background, ServeStale(b) PROVE SingleFlight' /\ BackgroundServes'
  <2>1. task'[b].step = "names" /\ \A q \in Runners \ {b} : task'[q] = task[q]
    BY <1>4 DEF ServeStale, Started, TypeOK, Runners, NoTask
  <2>2. \A q \in Background : q # b => task'[q].step = "idle"
    BY <1>4, <2>1 DEF ServeStale, MayRefresh, Runners
  <2>3. QED
    BY <1>4, <2>1, <2>2 DEF ServeStale
<1>5. ASSUME NEW c \in Callers, ColdStart(c) PROVE SingleFlight' /\ BackgroundServes'
  <2>1. task'[c].step = "names" /\ \A q \in Runners \ {c} : task'[q] = task[q]
    BY <1>5 DEF ColdStart, Started, TypeOK, Runners, NoTask
  <2>2. \A q \in Background : task'[q].step = "idle"
    BY <1>5, <2>1 DEF ColdStart, Runners
  <2>3. QED
    BY <1>5, <2>1, <2>2 DEF ColdStart
<1>6. ASSUME NEW r \in Runners, ReadNames(r) \/ SkipName(r)
      PROVE  SingleFlight' /\ BackgroundServes'
  <2>1. PICK names \in ReadKinds : NamesRead(r, names)
    BY <1>6, NamesLearned
  <2>2. \A q \in Runners : Running(q)' <=> Running(q)
    BY <2>1 DEF NamesRead, TypeOK, Task
  <2>3. QED
    BY <1>3, <2>1, <2>2 DEF NamesRead
<1>7. ASSUME NEW r \in Runners, List(r) PROVE SingleFlight' /\ BackgroundServes'
  <2>1. \A q \in Runners : Running(q)' <=> Running(q)
    BY <1>7 DEF List, TypeOK, Task
  <2>2. QED
    BY <1>3, <1>7, <2>1 DEF List
<1>8. ASSUME NEW r \in Runners, ListFails(r) PROVE SingleFlight' /\ BackgroundServes'
  <2>1. \A q \in Runners : Running(q)' <=> Running(q)
    BY <1>8 DEF ListFails, TypeOK, Task
  <2>2. QED
    BY <1>3, <1>8, <2>1 DEF ListFails
<1>9. ASSUME NEW r \in Runners, Publish(r) PROVE SingleFlight' /\ BackgroundServes'
  <2>1. \A q \in Runners : Running(q)' <=> Running(q)
    BY <1>9 DEF Publish, TypeOK, NoTask
  <2>2. QED
    BY <1>3, <1>9, <2>1 DEF Publish
<1>10. ASSUME NEW r \in Runners, FinishRefresh(r) PROVE SingleFlight' /\ BackgroundServes'
  <2>1. task'[r].step = "idle" /\ \A q \in Runners \ {r} : task'[q] = task[q]
    BY <1>10 DEF FinishRefresh, TypeOK, NoTask
  <2>2. refreshing' # Nobody => refreshing' = refreshing /\ refreshing # r /\ refreshing \in Runners
    BY <1>10 DEF FinishRefresh, Cleared, TypeOK
  <2>3. refreshing' # Nobody => task'[refreshing'].step # "idle"
    BY <2>1, <2>2
  <2>4. ASSUME NEW b \in Background, task'[b].step # "idle"
        PROVE  refreshing' = b /\ cached' # NoRecord
    <3>1. b # r /\ task[b].step # "idle"
      BY <2>1, <2>4 DEF Runners
    <3>2. refreshing = b /\ cached # NoRecord
      BY <3>1
    <3>3. QED
      BY <1>1, <1>10, <3>1, <3>2 DEF FinishRefresh, Cleared
  <2>5. QED
    BY <2>3, <2>4
<1>11. QED
  BY <1>2, <1>4, <1>5, <1>6, <1>7, <1>8, <1>9, <1>10
     DEF Next, Refresh, ChangeHost, Tick, Abandon, Write, ReadEvents, vars, hostVars

\* A snapshot with half the names holds no pane.
LEMMA CutStep ==
  ASSUME TypeOK, CutFails, [Next]_vars
  PROVE  CutFails'
<1> USE ProvenanceAssumption DEF CutFails, Cancelled
<1>1. ASSUME UNCHANGED <<task, cached, abandoned>> PROVE CutFails'
  BY <1>1
<1>2. ASSUME NEW r \in Runners, Started(r), UNCHANGED <<cached, abandoned>> PROVE CutFails'
  <2>1. /\ task'[r].names = "none" /\ task'[r].panes = "failed"
        /\ \A q \in Runners \ {r} : task'[q] = task[q]
    BY <1>2 DEF Started, TypeOK, NoTask
  <2>2. QED
    BY <1>2, <2>1
<1>3. ASSUME NEW c \in Callers, Abandon(c) PROVE CutFails'
  BY <1>3 DEF Abandon, TypeOK
<1>4. ASSUME NEW r \in Runners, ReadNames(r) \/ SkipName(r) PROVE CutFails'
  <2>1. PICK names \in ReadKinds : NamesRead(r, names) /\ (names = "cut" => Cancelled(r))
    BY <1>4, NamesLearned
  <2>2. /\ task'[r].names = names /\ task'[r].step = "list" /\ task'[r].panes = task[r].panes
        /\ \A q \in Runners \ {r} : task'[q] = task[q]
    BY <2>1 DEF NamesRead, TypeOK, Task
  <2>3. task[r].panes = "failed"
    BY <2>1 DEF NamesRead
  <2>4. abandoned' = abandoned /\ cached' = cached
    BY <2>1 DEF NamesRead
  <2>5. \A q \in Runners : task'[q].names = "cut" => Cancelled(q) /\ task'[q].panes = "failed"
    BY <2>1, <2>2, <2>3
  <2>6. \A q \in Runners : task'[q].step = "names" => task'[q].panes = "failed"
    BY <2>2
  <2>7. QED
    BY <2>4, <2>5, <2>6
<1>5. ASSUME NEW r \in Runners, List(r) PROVE CutFails'
  <2>1. /\ task'[r].names = task[r].names /\ task'[r].step = "publish"
        /\ \A q \in Runners \ {r} : task'[q] = task[q]
    BY <1>5 DEF List, TypeOK, Task
  <2>2. task[r].names # "cut"
    BY <1>5 DEF List, MayList
  <2>3. abandoned' = abandoned /\ cached' = cached
    BY <1>5 DEF List
  <2>4. \A q \in Runners : task'[q].names = "cut" => Cancelled(q) /\ task'[q].panes = "failed"
    BY <2>1, <2>2
  <2>5. \A q \in Runners : task'[q].step = "names" => task'[q].panes = "failed"
    BY <2>1
  <2>6. QED
    BY <2>3, <2>4, <2>5
<1>6. ASSUME NEW r \in Runners, ListFails(r) PROVE CutFails'
  <2>1. /\ task'[r].names = task[r].names /\ task'[r].panes = "failed"
        /\ \A q \in Runners \ {r} : task'[q] = task[q]
    BY <1>6 DEF ListFails, TypeOK, Task
  <2>2. abandoned' = abandoned /\ cached' = cached
    BY <1>6 DEF ListFails
  <2>3. \A q \in Runners : task'[q].names = "cut" => Cancelled(q) /\ task'[q].panes = "failed"
    BY <2>1
  <2>4. \A q \in Runners : task'[q].step = "names" => task'[q].panes = "failed"
    BY <2>1
  <2>5. QED
    BY <2>2, <2>3, <2>4
<1>7. ASSUME NEW r \in Runners, Publish(r) PROVE CutFails'
  <2>1. /\ task'[r].names = "none" /\ task'[r].step = "finish"
        /\ \A q \in Runners \ {r} : task'[q] = task[q]
    BY <1>7 DEF Publish, TypeOK, NoTask
  <2>2. cached'.names = task[r].names /\ cached'.panes = task[r].panes
    BY <1>7 DEF Publish, Published, SnapshotOf
  <2>3. QED
    BY <1>7, <2>1, <2>2 DEF Publish
<1>8. ASSUME NEW r \in Runners, FinishRefresh(r) PROVE CutFails'
  <2>1. /\ task'[r].names = "none" /\ task'[r].step = "idle"
        /\ \A q \in Runners \ {r} : task'[q] = task[q]
    BY <1>8 DEF FinishRefresh, TypeOK, NoTask
  <2>2. \A q \in Callers : q # r /\ abandoned[q] => abandoned'[q]
    BY <1>8 DEF FinishRefresh, TypeOK
  <2>3. QED
    BY <1>8, <2>1, <2>2 DEF FinishRefresh
<1>9. ASSUME NEW b \in Background, ServeStale(b) PROVE CutFails'
  BY <1>2, <1>9 DEF ServeStale, Runners
<1>10. ASSUME NEW c \in Callers, ColdStart(c) PROVE CutFails'
  BY <1>2, <1>10 DEF ColdStart, Runners
<1>11. QED
  BY <1>1, <1>3, <1>4, <1>5, <1>6, <1>7, <1>8, <1>9, <1>10
     DEF Next, Refresh, ChangeHost, Tick, Write, ReadEvents, vars, hostVars

-----------------------------------------------------------------------------
(* Theorems. *)

\* The inductive invariant: types, the token, and what names cut short come
\* with, of provenance.go's hostState, refresh and finishRefresh.
THEOREM ProvenanceInvariance == Spec => []IInv
<1>1. Init => IInv
  <2>1. SUFFICES ASSUME Init PROVE SingleFlight /\ BackgroundServes /\ CutFails
    BY InitTyped DEF IInv
  <2>2. \A r \in Runners : task[r] = NoTask
    BY <2>1 DEF Init
  <2>3. QED
    BY <2>1, <2>2 DEF Init, SingleFlight, BackgroundServes, CutFails, Running, NoTask, Runners
<1>2. IInv /\ [Next]_vars => IInv'
  BY NextTyped, FlightStep, CutStep DEF IInv
<1>3. QED
  BY <1>1, <1>2, PTL DEF Spec

\* Every variable of the resolver's caches keeps its type.
THEOREM ProvenanceTypes == Spec => []TypeOK
  BY ProvenanceInvariance, PTL DEF IInv

\* The token is never left behind, and at most one refresh runs behind requests
\* (hostState, finishRefresh).
THEOREM RefreshesStaySingle == Spec => []SingleFlight
  BY ProvenanceInvariance, PTL DEF IInv

\* A snapshot with half the names claims nothing, any other what its name and
\* its title allow (build, resolveByName, OwnsPane).
LEMMA CutClaimsNothing ==
  ASSUME NEW s \in Snapshot, s.names = "cut" => s.panes = "failed",
         NEW record \in Records \cup {NoRecord}, Claim(record, s) = "routable"
  PROVE  Proven(record, s)
<1>1. s.names \in {"named", "glyph", "none", "cut"}
  BY DEF Snapshot, ReadKinds, NameKinds
<1>2. CASE record = NoRecord
  BY <1>1, <1>2 DEF Claim, ByName, Proven
<1>3. CASE record # NoRecord
  <2>1. s.panes # "failed" /\ OwnsPane(s)
    BY <1>3 DEF Claim, Built
  <2>2. QED
    BY <1>1, <1>3, <2>1 DEF OwnsPane, Unprovable, Proven
<1>4. QED
  BY <1>2, <1>3

\* No resolve offers a pane whose title contradicts the session's name, nor one
\* on the strength of a registry read that an abandoned request cut short.
THEOREM ClaimsAlwaysProven == Spec => []ClaimsProven
<1>1. IInv => ClaimsProven
  <2>1. SUFFICES ASSUME IInv,
                        NEW s \in {SnapshotOf(r) : r \in {q \in Runners : task[q].step = "publish"}}
                                  \cup ({cached} \ {NoRecord}),
                        NEW record \in Records \cup {NoRecord},
                        Claim(record, s) = "routable"
                 PROVE  Proven(record, s)
    BY DEF ClaimsProven
  <2>2. s \in Snapshot
    BY <2>1, SnapshotTyped DEF IInv, TypeOK
  <2>3. s.names = "cut" => s.panes = "failed"
    BY <2>1 DEF IInv, CutFails, SnapshotOf
  <2>4. QED
    BY <2>1, <2>2, <2>3, CutClaimsNothing
<1>2. QED
  BY <1>1, ProvenanceInvariance, PTL

-----------------------------------------------------------------------------
(* What is kept of a log. *)

\* A set of numbers has a least.
LEMMA LeastNumber ==
  ASSUME NEW S \in SUBSET Nat, S # {}
  PROVE  Min(S) \in S /\ \A i \in S : Min(S) <= i
<1> DEFINE less == OpToRel(<, Nat)
<1>1. \E n \in S : \A m \in S : ~(<<m, n>> \in less)
  <2>1. IsWellFoundedOn(less, Nat)
    BY NatLessThanWellFounded
  <2> HIDE DEF less
  <2>2. QED
    BY <2>1, WFMin
<1>2. \A m, n \in Nat : <<m, n>> \in less <=> m < n
  BY DEF OpToRel
<1> HIDE DEF less
<1>3. PICK n \in S : \A m \in S : ~(m < n)
  BY <1>1, <1>2
<1>4. \A m \in S : n <= m
  BY <1>3
<1>5. QED
  BY <1>4 DEF Min

LEMMA LeastIs ==
  ASSUME NEW S \in SUBSET Nat, NEW n \in S, \A i \in S : n <= i
  PROVE  Min(S) = n
<1>1. Min(S) \in S /\ Min(S) <= n /\ n <= Min(S)
  BY LeastNumber
<1>2. Min(S) \in Nat /\ n \in Nat
  BY <1>1
<1>3. QED
  BY <1>1, <1>2

\* Positions of a sequence have a greatest: their least bound.
LEMMA GreatestPosition ==
  ASSUME NEW n \in Nat, NEW S \in SUBSET (1 .. n), S # {}
  PROVE  Max(S) \in S /\ \A i \in S : i <= Max(S)
<1> DEFINE bounds == {m \in Nat : \A i \in S : i <= m}
<1>1. n \in bounds
  OBVIOUS
<1>2. PICK m \in bounds : \A k \in bounds : m <= k
  <2>1. bounds \in SUBSET Nat /\ bounds # {}
    BY <1>1
  <2> HIDE DEF bounds
  <2>2. QED
    BY <2>1, LeastNumber
<1>3. m \in S
  <2> SUFFICES ASSUME m \notin S PROVE FALSE
    OBVIOUS
  <2>1. PICK i \in S : TRUE
    OBVIOUS
  <2>2. m \in Nat /\ m - 1 \in Nat
    <3>1. i \in Nat /\ 1 <= i /\ i <= m /\ m \in Nat
      BY <1>2
    <3>2. QED
      BY <3>1
  <2>3. \A j \in S : j <= m - 1
    <3> SUFFICES ASSUME NEW j \in S PROVE j <= m - 1
      OBVIOUS
    <3>1. j \in Nat /\ j <= m /\ j # m
      BY <1>2
    <3>2. QED
      BY <2>2, <3>1
  <2>4. m - 1 \in bounds
    BY <2>2, <2>3
  <2>5. QED
    BY <1>2, <2>2, <2>4
<1>4. \A i \in S : m >= i
  BY <1>2
<1>5. Max(S) \in S /\ \A i \in S : Max(S) >= i
  BY <1>3, <1>4 DEF Max
<1>6. \A i \in S : i \in Nat
  OBVIOUS
<1>7. QED
  BY <1>5, <1>6

Rich(s, t) == {i \in t : s[i] # Bare}

\* What the lines of s at the positions t make of the record kept before them: the
\* record, if it carries provenance, or else the first line that does.
Won(kept, s, t) ==
  IF kept \notin {NoRecord, Bare} THEN kept
  ELSE IF Rich(s, t) # {} THEN s[Min(Rich(s, t))]
  ELSE IF t = {} THEN kept ELSE Bare

\* The line after those of t stands against what they made.
LEMMA WonStep ==
  ASSUME NEW kept, NEW s \in Seq(Records), NEW t \in SUBSET DOMAIN s, NEW m \in t,
         \A i \in t : i <= m
  PROVE  Won(kept, s, t) = WinningLine(Won(kept, s, t \ {m}), s[m])
<1> DEFINE rest == t \ {m}
<1>1. /\ DOMAIN s \subseteq Nat /\ m \in Nat /\ t \subseteq Nat
      /\ \A i \in t : s[i] \in Records /\ s[i] # NoRecord
  BY ProvenanceAssumption
<1>2. CASE kept \notin {NoRecord, Bare}
  BY <1>2 DEF Won, WinningLine
<1>3. CASE kept \in {NoRecord, Bare} /\ Rich(s, rest) # {}
  <2> DEFINE n == Min(Rich(s, rest))
  <2>1. n \in Rich(s, rest) /\ \A i \in Rich(s, rest) : n <= i
    <3>1. Rich(s, rest) \in SUBSET Nat
      BY <1>1 DEF Rich
    <3>2. QED
      BY <1>3, <3>1, LeastNumber
  <2> HIDE DEF n
  <2>2. n \in Rich(s, t) /\ n <= m /\ Rich(s, t) \in SUBSET Nat
    BY <1>1, <2>1 DEF Rich
  <2>3. \A i \in Rich(s, t) : n <= i
    BY <2>1, <2>2 DEF Rich
  <2>4. Min(Rich(s, t)) = n
    BY <2>2, <2>3, LeastIs
  <2>5. Won(kept, s, t) = s[n] /\ Won(kept, s, rest) = s[n]
    BY <1>3, <2>2, <2>4 DEF Won, n
  <2>6. s[n] \notin {NoRecord, Bare}
    BY <1>1, <2>2 DEF Rich
  <2>7. QED
    BY <2>5, <2>6 DEF WinningLine
<1>4. CASE kept \in {NoRecord, Bare} /\ Rich(s, rest) = {}
  <2>1. WinningLine(Won(kept, s, rest), s[m]) = s[m]
    BY <1>4 DEF Won, WinningLine
  <2>2. CASE s[m] = Bare
    <3>1. Rich(s, t) = {}
      BY <1>4, <2>2 DEF Rich
    <3>2. QED
      BY <1>4, <2>1, <2>2, <3>1 DEF Won
  <2>3. CASE s[m] # Bare
    <3>1. Rich(s, t) = {m}
      BY <1>4, <2>3 DEF Rich
    <3>2. Min({m}) = m
      BY <1>1, LeastIs
    <3>3. QED
      BY <1>4, <2>1, <3>1, <3>2 DEF Won
  <2>4. QED
    BY <2>2, <2>3
<1>5. QED
  BY <1>2, <1>3, <1>4

\* The fold of the lines, one by one, is the line that wins among them all.
LEMMA FoldWins ==
  ASSUME NEW kept, NEW s \in Seq(Records)
  PROVE  FoldLeft(WinningLine, kept, s) = Won(kept, s, DOMAIN s)
<1> DEFINE all == DOMAIN s
           Step(f) == [t \in SUBSET all |->
                         IF t = {} THEN kept ELSE WinningLine(f[t \ {Max(t)}], s[Max(t)])]
           iter == CHOOSE f : f = Step(f)
           won == [t \in SUBSET all |-> Won(kept, s, t)]
<1>1. FoldLeft(WinningLine, kept, s) = iter[all]
  BY DEF FoldLeft, MapThenFoldSet
<1>2. all = 1 .. Len(s) /\ Len(s) \in Nat /\ IsFiniteSet(all)
  BY FS_Interval
<1>3. ASSUME NEW t \in SUBSET all, t # {} PROVE Max(t) \in t /\ \A i \in t : i <= Max(t)
  BY <1>2, <1>3, GreatestPosition
<1>4. won = Step(won)
  <2>1. ASSUME NEW t \in SUBSET all PROVE won[t] = Step(won)[t]
    <3>1. CASE t = {}
      BY <3>1 DEF Won, Rich
    <3>2. CASE t # {}
      <4>1. Won(kept, s, t) = WinningLine(Won(kept, s, t \ {Max(t)}), s[Max(t)])
        BY <1>3, <3>2, WonStep
      <4>2. t \ {Max(t)} \in SUBSET all
        OBVIOUS
      <4>3. QED
        BY <3>2, <4>1, <4>2
    <3>3. QED
      BY <3>1, <3>2
  <2>2. QED
    BY <2>1
<1>5. iter = Step(iter)
  BY <1>4
<1>6. \A t \in SUBSET all : iter[t] = won[t]
  <2> DEFINE bad == {t \in SUBSET all : iter[t] # won[t]}
  <2> SUFFICES ASSUME bad # {} PROVE FALSE
    OBVIOUS
  <2> HIDE DEF iter, won
  <2>1. IsWellFoundedOn(StrictSubsetOrdering(all), FiniteSubsetsOf(all))
    BY <1>2, FS_StrictSubsetOrderingWellFounded
  <2>2. bad \subseteq FiniteSubsetsOf(all)
    BY <1>2, FS_Subset DEF FiniteSubsetsOf
  <2>3. PICK t \in bad : \A u \in bad : ~ (<<u, t>> \in StrictSubsetOrdering(all))
    <3> HIDE DEF bad, all
    <3>1. QED
      BY <2>1, <2>2, WFMin
  <2>4. t \in SUBSET all /\ iter[t] # won[t]
    OBVIOUS
  <2>5. iter[t] = Step(iter)[t] /\ won[t] = Step(won)[t]
    BY <1>4, <1>5
  <2>6. CASE t = {}
    BY <2>4, <2>5, <2>6
  <2>7. CASE t # {}
    <3>1. Max(t) \in t
      BY <1>3, <2>4, <2>7
    <3> DEFINE u == t \ {Max(t)}
    <3> HIDE DEF all
    <3>2. <<u, t>> \in StrictSubsetOrdering(all)
      BY <2>4, <3>1 DEF StrictSubsetOrdering
    <3>3. iter[u] = won[u]
      BY <2>3, <2>4, <3>2
    <3>4. QED
      BY <2>4, <2>5, <2>7, <3>3
  <2>8. QED
    BY <2>6, <2>7
<1>7. QED
  BY <1>1, <1>6

\* What is known of no line, and of all that were read and all that follow.
LEMMA KnownWon ==
  ASSUME NEW lines \in Seq(Records)
  PROVE  Known(lines) = Won(NoRecord, lines, DOMAIN lines)
<1>1. lines = << >> <=> DOMAIN lines = {}
  OBVIOUS
<1>2. QED
  BY <1>1 DEF Known, Won, Rich

LEMMA KnownNothing == Known(<< >>) = NoRecord
  BY DEF Known

\* What was known of the first lines, and the lines after them, make what is
\* known of them all: reading in pieces is reading at once.
LEMMA KnownInPieces ==
  ASSUME NEW lines \in Seq(Records), NEW n \in 0 .. Len(lines)
  PROVE  FoldLeft(WinningLine, Known(SubSeq(lines, 1, n)), SubSeq(lines, n + 1, Len(lines)))
           = Known(lines)
<1> DEFINE size == Len(lines)
           a == SubSeq(lines, 1, n)
           b == SubSeq(lines, n + 1, size)
<1>1. size \in Nat /\ n \in Nat /\ n <= size /\ DOMAIN lines = 1 .. size
  OBVIOUS
<1>2. /\ a \in Seq(Records) /\ Len(a) = n /\ DOMAIN a = 1 .. n
      /\ \A i \in 1 .. n : a[i] = lines[i]
  <2>1. \A i \in 1 .. n : lines[i] \in Records
    BY <1>1
  <2>2. QED
    BY <1>1, <2>1
<1>3. /\ b \in Seq(Records) /\ Len(b) = size - n /\ DOMAIN b = 1 .. size - n
      /\ \A i \in 1 .. size - n : b[i] = lines[n + i]
  <2>1. \A i \in n + 1 .. size : lines[i] \in Records
    BY <1>1
  <2>2. n + 1 \in Int /\ size \in Int /\ size - (n + 1) + 1 = size - n
    BY <1>1
  <2> HIDE DEF size
  <2>3. /\ b \in Seq(Records)
        /\ Len(b) = IF n + 1 <= size THEN size - (n + 1) + 1 ELSE 0
        /\ \A i \in 1 .. size - n : b[i] = lines[n + 1 + i - 1]
    BY <2>1, <2>2, SubSeqProperties
  <2> HIDE DEF b
  <2>4. Len(b) = size - n
    BY <1>1, <2>2, <2>3
  <2>5. \A i \in 1 .. size - n : n + 1 + i - 1 = n + i
    BY <1>1
  <2>6. QED
    BY <2>3, <2>4, <2>5
<1>4. \A i \in 1 .. size : lines[i] # NoRecord
  BY <1>1, ProvenanceAssumption
<1> HIDE DEF a, b, size
<1>5. FoldLeft(WinningLine, Known(a), b) = Won(Known(a), b, DOMAIN b)
  BY <1>3, FoldWins
<1>6. Known(a) = Won(NoRecord, a, 1 .. n) /\ Known(lines) = Won(NoRecord, lines, 1 .. size)
  BY <1>1, <1>2, KnownWon
<1> DEFINE all == Rich(lines, 1 .. size)
           first == Rich(a, 1 .. n)
           later == Rich(b, 1 .. size - n)
<1>7. /\ all \in SUBSET Nat /\ first \in SUBSET Nat /\ later \in SUBSET Nat
      /\ \A i \in Nat : i \in first <=> i \in all /\ i <= n
      /\ \A i \in Nat : i \in later <=> i > 0 /\ n + i \in all
      /\ \A i \in all : i \in Nat /\ i > 0 /\ i <= size
  BY <1>1, <1>2, <1>3 DEF Rich
<1>8. CASE first # {}
  <2> DEFINE m == Min(first)
  <2>1. m \in first /\ \A i \in first : m <= i
    BY <1>7, <1>8, LeastNumber
  <2> HIDE DEF m, all, first
  <2>2. m \in Nat /\ m \in all /\ m <= n
    BY <1>7, <2>1
  <2>3. \A i \in all : m <= i
    BY <1>1, <1>7, <2>1, <2>2
  <2>4. Min(all) = m
    BY <1>7, <2>2, <2>3, LeastIs
  <2>5. m \in 1 .. size /\ m \in 1 .. n /\ lines[m] # Bare
    BY <1>7, <1>1, <2>2 DEF all, Rich
  <2>6. Known(a) = a[m] /\ Known(lines) = lines[m]
    BY <1>6, <1>8, <2>2, <2>4 DEF Won, m, all, first
  <2>7. Known(a) = lines[m] /\ Known(a) \notin {NoRecord, Bare}
    BY <1>2, <1>4, <2>5, <2>6
  <2>8. QED
    BY <1>5, <2>6, <2>7 DEF Won, a, b, size
<1>9. CASE first = {}
  <2>1. Known(a) = IF n = 0 THEN NoRecord ELSE Bare
    <3>1. 1 .. n = {} <=> n = 0
      BY <1>1
    <3>2. QED
      BY <1>6, <1>9, <3>1 DEF Won
  <2>2. Known(a) \in {NoRecord, Bare}
    BY <2>1
  <2>3. CASE later # {}
    <3> DEFINE k == Min(later)
    <3>1. k \in later /\ \A i \in later : k <= i
      BY <1>7, <2>3, LeastNumber
    <3> HIDE DEF k, all, first, later
    <3>2. k \in Nat /\ k > 0 /\ n + k \in all
      BY <1>7, <3>1
    <3>3. \A i \in all : n + k <= i
      <4> SUFFICES ASSUME NEW i \in all PROVE n + k <= i
        OBVIOUS
      <4>1. i \in Nat /\ ~ (i <= n)
        BY <1>7, <1>9
      <4>2. i - n \in Nat /\ i - n > 0 /\ n + (i - n) = i
        BY <1>1, <4>1
      <4>3. i - n \in later
        BY <1>7, <4>2
      <4>4. k <= i - n
        BY <3>1, <4>3
      <4>5. QED
        BY <1>1, <3>2, <4>1, <4>4
    <3>4. n + k \in Nat /\ Min(all) = n + k
      BY <1>1, <1>7, <3>2, <3>3, LeastIs
    <3>5. k \in 1 .. size - n /\ b[k] = lines[n + k]
      <4>1. n + k <= size
        BY <1>7, <3>2
      <4>2. QED
        BY <1>1, <1>3, <3>2, <4>1
    <3>6. Known(lines) = lines[n + k]
      BY <1>6, <3>2, <3>4 DEF Won, all
    <3>7. Won(Known(a), b, DOMAIN b) = b[k]
      BY <1>3, <2>2, <2>3 DEF Won, k, later
    <3>8. QED
      BY <1>5, <3>5, <3>6, <3>7 DEF a, b, size
  <2>4. CASE later = {}
    <3>1. all = {}
      <4> SUFFICES ASSUME NEW i \in all PROVE FALSE
        OBVIOUS
      <4> HIDE DEF all, first, later
      <4>1. i \in Nat /\ ~ (i <= n)
        BY <1>7, <1>9
      <4>2. i - n \in Nat /\ i - n > 0 /\ n + (i - n) = i
        BY <1>1, <4>1
      <4>3. QED
        BY <1>7, <2>4, <4>2
    <3>2. Known(lines) = IF size = 0 THEN NoRecord ELSE Bare
      <4>1. 1 .. size = {} <=> size = 0
        BY <1>1
      <4>2. QED
        BY <1>6, <3>1, <4>1 DEF Won
    <3>3. Won(Known(a), b, DOMAIN b) = IF size - n = 0 THEN Known(a) ELSE Bare
      <4>1. 1 .. size - n = {} <=> size - n = 0
        BY <1>1
      <4>2. QED
        BY <1>3, <2>2, <2>4, <4>1 DEF Won
    <3>4. QED
      BY <1>1, <1>5, <2>1, <3>2, <3>3 DEF a, b, size
  <2>5. QED
    BY <2>3, <2>4
<1>10. QED
  BY <1>8, <1>9

\* The offset stands after a whole line, what is kept is what the lines before it
\* say, and a log that replaced another is never taken for it.
LogInv ==
  /\ log \in Log /\ origin \in Nat /\ origin <= log.serial
  /\ offset \in {2 * n : n \in Nat}
  /\ offset = 0 => events = NoRecord
  /\ origin = log.serial =>
       /\ offset <= 2 * Len(log.lines)
       /\ events = Known(SubSeq(log.lines, 1, offset \div 2))

LEMMA Halves == \A n \in Nat : (2 * n) \div 2 = n
  OBVIOUS

\* Reading from after a whole line leaves the offset after the last.
LEMMA ReadsWhole ==
  ASSUME NEW l \in Log, NEW n \in 0 .. Len(l.lines)
  PROVE  /\ Merged(Known(SubSeq(l.lines, 1, n)), l, 2 * n) = Known(l.lines)
         /\ Consumed(l, 2 * n) = 2 * Len(l.lines)
<1>1. l.lines \in Seq(Records) /\ Len(l.lines) \in Nat /\ n \in Nat /\ n <= Len(l.lines)
  BY DEF Log
<1>2. (2 * n) \div 2 = n
  BY <1>1, Halves
<1>3. Merged(Known(SubSeq(l.lines, 1, n)), l, 2 * n) = Known(l.lines)
  BY <1>1, <1>2, KnownInPieces DEF Merged
<1>4. QED
  BY <1>1, <1>3 DEF Consumed

\* A producer's write appends to its log or puts another in its place.
LEMMA WrittenGrows ==
  ASSUME NEW l \in Log, NEW w \in {l} \cup Written(l)
  PROVE  /\ w \in Log
         /\ \/ /\ w.serial = l.serial
               /\ Len(l.lines) <= Len(w.lines)
               /\ \A n \in 0 .. Len(l.lines) : SubSeq(w.lines, 1, n) = SubSeq(l.lines, 1, n)
            \/ w.serial = l.serial + 1
<1>1. w \in Log
  BY WrittenTyped
<1>2. l.lines \in Seq(Records) /\ Len(l.lines) \in Nat
  BY DEF Log
<1>3. CASE w = l
  BY <1>1, <1>2, <1>3
<1>4. ASSUME w = [l EXCEPT !.torn = TRUE, !.present = TRUE]
      PROVE  w.serial = l.serial /\ w.lines = l.lines
  BY <1>4 DEF Log
<1>5. ASSUME NEW r \in Records, w = [l EXCEPT !.lines = Append(l.lines, r), !.torn = FALSE]
      PROVE  /\ w.serial = l.serial
             /\ Len(l.lines) <= Len(w.lines)
             /\ \A n \in 0 .. Len(l.lines) : SubSeq(w.lines, 1, n) = SubSeq(l.lines, 1, n)
  <2>2. w.serial = l.serial /\ w.lines = Append(l.lines, r)
    BY <1>5 DEF Log
  <2>3. ASSUME NEW n \in 0 .. Len(l.lines)
        PROVE  SubSeq(Append(l.lines, r), 1, n) = SubSeq(l.lines, 1, n)
    <3> DEFINE longer == Append(l.lines, r)
               a == SubSeq(longer, 1, n)
               b == SubSeq(l.lines, 1, n)
    <3>1. \A i \in 1 .. n : l.lines[i] \in Records /\ longer[i] = l.lines[i]
      BY <1>2
    <3>2. 1 \in Int /\ n \in Int /\ n - 1 + 1 = n /\ n >= 0
      BY <1>2
    <3> HIDE DEF longer
    <3>3. /\ a \in Seq(Records) /\ b \in Seq(Records)
          /\ Len(a) = Len(b) /\ Len(b) \in {n, 0}
          /\ \A i \in 1 .. n : a[i] = longer[1 + i - 1] /\ b[i] = l.lines[1 + i - 1]
      <4>1. \A i \in 1 .. n : longer[i] \in Records
        BY <3>1
      <4>2. /\ a \in Seq(Records)
            /\ Len(a) = IF 1 <= n THEN n - 1 + 1 ELSE 0
            /\ \A i \in 1 .. n - 1 + 1 : a[i] = longer[1 + i - 1]
        BY <3>2, <4>1, SubSeqProperties
      <4>3. /\ b \in Seq(Records)
            /\ Len(b) = IF 1 <= n THEN n - 1 + 1 ELSE 0
            /\ \A i \in 1 .. n - 1 + 1 : b[i] = l.lines[1 + i - 1]
        BY <3>1, <3>2, SubSeqProperties
      <4> HIDE DEF a, b
      <4>4. QED
        BY <3>2, <4>2, <4>3
    <3> HIDE DEF a, b
    <3>4. \A i \in 1 .. Len(a) : a[i] = b[i]
      <4>1. \A i \in 1 .. Len(a) : i \in 1 .. n /\ 1 + i - 1 = i
        BY <3>2, <3>3
      <4>2. QED
        BY <3>1, <3>3, <4>1
    <3>5. a = b
      BY <3>3, <3>4, SeqEqual
    <3>6. QED
      BY <3>5 DEF a, b, longer
  <2>4. QED
    BY <1>2, <2>2, <2>3
<1>6. ASSUME NEW p \in BOOLEAN, w = [Absent EXCEPT !.present = p, !.serial = l.serial + 1]
      PROVE  w.serial = l.serial + 1
  BY <1>6 DEF Absent
<1>7. CASE w.serial = l.serial /\ w.lines = l.lines
  BY <1>1, <1>2, <1>7
<1>8. \/ w = l
      \/ w = [l EXCEPT !.torn = TRUE, !.present = TRUE]
      \/ \E r \in Records : w = [l EXCEPT !.lines = Append(l.lines, r), !.torn = FALSE]
      \/ \E p \in BOOLEAN : w = [Absent EXCEPT !.present = p, !.serial = l.serial + 1]
  BY DEF Written
<1>9. QED
  BY <1>1, <1>3, <1>4, <1>5, <1>6, <1>7, <1>8

LEMMA InitLog == Init => LogInv
<1> SUFFICES ASSUME Init PROVE LogInv
  OBVIOUS
<1>1. Absent \in Log /\ Absent.lines = << >> /\ Absent.serial = 0
  <2>1. << >> \in Seq(Records)
    OBVIOUS
  <2>2. QED
    BY <2>1 DEF Absent, Log
<1>2. SubSeq(<< >>, 1, 0) = << >> /\ 0 \div 2 = 0 /\ 0 \in {2 * n : n \in Nat}
  OBVIOUS
<1>3. log.lines = << >> /\ log.serial = 0 /\ offset = 0 /\ origin = 0 /\ events = NoRecord
  BY <1>1 DEF Init
<1>4. log \in Log
  BY <1>1 DEF Init
<1>5. Len(log.lines) = 0 /\ SubSeq(log.lines, 1, offset \div 2) = << >>
  BY <1>2, <1>3
<1>6. events = Known(SubSeq(log.lines, 1, offset \div 2))
  BY <1>3, <1>5, KnownNothing
<1>7. origin <= log.serial /\ offset <= 2 * Len(log.lines) /\ offset \in {2 * n : n \in Nat}
  BY <1>2, <1>3, <1>5
<1>8. QED
  BY <1>3, <1>4, <1>6, <1>7 DEF LogInv

\* What a read keeps of the log it found.
LEMMA ReadKeepsLog ==
  ASSUME LogInv, ReadEvents
  PROVE  LogInv'
<1> DEFINE shrank == Size(log) < offset
           base == IF shrank THEN 0 ELSE offset
           kept == IF shrank THEN NoRecord ELSE events
<1>1. /\ log' \in {log} \cup Written(log)
      /\ events' = Merged(kept, log', base)
      /\ offset' = Consumed(log', base)
      /\ origin' = IF base = 0 THEN log'.serial ELSE origin
  BY DEF ReadEvents
<1>2. /\ log \in Log /\ origin \in Nat /\ log.serial \in Nat /\ origin <= log.serial
      /\ offset \in Nat /\ Len(log.lines) \in Nat
  BY DEF LogInv, Log
<1>3. /\ log' \in Log /\ log'.serial \in Nat
      /\ log'.lines \in Seq(Records) /\ Len(log'.lines) \in Nat
      /\ \/ /\ log'.serial = log.serial
            /\ Len(log.lines) <= Len(log'.lines)
            /\ \A n \in 0 .. Len(log.lines) :
                 SubSeq(log'.lines, 1, n) = SubSeq(log.lines, 1, n)
         \/ log'.serial = log.serial + 1
  <2>1. log' \in Log
    BY <1>1, <1>2, WrittenGrows
  <2>2. QED
    BY <1>1, <1>2, <2>1, WrittenGrows DEF Log
<1>4. ASSUME NEW n \in 0 .. Len(log'.lines), base = 2 * n,
             kept = Known(SubSeq(log'.lines, 1, n)), base = 0 \/ origin' = origin
      PROVE  LogInv'
  <2>1. events' = Known(log'.lines) /\ offset' = 2 * Len(log'.lines)
    BY <1>1, <1>3, <1>4, ReadsWhole
  <2>2. offset' \div 2 = Len(log'.lines)
    BY <1>3, <2>1, Halves
  <2>3. SubSeq(log'.lines, 1, Len(log'.lines)) = log'.lines
    BY <1>3, SubSeqFull
  <2>4. offset' = 0 => log'.lines = << >>
    BY <1>3, <2>1
  <2>5. origin' \in Nat /\ origin' <= log'.serial
    BY <1>1, <1>2, <1>3
  <2>6. offset' \in {2 * k : k \in Nat} /\ offset' <= 2 * Len(log'.lines)
    BY <1>3, <2>1
  <2>7. events' = Known(SubSeq(log'.lines, 1, offset' \div 2))
    BY <2>1, <2>2, <2>3
  <2>8. offset' = 0 => events' = NoRecord
    BY <2>1, <2>4, KnownNothing
  <2>9. QED
    BY <1>3, <2>5, <2>6, <2>7, <2>8 DEF LogInv
<1>5. CASE base = 0
  <2>1. kept = NoRecord
    BY <1>5 DEF LogInv
  <2>2. SubSeq(log'.lines, 1, 0) = << >>
    BY <1>3
  <2>3. 0 \in 0 .. Len(log'.lines) /\ base = 2 * 0
    BY <1>3, <1>5
  <2>4. QED
    BY <1>4, <1>5, <2>1, <2>2, <2>3, KnownNothing
<1>6. CASE base # 0 /\ origin = log'.serial
  <2>1. base = offset /\ kept = events /\ origin' = origin /\ origin = log.serial
    BY <1>1, <1>2, <1>3, <1>6
  <2>2. PICK n \in Nat : offset = 2 * n
    BY DEF LogInv
  <2>3. offset \div 2 = n /\ n <= Len(log.lines)
    BY <1>2, <2>1, <2>2, Halves, SMTT(30) DEF LogInv
  <2>4. log'.serial = log.serial
    BY <1>6, <2>1
  <2>5. n \in 0 .. Len(log'.lines) /\ SubSeq(log'.lines, 1, n) = SubSeq(log.lines, 1, n)
    BY <1>2, <1>3, <2>2, <2>3, <2>4
  <2>6. kept = Known(SubSeq(log'.lines, 1, n))
    BY <2>1, <2>3, <2>5 DEF LogInv
  <2>7. QED
    BY <1>4, <2>1, <2>2, <2>5, <2>6
<1>7. CASE base # 0 /\ origin # log'.serial
  <2>1. base = offset /\ origin' = origin
    BY <1>1, <1>7
  <2>2. origin <= log'.serial
    BY <1>2, <1>3
  <2>3. offset' \in {2 * n : n \in Nat} /\ offset' # 0
    <3>1. offset' \in {offset, 2 * Len(log'.lines)} /\ offset' >= offset
      BY <1>1, <1>2, <1>3, <2>1 DEF Consumed
    <3>2. QED
      BY <1>2, <1>3, <1>7, <2>1, <3>1 DEF LogInv
  <2>4. QED
    BY <1>2, <1>3, <1>7, <2>1, <2>2, <2>3 DEF LogInv
<1>8. QED
  BY <1>5, <1>6, <1>7

LEMMA WriteKeepsLog ==
  ASSUME LogInv, Write
  PROVE  LogInv'
<1>1. log' \in {log} \cup Written(log) /\ UNCHANGED <<offset, events, origin>>
  BY DEF Write
<1>2. log \in Log /\ log.serial \in Nat /\ origin \in Nat /\ Len(log.lines) \in Nat
  BY DEF LogInv, Log
<1>3. /\ log' \in Log
      /\ \/ /\ log'.serial = log.serial
            /\ Len(log.lines) <= Len(log'.lines)
            /\ \A n \in 0 .. Len(log.lines) :
                 SubSeq(log'.lines, 1, n) = SubSeq(log.lines, 1, n)
         \/ log'.serial = log.serial + 1
  BY <1>1, <1>2, WrittenGrows
<1>4. log'.serial \in Nat /\ Len(log'.lines) \in Nat
  BY <1>3 DEF Log
<1>5. origin <= log'.serial
  BY <1>2, <1>3 DEF LogInv
<1>6. ASSUME origin = log'.serial
      PROVE  /\ offset <= 2 * Len(log'.lines)
             /\ events = Known(SubSeq(log'.lines, 1, offset \div 2))
  <2>1. log'.serial = log.serial /\ origin = log.serial
    BY <1>2, <1>3, <1>6 DEF LogInv
  <2>2. PICK n \in Nat : offset = 2 * n
    BY DEF LogInv
  <2>3. offset \div 2 = n /\ n <= Len(log.lines)
    BY <1>2, <2>1, <2>2, Halves, SMTT(30) DEF LogInv
  <2>4. n \in 0 .. Len(log.lines)
    BY <1>2, <2>2, <2>3
  <2>5. SubSeq(log'.lines, 1, n) = SubSeq(log.lines, 1, n) /\ Len(log.lines) <= Len(log'.lines)
    BY <1>2, <1>3, <2>1, <2>4
  <2>6. offset <= 2 * Len(log'.lines)
    BY <1>2, <1>4, <2>2, <2>3, <2>5
  <2>7. events = Known(SubSeq(log.lines, 1, n))
    BY <2>1, <2>3 DEF LogInv
  <2>8. QED
    BY <2>3, <2>5, <2>6, <2>7
<1>7. QED
  BY <1>1, <1>2, <1>3, <1>5, <1>6 DEF LogInv

LEMMA NextKeepsLog == LogInv /\ [Next]_vars => LogInv'
<1> SUFFICES ASSUME LogInv, [Next]_vars PROVE LogInv'
  OBVIOUS
<1>1. CASE UNCHANGED logVars
  BY <1>1 DEF LogInv, logVars
<1>2. CASE Write \/ ReadEvents
  BY <1>2, WriteKeepsLog, ReadKeepsLog
<1>3. CASE UNCHANGED vars
  BY <1>1, <1>3 DEF vars
<1>4. CASE ChangeHost \/ Tick
  BY <1>1, <1>4 DEF ChangeHost, Tick
<1>5. CASE \/ \E b \in Background : ServeStale(b)
           \/ \E c \in Callers : ColdStart(c) \/ Abandon(c)
           \/ \E r \in Runners : Refresh(r)
  BY <1>1, <1>5
  DEF ServeStale, ColdStart, Abandon, Refresh, ReadNames, SkipName, NamesRead, List, ListFails, Publish, FinishRefresh
<1>6. QED
  BY <1>2, <1>3, <1>4, <1>5 DEF Next

\* However a log is read - in pieces, past a line still being written, while its
\* producer writes or replaces it - what is kept of it is what its consumed lines
\* say, the first that carries provenance winning (readEvents, mergeEvents).
THEOREM EventsAlwaysExact == Spec => []EventsExact
<1>1. LogInv => EventsExact
  <2> SUFFICES ASSUME LogInv, origin = log.serial
               PROVE  /\ offset \in {2 * n : n \in 0 .. Len(log.lines)}
                      /\ events = Known(SubSeq(log.lines, 1, offset \div 2))
    BY DEF EventsExact
  <2>1. PICK n \in Nat : offset = 2 * n
    BY DEF LogInv
  <2>2. Len(log.lines) \in Nat /\ offset <= 2 * Len(log.lines)
    BY DEF LogInv, Log
  <2>3. n \in 0 .. Len(log.lines)
    BY <2>1, <2>2
  <2>4. QED
    BY <2>1, <2>3 DEF LogInv
<1>2. QED
  BY <1>1, InitLog, NextKeepsLog, PTL DEF Spec
=============================================================================

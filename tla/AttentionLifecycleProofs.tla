---------------------- MODULE AttentionLifecycleProofs ----------------------
(***************************************************************************)
(* What a step may do to one row of the store, for every value of the       *)
(* constants: the first answer stands, the first escalation sticks, a sweep *)
(* closes only what is due, and the store implements AskLifecycle.          *)
(*                                                                         *)
(* StepMoves says of every action which of a few moves each row makes; the  *)
(* theorems read off it.  It needs three facts about reachable states,      *)
(* RowsInv: a row's id has been issued, an open row has no verdict, and a   *)
(* sweep between its two steps has the live index and a bound of the past.  *)
(***************************************************************************)
EXTENDS AttentionStoreProofs

RowsIssued == \A i \in Ids : items[i] # NoItem => i \in issued

OpenUndecided == \A i \in Ids : IsOpen(items[i]) => items[i].decision = None

SweepReady == sweeping => "live" \in built /\ cutoff <= now - MaxAge

RowsInv == RowsIssued /\ OpenUndecided /\ SweepReady

SameAnswer(x, y) ==
  /\ y.answeredBy = x.answeredBy
  /\ y.resolvedBy = x.resolvedBy
  /\ y.answeredAt = x.answeredAt
  /\ y.decision = x.decision

SameEscalation(x, y) ==
  y.escalatedBy = x.escalatedBy /\ y.escalatedAt = x.escalatedAt

\* A refresh, a flag or a rating; an answer; an escalation; a close.
Rewritten(x, y) ==
  \/ y.state = x.state /\ SameAnswer(x, y) /\ SameEscalation(x, y)
  \/ /\ x.state = "open" \/ (x.state = "answered" /\ x.mechanism = "permission")
     /\ y.state = "answered"
     /\ SameEscalation(x, y)
     /\ x.decision = None \/ y.decision = x.decision
  \/ x.escalatedBy = None /\ y.state = x.state /\ SameAnswer(x, y)
  \/ /\ x.state # "closed" /\ y.state = "closed"
     /\ SameEscalation(x, y)
     /\ y.decision = x.decision
     /\ x.state = "answered" => SameAnswer(x, y)

\* What a step may do to the row of an id.
Move(i) ==
  \/ items'[i] = items[i] /\ (i \in issued' => i \in issued)
  \/ /\ i \in issued' \ issued
     /\ IsOpen(items'[i]) /\ items'[i].decision = None
  \/ IsOpen(items[i]) /\ items'[i] = NoItem
  \/ items[i] # NoItem /\ items'[i] # NoItem /\ Rewritten(items[i], items'[i])

Moves == issued \subseteq issued' /\ \A i \in Ids : Move(i)

-----------------------------------------------------------------------------
(* What each action does to the rows. *)

\* An item is not the sentinel, so a row that holds one is stored.
LEMMA ItemIsStored == \A x \in Item : x # NoItem
PROOF
  BY StoreAssumption DEF StoreAssumption

\* A write through putItem changes one row.
LEMMA PutItemMoves ==
  ASSUME NEW item \in Item, PutItem(item), UNCHANGED issued,
         items[item.id] # NoItem, Rewritten(items[item.id], item)
  PROVE  Moves
PROOF
  <1>1. \A i \in Ids : items'[i] = IF i = item.id THEN item ELSE items[i]
    BY DEF PutItem, PutItems
  <1> QED
    BY <1>1, ItemIsStored DEF Moves, Move

\* A push refreshes the open row it collapses onto, or adds one under an id
\* that was never issued.
LEMMA PushMoves ==
  ASSUME IInv, NEW q \in Requests, Push(q)
  PROVE  Moves
PROOF
  <1> USE StoreAssumption DEF IInv
  <1>q. q \in PushRequest
    BY DEF StoreAssumption
  <1>1. PICK entries \in EnsuredDedup :
          \/ entries[q.key] # NoItem /\ UpdateExisting(entries[q.key], q, entries)
          \/ AddNew(q, entries)
    BY DEF Push
  <1>2. SoundEntries(entries)
    BY EnsuredDedupSound
  <1> DEFINE existing == entries[q.key]
  <1>3. CASE existing # NoItem /\ UpdateExisting(existing, q, entries)
    <2> DEFINE row == [existing EXCEPT !.payload = q.payload, !.options = q.options,
                                       !.expiresAt = q.expiresAt, !.createdAt = now]
    <2>1. existing \in Item /\ items[existing.id] = existing
      BY <1>q, <1>2, <1>3, SlotIsItem DEF SoundEntries, PushRequest
    <2>2. row \in Item
      BY <1>q, <2>1 DEF Item, PushRequest, CallInv
    <2>3. Rewritten(existing, row)
      BY <2>1 DEF Rewritten, SameAnswer, SameEscalation, Item
    <2>4. UNCHANGED issued /\ \A i \in Ids : items'[i] = IF i = existing.id THEN row ELSE items[i]
      BY <1>3 DEF UpdateExisting, PutItems
    <2> HIDE DEF row, existing
    <2> QED
      BY <2>1, <2>2, <2>3, <2>4, ItemIsStored DEF Moves, Move
  <1>4. CASE AddNew(q, entries)
    <2>1. PICK i \in Ids \ issued :
            /\ issued' = issued \cup {i}
            /\ PutItems({i}, [ j \in {i} |-> NewItem(i, q, now) ],
                        entries, built \cup {"dedup"})
      BY <1>4 DEF AddNew
    <2>2. \A j \in Ids : items'[j] = IF j = i THEN NewItem(i, q, now) ELSE items[j]
      BY <2>1 DEF PutItems
    <2>3. IsOpen(NewItem(i, q, now)) /\ NewItem(i, q, now).decision = None
      <3>1. NewItem(i, q, now) \in Item /\ NewItem(i, q, now).state = "open"
        BY NewItemTyped DEF CallInv
      <3> QED
        BY <3>1, ItemIsStored DEF IsOpen, NewItem
    <2> QED
      BY <2>1, <2>2, <2>3 DEF Moves, Move
  <1> QED
    BY <1>1, <1>3, <1>4

\* An answer, an escalation, a flag, a rating, a close.
LEMMA ItemOperationMoves ==
  ASSUME IInv, OpenUndecided, ItemOperation
  PROVE  Moves
PROOF
  <1> USE StoreAssumption DEF IInv
  <1>i. PICK i \in Ids :
          \/ \E by \in Arms \cup {None}, resolver \in Resolvers \cup {None},
                decision \in Decisions \cup {None} : Answer(i, by, resolver, decision)
          \/ \E manager \in Resolvers : Escalate(i, manager)
          \/ \E reason \in Reasons : Flag(i, reason)
          \/ Unflag(i)
          \/ \E rating \in Ratings \cup {None} : Rate(i, rating)
          \/ \E by \in Arms \cup {None} : Close(i, by)
          \/ \E outcome \in Outcomes : RecordAttempt(i, outcome)
    BY DEF ItemOperation
  <1>t. items[i] # NoItem => items[i] \in Item /\ items[i].id = i
    BY SlotIsItem DEF StoreInv, StoreTyped, RowsKeyed
  <1>n. now \in Stamps
    BY DEF CallInv, Stamps
  <1>p. ASSUME NEW row, items[i] # NoItem, row.id = i, PutItem(row), UNCHANGED issued,
               row # NoItem, Rewritten(items[i], row)
        PROVE  Moves
    <2>1. \A j \in Ids : items'[j] = IF j = i THEN row ELSE items[j]
      BY <1>p DEF PutItem, PutItems
    <2> QED
      BY <1>p, <2>1 DEF Moves, Move
  <1>1. ASSUME NEW by \in Arms \cup {None}, NEW resolver \in Resolvers \cup {None},
               NEW decision \in Decisions \cup {None}, Answer(i, by, resolver, decision)
        PROVE  Moves
    <2> DEFINE verdict == KeptDecision(i, decision)
               row == [items[i] EXCEPT
                         !.state = "answered", !.answeredAt = now, !.answeredBy = by,
                         !.resolvedBy = resolver, !.decision = verdict]
    <2>1. items[i] # NoItem /\ items[i] \in Item /\ items[i].id = i
      BY <1>1, <1>t DEF Answer, MayAnswer, IsOpen, IsAnswered
    <2>2. verdict \in Decisions \cup {None}
          /\ (items[i].decision = None \/ verdict = items[i].decision)
      BY <2>1 DEF KeptDecision, Item
    <2> HIDE DEF verdict
    <2>3. row \in Item
      BY <1>n, <2>1, <2>2, AnsweredRowTyped
    <2>4. row.id = i
      BY <2>1 DEF Item
    <2>5. items[i].state = "open" \/ (items[i].state = "answered" /\ items[i].mechanism = "permission")
      BY <1>1 DEF Answer, MayAnswer, IsOpen, IsAnswered
    <2>6. Rewritten(items[i], row)
      BY <2>1, <2>2, <2>5 DEF Rewritten, SameEscalation, Item
    <2>7. PutItem(row) /\ UNCHANGED issued
      BY <1>1 DEF Answer, verdict
    <2> QED
      BY <1>p, <2>1, <2>3, <2>4, <2>6, <2>7, ItemIsStored
  <1>2. ASSUME NEW manager \in Resolvers, Escalate(i, manager)
        PROVE  Moves
    <2> DEFINE row == [items[i] EXCEPT !.escalatedBy = manager, !.escalatedAt = now]
    <2>1. items[i] # NoItem /\ items[i] \in Item /\ items[i].id = i /\ items[i].escalatedBy = None
      BY <1>2, <1>t DEF Escalate, MayEscalate, IsOpen
    <2>2. row \in Item
      BY <1>n, <2>1, EscalatedRowTyped
    <2>3. row.id = i /\ Rewritten(items[i], row)
      BY <2>1 DEF Rewritten, SameAnswer, Item
    <2> QED
      BY <1>2, <1>p, <2>1, <2>2, <2>3, ItemIsStored DEF Escalate
  <1>3. ASSUME NEW reason \in Reasons \cup {None}, items[i] # NoItem,
               PutItem([items[i] EXCEPT !.flagReason = reason]), UNCHANGED issued
        PROVE  Moves
    <2> DEFINE row == [items[i] EXCEPT !.flagReason = reason]
    <2>1. row \in Item /\ row.id = i /\ Rewritten(items[i], row)
      BY <1>3, <1>t DEF Rewritten, SameAnswer, SameEscalation, Item
    <2> QED
      BY <1>3, <1>p, <2>1, ItemIsStored
  <1>4. ASSUME NEW rating \in Ratings \cup {None}, Rate(i, rating)
        PROVE  Moves
    <2> DEFINE row == [items[i] EXCEPT !.rating = rating]
    <2>1. row \in Item /\ row.id = i /\ Rewritten(items[i], row)
      BY <1>4, <1>t DEF Rate, Rewritten, SameAnswer, SameEscalation, Item
    <2> QED
      BY <1>4, <1>p, <2>1, ItemIsStored DEF Rate
  <1>5. ASSUME NEW by \in Arms \cup {None}, Close(i, by)
        PROVE  Moves
    <2> DEFINE closer == IF IsOpen(items[i]) THEN by ELSE items[i].answeredBy
               row == [items[i] EXCEPT !.state = "closed", !.answeredBy = closer]
    <2>1. items[i] # NoItem /\ items[i] \in Item /\ items[i].id = i
          /\ items[i].state # "closed"
      BY <1>5, <1>t DEF Close, AvailableTransitions
    <2>2. closer \in Arms \cup {None}
          /\ (items[i].state = "answered" => closer = items[i].answeredBy)
      BY <2>1 DEF Item, IsOpen
    <2> HIDE DEF closer
    <2>3. row \in Item /\ row.id = i
      BY <2>1, <2>2 DEF Item, States
    <2>4. Rewritten(items[i], row)
      BY <2>1, <2>2 DEF Rewritten, SameAnswer, SameEscalation, Item
    <2>5. PutItem(row) /\ UNCHANGED issued
      BY <1>5 DEF Close, closer
    <2> QED
      BY <1>p, <2>1, <2>3, <2>4, <2>5, ItemIsStored
  <1>6. ASSUME NEW outcome \in Outcomes, RecordAttempt(i, outcome)
        PROVE  Moves
    BY <1>6 DEF RecordAttempt, Moves, Move
  <1> QED
    BY <1>i, <1>1, <1>2, <1>3, <1>4, <1>5, <1>6 DEF Flag, Unflag, IsOpen

\* A sweep closes rows that were open or answered.
LEMMA SweepMoves ==
  ASSUME IInv, SweepCommit
  PROVE  Moves /\ \A i \in Ids : items'[i] # items[i] =>
                    i \in DueAnswered \cup RedundantReraises(DueAnswered)
PROOF
  <1> USE DEF IInv
  <1> DEFINE S == DueAnswered \cup RedundantReraises(DueAnswered)
  <1>1. CASE S = {}
    BY <1>1 DEF SweepCommit, CloseSwept, bucketVars, Moves, Move
  <1>2. CASE S # {}
    <2>1. UNCHANGED issued /\ \A i \in Ids :
            items'[i] = IF i \in S THEN [items[i] EXCEPT !.state = "closed"] ELSE items[i]
      BY <1>2 DEF SweepCommit, CloseSwept, PutItems
    <2>2. \A i \in S : items[i] # NoItem /\ items[i].state # "closed"
      BY DEF DueAnswered, RedundantReraises, IsAnswered, IsOpen
    <2>3. \A i \in S \cap Ids : items[i] \in Item
      BY <2>2, SlotIsItem DEF StoreInv, StoreTyped
    <2> HIDE DEF S
    <2>4. ASSUME NEW i \in S \cap Ids PROVE Move(i)
      <3> DEFINE row == [items[i] EXCEPT !.state = "closed"]
      <3>1. row \in Item
        BY <2>3 DEF Item, States
      <3>2. Rewritten(items[i], row)
        BY <2>2, <2>3 DEF Rewritten, SameAnswer, SameEscalation, Item
      <3> QED
        BY <2>1, <2>2, <3>1, <3>2, ItemIsStored DEF Move
    <2> QED
      BY <2>1, <2>4 DEF Moves, Move, S
  <1> QED
    BY <1>1, <1>2

\* Every step moves every row in one of the ways Move lists.
LEMMA StepMoves ==
  ASSUME IInv, OpenUndecided, [Next]_vars
  PROVE  Moves
PROOF
  <1>1. ASSUME NEW q \in Requests, Push(q) PROVE Moves
    BY <1>1, PushMoves
  <1>2. CASE ItemOperation
    BY <1>2, ItemOperationMoves
  <1>3. CASE SweepCommit
    BY <1>3, SweepMoves
  <1>4. ASSUME NEW r \in Readers, ReadCommit(r) PROVE Moves
    BY <1>4 DEF ReadCommit, RemoveItems, IInv, CommitInv, Condemned, Moves, Move
  <1>5. CASE BuildHistory \/ SweepStart \/ SweepFails
    BY <1>5 DEF BuildHistory, SweepStart, SweepFails, storeVars, bucketVars, Moves, Move
  <1>6. ASSUME NEW r \in Readers,
               \/ \E includeAnswered \in BOOLEAN : ReadEnsure(r, includeAnswered)
               \/ ReadScan(r) \/ ReadClassify(r) \/ ReadResolve(r) \/ ReadJudge(r) \/ ReadFails(r)
        PROVE  Moves
    BY <1>6 DEF ReadEnsure, ReadScan, ReadClassify, ReadResolve, ReadJudge, ReadFails,
                storeVars, bucketVars, Moves, Move
  <1>7. CASE (\E D \in SUBSET Droppable : Restart(D)) \/ Environment \/ UNCHANGED vars
    BY <1>7 DEF Restart, Environment, Tick, ProducerChanges, CachedListingLapses,
                FreshListingLapses, RegistryChanges, vars, storeVars, bucketVars, Moves, Move
  <1> QED
    BY <1>1, <1>2, <1>3, <1>4, <1>5, <1>6, <1>7 DEF Next, ReadStep

-----------------------------------------------------------------------------
(* What every reachable state satisfies besides IInv. *)

\* An empty store has issued nothing and sweeps nothing.
LEMMA InitRowsInv == Init => RowsInv
PROOF
  BY DEF Init, RowsInv, RowsIssued, OpenUndecided, SweepReady, IsOpen

\* A row moves within the issued ids; a row that is still open, or open again,
\* was open without a verdict.
LEMMA MovesKeepRows ==
  ASSUME RowsIssued, OpenUndecided, Moves
  PROVE  RowsIssued' /\ OpenUndecided'
PROOF
  <1>1. RowsIssued'
    BY DEF RowsIssued, Moves, Move, IsOpen
  <1>2. OpenUndecided'
    BY DEF OpenUndecided, Moves, Move, Rewritten, SameAnswer, IsOpen
  <1> QED
    BY <1>1, <1>2

\* Only a restart takes an index's marker away, and it forgets the sweep; the
\* clock only goes forward.
LEMMA NextSweepReady ==
  ASSUME IInv, SweepReady, [Next]_vars
  PROVE  SweepReady'
PROOF
  <1> USE StoreAssumption DEF SweepReady
  <1>n. now \in Int /\ cutoff \in Int /\ MaxAge \in Int
    BY DEF IInv, CallInv, Times, StoreAssumption
  <1>k. ASSUME UNCHANGED <<now, sweepVars>>, built \subseteq built' PROVE SweepReady'
    BY <1>k DEF sweepVars
  <1>p. ASSUME NEW S, NEW new, NEW entries, NEW marked, built \subseteq marked,
               PutItems(S, new, entries, marked)
        PROVE  built \subseteq built'
    BY <1>p DEF PutItems
  <1>1. ASSUME NEW q \in Requests, Push(q) PROVE SweepReady'
    <2>1. built \subseteq built'
      BY <1>1, <1>p DEF Push, UpdateExisting, AddNew
    <2> QED
      BY <1>1, <2>1, <1>k DEF Push
  <1>2. CASE ItemOperation
    <2>1. (\E row : PutItem(row)) \/ UNCHANGED built
      BY <1>2 DEF ItemOperation, Answer, Escalate, Flag, Unflag, Rate, Close, RecordAttempt
    <2>2. built \subseteq built'
      BY <2>1, <1>p DEF PutItem
    <2>3. UNCHANGED <<now, sweepVars>>
      BY <1>2, ItemOperationKeepsStore DEF envVars
    <2> QED
      BY <2>2, <2>3, <1>k
  <1>3. CASE BuildHistory
    BY <1>3, <1>k DEF BuildHistory, envVars
  <1>4. CASE SweepStart
    BY <1>4, <1>n DEF SweepStart, EnsureLiveIndex, envVars
  <1>5. CASE SweepCommit \/ SweepFails \/ \E D \in SUBSET Droppable : Restart(D)
    BY <1>5 DEF SweepCommit, SweepFails, Restart
  <1>6. ASSUME NEW r \in Readers, ReadStep(r) \/ ReadFails(r) PROVE SweepReady'
    <2>1. built \subseteq built' /\ UNCHANGED <<now, sweepVars>>
      BY <1>6 DEF ReadStep, ReadFails, ReadEnsure, EnsureLiveIndex, EnsureOpenIndex, ReadScan,
                  ReadClassify, ReadResolve, ReadJudge, ReadCommit, RemoveItems,
                  storeVars, bucketVars, envVars
    <2> QED
      BY <2>1, <1>k
  <1>7. CASE Tick
    BY <1>7, <1>n DEF Tick, storeVars, bucketVars, sweepVars
  <1>8. CASE ProducerChanges \/ CachedListingLapses \/ FreshListingLapses \/ RegistryChanges
             \/ UNCHANGED vars
    BY <1>8 DEF ProducerChanges, CachedListingLapses, FreshListingLapses, RegistryChanges,
                vars, storeVars, bucketVars, envVars, sweepVars
  <1> QED
    BY <1>1, <1>2, <1>3, <1>4, <1>5, <1>6, <1>7, <1>8 DEF Next, Environment

\* In every reachable state ids are issued before rows stand under them, open
\* rows are undecided, and a sweep in flight has its index.
THEOREM RowsInvariance == Spec => [](IInv /\ RowsInv)
PROOF
  <1>1. IInv /\ RowsInv /\ [Next]_vars => RowsInv'
    BY StepMoves, MovesKeepRows, NextSweepReady DEF RowsInv
  <1> QED
    BY <1>1, InitRowsInv, Invariance, PTL DEF Spec

-----------------------------------------------------------------------------
(* What follows. *)

\* Whatever arms, sessions, sweeps and prunes do afterwards, the first answer to
\* a message or a report keeps its author, its resolver and its time.
THEOREM FirstAnswerAlwaysStands == Spec => FirstAnswerStands
PROOF
  <1>1. ASSUME IInv, RowsInv, [Next]_vars,
               NEW i \in Ids, IsAnswered(items[i]), items[i].mechanism # "permission"
        PROVE  /\ items'[i] # NoItem
               /\ items'[i].answeredBy = items[i].answeredBy
               /\ items'[i].resolvedBy = items[i].resolvedBy
               /\ items'[i].answeredAt = items[i].answeredAt
    <2>1. Move(i) /\ i \in issued
      BY <1>1, StepMoves DEF Moves, RowsInv, RowsIssued, IsAnswered
    <2>2. items[i] # NoItem /\ items[i].state = "answered"
      BY <1>1 DEF IsAnswered
    <2> QED
      BY <1>1, <2>1, <2>2 DEF Move, Rewritten, SameAnswer, IsOpen
  <1>2. IInv /\ RowsInv /\ [Next]_vars =>
          [ \A i \in Ids : IsAnswered(items[i]) /\ items[i].mechanism # "permission" =>
              /\ items'[i] # NoItem
              /\ items'[i].answeredBy = items[i].answeredBy
              /\ items'[i].resolvedBy = items[i].resolvedBy
              /\ items'[i].answeredAt = items[i].answeredAt ]_vars
    BY <1>1
  <1> QED
    BY <1>2, RowsInvariance, PTL DEF Spec, FirstAnswerStands

\* The session that escalated an ask first carries it as long as its row stands.
THEOREM EscalationAlwaysSticks == Spec => EscalationSticks
PROOF
  <1>1. ASSUME IInv, RowsInv, [Next]_vars,
               NEW i \in Ids, items[i] # NoItem, items[i].escalatedBy # None, items'[i] # NoItem
        PROVE  /\ items'[i].escalatedBy = items[i].escalatedBy
               /\ items'[i].escalatedAt = items[i].escalatedAt
    <2>1. Move(i) /\ i \in issued
      BY <1>1, StepMoves DEF Moves, RowsInv, RowsIssued
    <2> QED
      BY <1>1, <2>1 DEF Move, Rewritten, SameEscalation
  <1>2. IInv /\ RowsInv /\ [Next]_vars =>
          [ \A i \in Ids :
              items[i] # NoItem /\ items[i].escalatedBy # None /\ items'[i] # NoItem =>
                /\ items'[i].escalatedBy = items[i].escalatedBy
                /\ items'[i].escalatedAt = items[i].escalatedAt ]_vars
    BY <1>1
  <1> QED
    BY <1>2, RowsInvariance, PTL DEF Spec, EscalationSticks

\* A sweep whose scan, clock and transaction are apart closes an answered row
\* only past the bound, and an open one only beside an answer that stays.
THEOREM SweepAlwaysClosesOnlyDue == Spec => SweepClosesOnlyDue
PROOF
  <1>1. ASSUME IInv, RowsInv, SweepCommit, NEW i \in Ids, items'[i] # items[i]
        PROVE  \/ IsAnswered(items[i]) /\ now - items[i].answeredAt > MaxAge
               \/ /\ IsOpen(items[i])
                  /\ \E j \in Ids : /\ IsAnswered(items'[j])
                                    /\ AskIdentity(items'[j]) = AskIdentity(items[i])
    <2>1. live = LiveIndexOf(items) /\ cutoff <= now - MaxAge
      BY <1>1 DEF SweepCommit, RowsInv, SweepReady, IInv, StoreInv, IndexesExact
    <2>2. \A j \in Ids : live[j] # NoItem => live[j] = items[j]
      BY <2>1 DEF LiveIndexOf
    <2>3. i \in DueAnswered \cup RedundantReraises(DueAnswered)
      BY <1>1, SweepMoves
    <2>4. CASE i \in DueAnswered
      <3>1. IsAnswered(items[i]) /\ items[i].answeredAt < cutoff
        BY <2>2, <2>4 DEF DueAnswered, IsAnswered
      <3>2. items[i].answeredAt \in Int /\ cutoff \in Int /\ now \in Int /\ MaxAge \in Int
        BY <1>1, <3>1, SlotIsItem, StoreAssumption
        DEF IInv, CallInv, StoreInv, StoreTyped, Item, Stamps, Times, Never, IsAnswered,
            StoreAssumption
      <3> QED
        BY <2>1, <3>1, <3>2
    <2>5. CASE i \in RedundantReraises(DueAnswered)
      <3>1. PICK j \in Ids \ DueAnswered :
              IsAnswered(live[j]) /\ AskIdentity(live[j]) = AskIdentity(live[i])
        BY <2>5 DEF RedundantReraises
      <3>2. IsOpen(items[i]) /\ live[i] = items[i] /\ live[j] = items[j]
        BY <2>2, <2>5, <3>1 DEF RedundantReraises, IsOpen, IsAnswered
      <3>3. j \notin RedundantReraises(DueAnswered)
        BY <3>1 DEF RedundantReraises, IsOpen, IsAnswered
      <3>4. items'[j] = items[j]
        BY <1>1, <3>1, <3>3, SweepMoves
      <3> QED
        BY <3>1, <3>2, <3>4
    <2> QED
      BY <2>3, <2>4, <2>5
  <1>2. IInv /\ RowsInv /\ [Next]_vars =>
          [ SweepCommit =>
              \A i \in Ids : items'[i] # items[i] =>
                \/ IsAnswered(items[i]) /\ now - items[i].answeredAt > MaxAge
                \/ /\ IsOpen(items[i])
                   /\ \E j \in Ids : /\ IsAnswered(items'[j])
                                     /\ AskIdentity(items'[j]) = AskIdentity(items[i]) ]_vars
    BY <1>1
  <1> QED
    BY <1>2, RowsInvariance, PTL DEF Spec, SweepClosesOnlyDue

-----------------------------------------------------------------------------
(* The store implements the lifecycle it promises. *)

\* A row's move is a move of the abstract ask.
LEMMA MoveImplements ==
  ASSUME IInv, IInv', RowsInv, RowsInv', Moves, NEW i \in Ids
  PROVE  /\ Phase(i)' = Phase(i) \/ <<Phase(i), Phase(i)'>> \in Lifecycle!Moves
         /\ \/ Verdict(i)' = Verdict(i)
            \/ Verdict(i) = None /\ Phase(i)' = "answered" /\ Verdict(i)' \in Decisions
PROOF
  <1>1. Move(i) /\ issued \subseteq issued'
    BY DEF Moves
  <1>2. /\ items[i] # NoItem => i \in issued /\ items[i] \in Item
        /\ items'[i] # NoItem => i \in issued' /\ items'[i] \in Item
    BY DEF RowsInv, RowsIssued, IInv, StoreInv, StoreTyped, Slot
  <1>3. CASE items'[i] = items[i] /\ (i \in issued' => i \in issued)
    <2>1. Verdict(i)' = Verdict(i)
      BY <1>3 DEF Verdict
    <2>2. items[i] # NoItem => Phase(i)' = Phase(i)
      BY <1>1, <1>2, <1>3 DEF Phase
    <2>3. items[i] = NoItem => Phase(i)' = Phase(i)
      BY <1>1, <1>3 DEF Phase
    <2> QED
      BY <2>1, <2>2, <2>3
  <1>4. CASE i \in issued' \ issued /\ IsOpen(items'[i]) /\ items'[i].decision = None
    <2>1. items[i] = NoItem
      BY <1>2, <1>4
    <2>2. Phase(i) = "unused" /\ Phase(i)' = "open"
      BY <1>4 DEF Phase, IsOpen
    <2>3. Verdict(i) = None /\ Verdict(i)' = None
      BY <1>4, <2>1 DEF Verdict, IsOpen
    <2> QED
      BY <2>2, <2>3 DEF Lifecycle!Moves
  <1>5. CASE IsOpen(items[i]) /\ items'[i] = NoItem
    <2>1. Phase(i) = "open" /\ Phase(i)' = "gone"
      BY <1>1, <1>2, <1>5 DEF Phase, IsOpen
    <2>2. Verdict(i) = None /\ Verdict(i)' = None
      BY <1>5 DEF Verdict, RowsInv, OpenUndecided
    <2> QED
      BY <2>1, <2>2 DEF Lifecycle!Moves
  <1>6. CASE items[i] # NoItem /\ items'[i] # NoItem /\ Rewritten(items[i], items'[i])
    <2>1. /\ Phase(i) = items[i].state /\ Phase(i)' = items'[i].state
          /\ Verdict(i) = items[i].decision /\ Verdict(i)' = items'[i].decision
      BY <1>1, <1>2, <1>6 DEF Phase, Verdict
    <2>2. items[i].state \in States /\ items'[i].decision \in Decisions \cup {None}
      BY <1>2, <1>6 DEF Item
    <2> QED
      BY <1>6, <2>1, <2>2 DEF Rewritten, SameAnswer, States, Lifecycle!Moves
  <1> QED
    BY <1>1, <1>3, <1>4, <1>5, <1>6 DEF Move

\* Every operation, rebuild, prune, sweep and restart of the store is a step of
\* AskLifecycle or none: an id is drawn once, an answer is never lost, a verdict
\* never replaced, and only an open ask is ever removed.
THEOREM StoreImplementsLifecycle == Spec => LifecycleSpec
PROOF
  <1> DEFINE phases == [i \in Ids |-> Phase(i)]
             verdicts == [i \in Ids |-> Verdict(i)]
  <1>1. Init => Lifecycle!Init
    BY DEF Init, Lifecycle!Init, Phase, Verdict
  <1>2. ASSUME IInv, IInv', RowsInv, RowsInv', [Next]_vars
        PROVE  [Lifecycle!Next]_<<phases, verdicts>>
    <2>1. Moves
      BY <1>2, StepMoves DEF RowsInv
    <2>2. \A i \in Ids : Phase(i)' \in Lifecycle!Phases /\ Verdict(i)' \in Decisions \cup {None}
      BY <1>2 DEF Phase, Verdict, IInv, StoreInv, StoreTyped, Slot, Item, States, Lifecycle!Phases
    <2>3. phases' \in [Ids -> Lifecycle!Phases] /\ verdicts' \in [Ids -> Decisions \cup {None}]
      BY <2>2
    <2>4. ASSUME NEW i \in Ids
          PROVE  /\ phases'[i] = phases[i] \/ <<phases[i], phases'[i]>> \in Lifecycle!Moves
                 /\ \/ verdicts'[i] = verdicts[i]
                    \/ verdicts[i] = None /\ phases'[i] = "answered" /\ verdicts'[i] \in Decisions
      BY <1>2, <2>1, MoveImplements
    <2> QED
      BY <2>3, <2>4 DEF Lifecycle!Next, Lifecycle!Settles
  <1>3. IInv /\ IInv' /\ RowsInv /\ RowsInv' /\ [Next]_vars => [Lifecycle!Next]_<<phases, verdicts>>
    BY <1>2
  <1> QED
    BY <1>1, <1>3, RowsInvariance, PTL DEF Spec, LifecycleSpec, Lifecycle!Spec

==============================================================================

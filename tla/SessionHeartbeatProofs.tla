----------------------- MODULE SessionHeartbeatProofs -----------------------
(***************************************************************************)
(* Proofs about SessionHeartbeat, for any number of sessions and posters,   *)
(* any window, retention and clock.                                         *)
(*                                                                         *)
(* A stale row has a cause because each of the three copies of a file's row *)
(* (the snapshot, what the watcher's loop holds and what the first load     *)
(* holds) has one, and a copy is only ever replaced by one that has.        *)
(***************************************************************************)
EXTENDS SessionHeartbeat, TLAPS

Told(s) == s \in events \cup owed

\* What the watcher's loop holds.
Collected ==
  /\ doing \in {"reading", "pruning"} =>
       \A s \in Sessions : got[s] = RowIn(disk[s]) \/ Told(s) \/ s \in todo
  /\ doing = "applying" => \A s \in seen : got[s] = RowIn(disk[s]) \/ Told(s)
  /\ doing \in {"idle", "pruning"} => todo = {}
  /\ doing # "applying" => seen = {}

\* What the first load holds, until the loop publishes behind its back.
Loading ==
  load.on /\ ~ load.overlapped =>
    \A s \in Sessions :
      load.got[s] = RowIn(disk[s]) \/ Told(s) \/ s \in load.todo \/ InHand(s)

IInv ==
  /\ TypeOK
  /\ LagHasCause
  /\ Collected
  /\ Loading

-----------------------------------------------------------------------------
(* Types. *)

\* What a file says is a row or nothing.
LEMMA RowInType ==
  ASSUME NEW c \in Content
  PROVE  RowIn(c) \in Row
  BY DEF Content, RowIn, Row, Stamped, Nothing

\* Rows and what other programs write are contents of a file.
LEMMA ContentTypes ==
  /\ Nothing \in Content /\ Nothing \in Row
  /\ \A t \in Stamps : Stamped(t) \in Content /\ Stamped(t) \in Row
  /\ ForeignContent \subseteq Content
  /\ NoRows \in Snapshot
  /\ 0 \in Stamps
<1>1. 0 \in Stamps
  BY HeartbeatAssumption DEF Stamps
<1>2. Nothing \in Content /\ Nothing \in Row
  BY <1>1 DEF Nothing, Content, Row
<1>3. \A t \in Stamps : Stamped(t) \in Content /\ Stamped(t) \in Row
  BY DEF Stamped, Content, Row
<1>4. ForeignContent \subseteq Content
  BY <1>1, <1>2, <1>3, HeartbeatAssumption DEF ForeignContent, Content
<1>5. NoRows \in Snapshot
  BY <1>2 DEF NoRows, Snapshot
<1>6. QED
  BY <1>1, <1>2, <1>3, <1>4, <1>5

\* The initial state is typed.
LEMMA InitTyped == Init => TypeOK
<1> SUFFICES ASSUME Init PROVE TypeOK
  OBVIOUS
<1> USE ContentTypes
<1>1. clock \in Stamps /\ cutoff \in - Retention .. MaxClock
  BY HeartbeatAssumption DEF Init, Stamps
<1>2. disk \in [Sessions -> Content]
  BY <1>1 DEF Init
<1>3. posting \in [Posters -> {Quiet} \cup Call]
  BY DEF Init
<1>4. load \in [on : BOOLEAN, todo : SUBSET Sessions, got : Snapshot, overlapped : BOOLEAN]
  BY DEF Init
<1>5. posts \in 0 .. MaxPosts /\ foreign \in 0 .. MaxForeign /\ failures \in 0 .. MaxFailures
  BY HeartbeatAssumption DEF Init
<1>6. QED
  BY <1>1, <1>2, <1>3, <1>4, <1>5 DEF Init, TypeOK

\* A file's change keeps the types of what it touches.
LEMMA ChangeTyped ==
  ASSUME TypeOK, NEW s \in Sessions, NEW c \in Content, Change(s, c)
  PROVE  /\ disk' \in [Sessions -> Content]
         /\ events' \in SUBSET Sessions
         /\ owed' \in SUBSET Sessions
         /\ failures' \in 0 .. MaxFailures
  BY HeartbeatAssumption DEF TypeOK, Change, Fails

\* Every step keeps the types.
LEMMA NextTyped == TypeOK /\ [Next]_vars => TypeOK'
<1> SUFFICES ASSUME TypeOK, [Next]_vars PROVE TypeOK'
  OBVIOUS
<1> USE ContentTypes, RowInType, HeartbeatAssumption
<1>1. CASE Tick
  BY <1>1 DEF Tick, TypeOK, loopVars, bounds, Stamps
<1>2. ASSUME NEW p \in Posters, NEW s \in Sessions, NEW d \in Declarations, PostStamp(p, s, d)
      PROVE TypeOK'
  BY <1>2 DEF PostStamp, TypeOK, loopVars, Call
<1>3. ASSUME NEW p \in Posters, PostWrite(p) PROVE TypeOK'
  <2>1. posting[p] \in Call /\ posting' \in [Posters -> {Quiet} \cup Call]
    BY <1>3 DEF PostWrite, TypeOK, Quiet, Call
  <2>2. Change(posting[p].s, Stamped(posting[p].at)) /\ posting[p].s \in Sessions
        /\ Stamped(posting[p].at) \in Content
    BY <1>3, <2>1 DEF PostWrite, Call
  <2>3. /\ disk' \in [Sessions -> Content]
        /\ events' \in SUBSET Sessions
        /\ owed' \in SUBSET Sessions
        /\ failures' \in 0 .. MaxFailures
    BY <2>2, ChangeTyped
  <2>4. QED
    BY <1>3, <2>1, <2>3 DEF PostWrite, TypeOK, loopVars
<1>4. ASSUME NEW p \in Posters, PostFail(p) PROVE TypeOK'
  BY <1>4 DEF PostFail, Fails, TypeOK, loopVars
<1>5. ASSUME NEW p \in Posters, PostPublish(p) PROVE TypeOK'
  <2>1. posting[p] \in Call
    BY <1>5 DEF PostPublish, MayPublish, TypeOK, Quiet
  <2>2. posting[p].s \in Sessions /\ Stamped(posting[p].at) \in Row
    BY <2>1 DEF Call
  <2>3. rows' \in Snapshot /\ owed' \in SUBSET Sessions
    BY <1>5, <2>2 DEF PostPublish, TypeOK, Snapshot
  <2>4. posting' \in [Posters -> {Quiet} \cup Call]
    BY <1>5 DEF PostPublish, TypeOK
  <2>5. QED
    BY <1>5, <2>3, <2>4 DEF PostPublish, TypeOK, loopVars, bounds
<1>6. ASSUME NEW s \in Sessions, NEW c \in ForeignContent, Foreign(s, c) PROVE TypeOK'
  BY <1>6, ChangeTyped DEF Foreign, TypeOK, loopVars
<1>7. CASE LoadStart
  BY <1>7 DEF LoadStart, Present, TypeOK, loopVars, bounds
<1>8. ASSUME NEW s \in Sessions, LoadRead(s) PROVE TypeOK'
  <2>1. RowIn(disk[s]) \in Row
    BY DEF TypeOK
  <2>2. load' \in [on : BOOLEAN, todo : SUBSET Sessions, got : Snapshot, overlapped : BOOLEAN]
    <3>1. CASE load' = [load EXCEPT !.todo = @ \ {s}, !.got[s] = RowIn(disk[s])]
      BY <3>1, <2>1 DEF TypeOK, Snapshot
    <3>2. CASE load' = [load EXCEPT !.todo = @ \ {s}]
      BY <3>2 DEF TypeOK
    <3>3. QED
      BY <1>8, <3>1, <3>2 DEF LoadRead
  <2>3. owed' \in SUBSET Sessions /\ failures' \in 0 .. MaxFailures
    BY <1>8 DEF LoadRead, Fails, TypeOK
  <2>4. QED
    BY <1>8, <2>2, <2>3 DEF LoadRead, TypeOK, loopVars
<1>9. CASE LoadDone
  BY <1>9 DEF LoadDone, TypeOK, loopVars, bounds
<1>10. CASE ReconcileFail
  BY <1>10 DEF ReconcileFail, Fails, TypeOK, loopVars
<1>11. CASE ReconcileStart
  BY <1>11 DEF ReconcileStart, Present, TypeOK, bounds
<1>12. ASSUME NEW s \in Sessions, ReadFile(s) PROVE TypeOK'
  <2>1. RowIn(disk[s]) \in Row
    BY DEF TypeOK
  <2>2. got' \in Snapshot
    BY <1>12, <2>1 DEF ReadFile, TypeOK, Snapshot
  <2>3. seen' \in SUBSET Sessions /\ owed' \in SUBSET Sessions /\ failures' \in 0 .. MaxFailures
    BY <1>12 DEF ReadFile, Fails, TypeOK
  <2>4. QED
    BY <1>12, <2>2, <2>3 DEF ReadFile, TypeOK
<1>13. CASE PruneStart
  BY <1>13 DEF PruneStart, TypeOK, Stamps, bounds
<1>14. ASSUME NEW s \in Sessions, PruneRow(s) PROVE TypeOK'
  <2>1. got' \in Snapshot
    BY <1>14 DEF PruneRow, TypeOK, Snapshot
  <2>2. /\ disk' \in [Sessions -> Content]
        /\ events' \in SUBSET Sessions
        /\ owed' \in SUBSET Sessions
        /\ failures' \in 0 .. MaxFailures
    <3>1. CASE Change(s, Nothing)
      BY <3>1, ChangeTyped
    <3>2. CASE Fails /\ owed' = owed \cup {s} /\ UNCHANGED <<disk, events>>
      BY <3>2 DEF Fails, TypeOK
    <3>3. QED
      BY <1>14, <3>1, <3>2 DEF PruneRow
  <2>3. QED
    BY <1>14, <2>1, <2>2 DEF PruneRow, TypeOK
<1>15. CASE ReconcileInstall
  BY <1>15 DEF ReconcileInstall, TypeOK, bounds
<1>16. ASSUME NEW P \in SUBSET events, BurstStart(P) PROVE TypeOK'
  BY <1>16 DEF BurstStart, TypeOK, bounds
<1>17. CASE BurstApply
  BY <1>17 DEF BurstApply, RowsAfterBurst, TypeOK, Snapshot, bounds
<1>18. CASE Restart
  <2>1. posting' \in [Posters -> {Quiet} \cup Call]
    BY <1>18 DEF Restart
  <2>2. load' \in [on : BOOLEAN, todo : SUBSET Sessions, got : Snapshot, overlapped : BOOLEAN]
    BY <1>18 DEF Restart
  <2>3. cutoff' \in - Retention .. MaxClock /\ failures' \in 0 .. MaxFailures
    BY <1>18 DEF Restart, Fails, TypeOK
  <2>4. QED
    BY <1>18, <2>1, <2>2, <2>3 DEF Restart, TypeOK
<1>19. CASE UNCHANGED vars
  BY <1>19 DEF vars, TypeOK, loopVars, bounds
<1>20. QED
  BY <1>1, <1>2, <1>3, <1>4, <1>5, <1>6, <1>7, <1>8, <1>9, <1>10, <1>11, <1>12, <1>13,
     <1>14, <1>15, <1>16, <1>17, <1>18, <1>19 DEF Next, Loop

-----------------------------------------------------------------------------
(* Stale rows. *)

\* A change of a file is told, and touches no other file.
LEMMA ChangeTells ==
  ASSUME TypeOK, NEW s \in Sessions, NEW c, Change(s, c)
  PROVE  /\ Told(s)'
         /\ \A r \in Sessions : Told(r) => Told(r)'
         /\ \A r \in Sessions \ {s} : disk'[r] = disk[r]
  BY DEF TypeOK, Change, Told

\* A step that only changes what a file holds, and leaves the three copies
\* alone, leaves no copy stale without a cause.
LEMMA ChangeKeeps ==
  ASSUME IInv, NEW s \in Sessions, NEW c, Change(s, c),
         UNCHANGED <<rows, loaded, loopVars, load>>
  PROVE  LagHasCause' /\ Collected' /\ Loading'
<1> USE ChangeTells DEF IInv, RowIn
<1>1. \A r \in Sessions : InHand(r)' <=> InHand(r)
  BY DEF InHand, loopVars
<1>2. LagHasCause'
  BY <1>1 DEF LagHasCause, Told
<1>3. Collected'
  BY DEF Collected, loopVars, TypeOK
<1>4. Loading'
  BY <1>1 DEF Loading
<1>5. QED
  BY <1>2, <1>3, <1>4

\* The same for a step that changes no file and takes nothing that is owed.
LEMMA StillKeeps ==
  ASSUME IInv, UNCHANGED <<disk, rows, loaded, events, loopVars, load>>, owed \subseteq owed'
  PROVE  LagHasCause' /\ Collected' /\ Loading'
<1>1. \A r \in Sessions : (InHand(r)' <=> InHand(r)) /\ (Told(r) => Told(r)')
  BY DEF InHand, loopVars, Told
<1>2. QED
  BY <1>1 DEF IInv, LagHasCause, Collected, Loading, RowIn, loopVars, TypeOK, Told

\* Every step keeps the causes.
LEMMA NextKeepsCauses == IInv /\ [Next]_vars => LagHasCause' /\ Collected' /\ Loading'
<1> SUFFICES ASSUME IInv, [Next]_vars PROVE LagHasCause' /\ Collected' /\ Loading'
  OBVIOUS
<1> USE DEF IInv
<1>1. CASE Tick
  BY <1>1, StillKeeps DEF Tick
<1>2. ASSUME NEW p \in Posters, NEW s \in Sessions, NEW d \in Declarations, PostStamp(p, s, d)
      PROVE LagHasCause' /\ Collected' /\ Loading'
  BY <1>2, StillKeeps DEF PostStamp
<1>3. ASSUME NEW p \in Posters, PostWrite(p)
      PROVE LagHasCause' /\ Collected' /\ Loading'
  <2>1. posting[p].s \in Sessions
    BY <1>3 DEF PostWrite, TypeOK, Quiet, Call
  <2>2. QED
    BY <1>3, <2>1, ChangeKeeps DEF PostWrite
<1>4. ASSUME NEW p \in Posters, PostFail(p)
      PROVE LagHasCause' /\ Collected' /\ Loading'
  BY <1>4, StillKeeps DEF PostFail
<1>5. ASSUME NEW p \in Posters, PostPublish(p)
      PROVE LagHasCause' /\ Collected' /\ Loading'
  <2>0. posting[p].pc = "written" /\ posting[p].s \in Sessions
    BY <1>5 DEF PostPublish, MayPublish, TypeOK, Quiet, Call
  <2>1. PICK s \in Sessions, t \in {posting[p].at} : s = posting[p].s
    BY <2>0
  <2> DEFINE row == Stamped(t)
  <2>2. RowIn(row) = row
    BY DEF RowIn, Stamped
  <2>3. /\ \A r \in Sessions : Told(r) => Told(r)'
        /\ \A r \in Sessions : InHand(r)' <=> InHand(r)
        /\ UNCHANGED <<disk, loaded, loopVars, load>>
    BY <1>5 DEF PostPublish, Told, InHand, loopVars
  <2>4. LagHasCause'
    <3>1. CASE ~ loaded
      BY <2>3, <3>1 DEF LagHasCause
    <3>2. CASE loaded
      <4>1. rows' = [rows EXCEPT ![s] = row] /\ (disk[s] # row => Told(s)')
        <5>1. rows' = [rows EXCEPT ![s] = row]
          BY <1>5, <2>1, <3>2 DEF PostPublish
        <5>2. disk[s] # row => owed' = owed \cup {s}
          BY <1>5, <2>0, <2>1, <3>2 DEF PostPublish
        <5>3. QED
          BY <5>1, <5>2 DEF Told
      <4>2. ASSUME NEW r \in Sessions, rows'[r] # RowIn(disk[r])
            PROVE  Told(r)' \/ InHand(r)'
        <5>1. CASE r = s
          <6>1. rows'[s] = row
            BY <4>1, <2>1 DEF TypeOK, Snapshot
          <6>2. disk[s] # row
            BY <6>1, <5>1, <4>2, <2>2
          <6>3. QED
            BY <6>2, <5>1, <4>1
        <5>2. CASE r # s
          <6>1. rows'[r] = rows[r]
            BY <5>2, <4>1 DEF TypeOK, Snapshot
          <6>2. QED
            BY <6>1, <4>2, <2>3, <3>2 DEF LagHasCause, Told
        <5>3. QED
          BY <5>1, <5>2
      <4>3. QED
        BY <4>2, <2>3 DEF LagHasCause, Told, RowIn
    <3>3. QED
      BY <3>1, <3>2
  <2>5. Collected' /\ Loading'
    BY <2>3 DEF Collected, Loading, RowIn, loopVars, TypeOK
  <2>6. QED
    BY <2>4, <2>5
<1>6. ASSUME NEW s \in Sessions, NEW c \in ForeignContent, Foreign(s, c)
      PROVE LagHasCause' /\ Collected' /\ Loading'
  BY <1>6, ChangeKeeps DEF Foreign
<1>7. CASE LoadStart
  <2>1. Loading'
    BY <1>7, ContentTypes DEF LoadStart, Loading, Present, RowIn, NoRows, Nothing, TypeOK, Content
  <2>2. LagHasCause' /\ Collected'
    BY <1>7 DEF LoadStart, LagHasCause, Collected, Told, RowIn, InHand, loopVars
  <2>3. QED
    BY <2>1, <2>2
<1>8. ASSUME NEW s \in Sessions, LoadRead(s)
      PROVE LagHasCause' /\ Collected' /\ Loading'
  <2>1. /\ \A r \in Sessions : Told(r) => Told(r)'
        /\ \A r \in Sessions : InHand(r)' <=> InHand(r)
        /\ UNCHANGED <<disk, rows, loaded, loopVars>>
    BY <1>8 DEF LoadRead, Told, InHand, loopVars
  <2>2. /\ load'.on = load.on /\ load'.overlapped = load.overlapped
        /\ load'.todo = load.todo \ {s}
        /\ \A r \in Sessions \ {s} : load'.got[r] = load.got[r]
        /\ load'.got[s] = RowIn(disk[s]) \/ Told(s)'
    <3>1. CASE load' = [load EXCEPT !.todo = @ \ {s}, !.got[s] = RowIn(disk[s])]
      BY <3>1 DEF TypeOK, Snapshot
    <3>2. CASE load' = [load EXCEPT !.todo = @ \ {s}] /\ owed' = owed \cup {s}
      BY <3>2 DEF TypeOK, Told
    <3>3. QED
      BY <1>8, <3>1, <3>2 DEF LoadRead
  <2>3. Loading'
    BY <2>1, <2>2 DEF Loading, RowIn
  <2>4. LagHasCause' /\ Collected'
    BY <2>1 DEF LagHasCause, Collected, RowIn, loopVars, Told, TypeOK
  <2>5. QED
    BY <2>3, <2>4
<1>9. CASE LoadDone
  <2>1. UNCHANGED <<disk, events, loopVars>> /\ \A r \in Sessions : InHand(r)' <=> InHand(r)
    BY <1>9 DEF LoadDone, InHand, loopVars
  <2>2. owed \subseteq owed' /\ (load.overlapped => owed' = Sessions)
    BY <1>9 DEF LoadDone, TypeOK
  <2>3. LagHasCause'
    BY <1>9, <2>1, <2>2 DEF LoadDone, LagHasCause, Loading, RowIn, Told
  <2>4. Collected' /\ Loading'
    BY <1>9, <2>1, <2>2 DEF LoadDone, Collected, Loading, RowIn, Told, loopVars, TypeOK
  <2>5. QED
    BY <2>3, <2>4
<1>10. CASE ReconcileFail
  BY <1>10, StillKeeps DEF ReconcileFail
<1>11. CASE ReconcileStart
  <2>1. Collected'
    BY <1>11, ContentTypes DEF ReconcileStart, MayReconcile, Collected, Present, RowIn, NoRows, Nothing, TypeOK, Content
  <2>2. \A r \in Sessions : InHand(r)'
    BY <1>11 DEF ReconcileStart, InHand
  <2>3. LagHasCause' /\ Loading'
    BY <2>2 DEF LagHasCause, Loading
  <2>4. QED
    BY <2>1, <2>3
<1>12. ASSUME NEW s \in Sessions, ReadFile(s)
      PROVE LagHasCause' /\ Collected' /\ Loading'
  <2>1. /\ UNCHANGED <<disk, rows, loaded, events, load, doing>>
        /\ todo' = todo \ {s} /\ s \in todo
        /\ \A r \in Sessions \ {s} : Told(r) <=> Told(r)'
        /\ \A r \in Sessions \ {s} : got'[r] = got[r]
        /\ seen \subseteq seen' /\ seen' \subseteq seen \cup {s}
    BY <1>12 DEF ReadFile, Told, TypeOK, Snapshot
  <2>2. \/ got'[s] = RowIn(disk[s]) /\ (doing = "applying" => s \in seen')
        \/ Told(s)'
    BY <1>12 DEF ReadFile, Told, TypeOK, Snapshot
  <2>3. doing \in {"reading", "applying"} /\ (doing = "reading" => seen' = seen)
    BY <1>12 DEF ReadFile, Collected, TypeOK
  <2>4. \A r \in Sessions : InHand(r) => InHand(r)' \/ Told(r)'
    BY <2>1, <2>2, <2>3 DEF InHand
  <2>5. InHand(s)' \/ Told(s)'
    BY <2>1, <2>2, <2>3 DEF InHand
  <2>6. Collected'
    BY <2>1, <2>2, <2>3 DEF Collected, RowIn, TypeOK
  <2>7. LagHasCause' /\ Loading'
    BY <2>1, <2>4, <2>5 DEF LagHasCause, Loading, RowIn, Told
  <2>8. QED
    BY <2>6, <2>7
<1>13. CASE PruneStart
  <2>1. \A r \in Sessions : InHand(r)'
    BY <1>13 DEF PruneStart, InHand
  <2>2. Collected'
    BY <1>13 DEF PruneStart, Collected, RowIn, Told
  <2>3. QED
    BY <2>1, <2>2 DEF LagHasCause, Loading
<1>14. ASSUME NEW s \in Sessions, PruneRow(s)
      PROVE LagHasCause' /\ Collected' /\ Loading'
  <2>1. doing = "pruning" /\ doing' = "pruning" /\ UNCHANGED <<todo, seen>>
        /\ got' = [got EXCEPT ![s] = Nothing]
    BY <1>14 DEF PruneRow
  <2>2. \A r \in Sessions : InHand(r)'
    BY <2>1 DEF InHand
  <2>3. /\ Told(s)'
        /\ \A r \in Sessions : Told(r) => Told(r)'
        /\ \A r \in Sessions \ {s} : disk'[r] = disk[r]
    <3>1. CASE Change(s, Nothing)
      BY <3>1, ChangeTells
    <3>2. CASE owed' = owed \cup {s} /\ UNCHANGED <<disk, events>>
      BY <3>2 DEF Told
    <3>3. QED
      BY <1>14, <3>1, <3>2 DEF PruneRow
  <2>4. Collected'
    BY <2>1, <2>3 DEF Collected, RowIn, TypeOK, Snapshot
  <2>5. QED
    BY <2>2, <2>4 DEF LagHasCause, Loading
<1>15. CASE ReconcileInstall
  <2>1. LagHasCause'
    BY <1>15 DEF ReconcileInstall, Collected, LagHasCause, RowIn, Told
  <2>2. Collected'
    BY <1>15 DEF ReconcileInstall, Collected, MayReconcile
  <2>3. Loading'
    BY <1>15 DEF ReconcileInstall, Loading, TypeOK
  <2>4. QED
    BY <2>1, <2>2, <2>3
<1>16. ASSUME NEW P \in SUBSET events, BurstStart(P)
      PROVE LagHasCause' /\ Collected' /\ Loading'
  <2>1. doing = "idle" /\ doing' = "applying" /\ todo' = P /\ seen' = {}
        /\ UNCHANGED <<disk, rows, loaded, load, owed>> /\ events' = events \ P
    BY <1>16 DEF BurstStart
  <2>2. \A r \in Sessions : Told(r) \/ InHand(r) => Told(r)' \/ InHand(r)'
    BY <2>1 DEF InHand, Told
  <2>3. Collected'
    BY <2>1 DEF Collected
  <2>4. QED
    BY <2>1, <2>2, <2>3 DEF LagHasCause, Loading, RowIn, Told
<1>17. CASE BurstApply
  <2>1. /\ doing = "applying" /\ todo = {} /\ doing' = "idle" /\ seen' = {} /\ todo' = {}
        /\ UNCHANGED <<disk, loaded, owed, events>> /\ rows' = RowsAfterBurst
        /\ load' = [load EXCEPT !.overlapped = load.on]
    BY <1>17 DEF BurstApply
  <2>2. LagHasCause'
    <3>1. SUFFICES ASSUME loaded, NEW r \in Sessions, rows'[r] # RowIn(disk[r])
                   PROVE  Told(r)
      BY <2>1 DEF LagHasCause, RowIn, Told
    <3>2. rows'[r] = IF r \in seen THEN got[r] ELSE rows[r]
      BY <2>1, <3>1 DEF RowsAfterBurst
    <3>3. CASE r \in seen
      BY <2>1, <3>1, <3>2, <3>3 DEF Collected
    <3>4. CASE r \notin seen
      BY <2>1, <3>1, <3>2, <3>4 DEF LagHasCause, InHand, Told
    <3>5. QED
      BY <3>3, <3>4
  <2>3. Collected'
    BY <2>1 DEF Collected
  <2>4. Loading'
    BY <2>1 DEF Loading, TypeOK
  <2>5. QED
    BY <2>2, <2>3, <2>4
<1>18. CASE Restart
  BY <1>18 DEF Restart, LagHasCause, Collected, Loading
<1>19. CASE UNCHANGED vars
  BY <1>19, StillKeeps DEF vars, loopVars
<1>20. QED
  BY <1>1, <1>2, <1>3, <1>4, <1>5, <1>6, <1>7, <1>8, <1>9, <1>10, <1>11, <1>12, <1>13,
     <1>14, <1>15, <1>16, <1>17, <1>18, <1>19 DEF Next, Loop

-----------------------------------------------------------------------------
(* Theorems. *)

\* The inductive invariant holds in every reachable state.
THEOREM HeartbeatInvariance == Spec => []IInv
<1>1. Init => IInv
  BY InitTyped DEF Init, IInv, LagHasCause, Collected, Loading
<1>2. IInv /\ [Next]_vars => IInv'
  BY NextTyped, NextKeepsCauses DEF IInv
<1>3. QED
  BY <1>1, <1>2, PTL DEF Spec

\* Every variable of the store keeps its type.
THEOREM HeartbeatTypes == Spec => []TypeOK
<1>1. IInv => TypeOK
  BY DEF IInv
<1>2. QED
  BY <1>1, HeartbeatInvariance, PTL

\* A stale row always has one of the named causes.
THEOREM LagAlwaysHasCause == Spec => []LagHasCause
<1>1. IInv => LagHasCause
  BY DEF IInv
<1>2. QED
  BY <1>1, HeartbeatInvariance, PTL

-----------------------------------------------------------------------------
(* The rendered age. *)

\* Multiplying by a positive number keeps the order.
LEMMA TimesKeepsOrder ==
  ASSUME NEW p \in Nat \ {0}, NEW x \in Int, NEW y \in Int, x <= y
  PROVE  p * x <= p * y
  BY SMTT(30)

\* What the quotient is.
LEMMA DivBounds ==
  ASSUME NEW a \in Int, NEW p \in Nat \ {0}
  PROVE  /\ a \div p \in Int
         /\ p * (a \div p) <= a
         /\ a < p * (a \div p) + p
  BY SMTT(30)

\* An age is inside the window exactly when its number of seconds is: rounding
\* away from zero crosses neither edge.
LEMMA RoundingKeepsVerdict ==
  ASSUME NEW row \in Row, clock \in Stamps
  PROVE  IsFresh(row) <=> AgeSeconds(row) \in 0 .. Window
<1> DEFINE a == Age(row)
           w == Window
           p == PerSecond
<1>1. a \in Int /\ p \in Nat \ {0} /\ w \in Nat
  BY HeartbeatAssumption DEF Age, Row, Stamps, Nothing, Stamped
<1>2. IsFresh(row) <=> a >= 0 /\ a <= p * w
  BY <1>1 DEF IsFresh
<1>3. CASE a >= 0
  <2> DEFINE n == - ((- a) \div p)
  <2>1. AgeSeconds(row) = n
    BY <1>3 DEF AgeSeconds
  <2>2. n \in Int /\ a <= p * n /\ p * n < a + p
    <3>1. - a \in Int
      BY <1>1
    <3> DEFINE q == (- a) \div p
    <3>2. q \in Int /\ p * q <= - a /\ - a < p * q + p
      BY <3>1, <1>1, DivBounds
    <3>3. n = - q
      OBVIOUS
    <3> HIDE DEF q, n, a, p
    <3>4. p * n = - (p * q)
      BY <3>2, <3>3, <1>1, SMTT(30)
    <3>5. QED
      BY <3>2, <3>3, <3>4, <1>1
  <2> HIDE DEF n, a, p, w
  <2>3. n >= 0
    <3>1. n <= - 1 => p * n <= p * (- 1)
      BY <2>2, <1>1, TimesKeepsOrder
    <3>2. QED
      BY <3>1, <2>2, <1>1, <1>3
  <2>4. a <= p * w => n <= w
    <3>1. n >= w + 1 => p * (w + 1) <= p * n
      BY <2>2, <1>1, TimesKeepsOrder
    <3>2. p * (w + 1) = p * w + p /\ p * w \in Int
      BY <1>1
    <3>3. QED
      BY <3>1, <3>2, <2>2, <1>1
  <2>5. n <= w => a <= p * w
    <3>1. n <= w => p * n <= p * w
      BY <2>2, <1>1, TimesKeepsOrder
    <3>2. QED
      BY <3>1, <2>2, <1>1
  <2>6. IsFresh(row) <=> n \in 0 .. w
    BY <2>2, <2>3, <2>4, <2>5, <1>1, <1>2, <1>3
  <2>7. QED
    BY <2>1, <2>6 DEF w
<1>4. CASE a < 0
  <2> DEFINE n == a \div p
  <2>1. AgeSeconds(row) = n
    BY <1>4, <1>1 DEF AgeSeconds
  <2>2. n \in Int /\ p * n <= a
    BY <1>1, DivBounds
  <2> HIDE DEF n, a, p, w
  <2>3. n >= 0 => p * 0 <= p * n
    BY <2>2, <1>1, TimesKeepsOrder
  <2>4. n < 0
    BY <2>2, <2>3, <1>1, <1>4
  <2>5. QED
    BY <2>1, <2>2, <2>4, <1>1, <1>2, <1>4 DEF w
<1>5. QED
  BY <1>1, <1>3, <1>4

\* The rendered age and the verdict of a listed row never disagree.
THEOREM ViewsAlwaysAgree == Spec => []ViewsAgree
<1>1. IInv => ViewsAgree
  BY RoundingKeepsVerdict DEF IInv, TypeOK, ViewsAgree, View, Snapshot
<1>2. QED
  BY <1>1, HeartbeatInvariance, PTL

=============================================================================

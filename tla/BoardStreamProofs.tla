--------------------------- MODULE BoardStreamProofs ---------------------------
(***************************************************************************)
(* Proofs about BoardStream, for any number of streams, rows and changes.   *)
(*                                                                         *)
(* The properties rest on one fact the mutex of boardRenderer gives: at     *)
(* most one stream renders, and it renders for a generation the shared      *)
(* snapshot does not cover yet.                                             *)
(***************************************************************************)
EXTENDS BoardStream, TLAPS

\* Signals and the numbers they carry: a signal follows its write.
Counted ==
  /\ version \in 0 .. MaxWrites
  /\ owed \in 0 .. MaxWrites
  /\ generation \in 0 .. MaxWrites
  /\ owed + generation <= version
  /\ coverage \in [0 .. MaxWrites -> 0 .. MaxWrites]
  /\ \A g \in 0 .. generation : coverage[g] <= version

\* Where the streams are.
Placed ==
  /\ content \in Board
  /\ signal \in [Streams -> BOOLEAN]
  /\ page \in [Streams -> Board]
  /\ failures \in 0 .. MaxFailures
  /\ pc \in [Streams -> {"page", "woken", "asking", "waiting", "rendering",
                         "publishing", "pushing", "listening"}]
  /\ want \in [Streams -> 0 .. MaxWrites]
  /\ hand \in [Streams -> Snapshot \cup {NoSnapshot}]
  /\ shown \in [Streams -> Snapshot \cup {NoSnapshot}]
  /\ \A s \in Streams : want[s] <= generation
  /\ \A s \in Streams : pc[s] \in {"publishing", "pushing"} => hand[s] # NoSnapshot

\* One render at a time, and somebody runs it.
OneRender ==
  /\ refreshing \in Streams \cup {Nobody}
  /\ \A s \in Streams : pc[s] \in {"rendering", "publishing"} <=> refreshing = s
  /\ \A s \in Streams : pc[s] = "waiting" => refreshing # Nobody

\* The shared snapshot, and the one being rendered for a later generation.
Rendered ==
  /\ current \in Snapshot \cup {NoSnapshot}
  /\ seq \in Nat
  /\ renderedGeneration \in 0 .. generation
  /\ current = NoSnapshot => seq = 0
  /\ current # NoSnapshot => seq <= renderedGeneration + 1
  /\ current # NoSnapshot => current.asOf >= coverage[renderedGeneration]
  /\ \A s \in Streams : pc[s] \in {"rendering", "publishing"} => ~Covers(want[s])
  /\ \A s \in Streams : pc[s] = "publishing" => hand[s].asOf >= coverage[want[s]]

IInv == Counted /\ Placed /\ OneRender /\ Rendered

\* Everything starts empty.
LEMMA InitIInv == Init => IInv
PROOF
  <1> SUFFICES ASSUME Init PROVE IInv
    OBVIOUS
  <1> USE BoardAssumption DEF BoardAssumption, Init
  <1>1. Counted
    BY DEF Counted
  <1>2. Placed
    BY DEF Placed, Board
  <1>3. OneRender
    BY DEF OneRender
  <1>4. Rendered
    BY DEF Rendered
  <1> QED
    BY <1>1, <1>2, <1>3, <1>4 DEF IInv

\* A change of the board, signalled or silent, is later than everything rendered.
LEMMA ChangeKeepsIInv ==
  ASSUME IInv, NEW row \in Rows,
         SilentChange(row) \/ \E gone \in BOOLEAN : Commit(row, gone)
  PROVE  IInv'
PROOF
  <1> USE BoardAssumption DEF BoardAssumption, IInv
  <1>0. /\ version' = version + 1 /\ version < MaxWrites
        /\ owed' = owed \/ owed' = owed + 1
        /\ UNCHANGED <<notifierVars, rendererVars, streamVars, failures>>
    BY DEF SilentChange, Commit
  <1>b. content' \in Board
    <2>1. \E v \in 0 .. MaxWrites : content' = [content EXCEPT ![row] = v]
      BY SMTT(30) DEF SilentChange, Commit, Counted
    <2> QED
      BY <2>1 DEF Placed, Board
  <1>1. Counted'
    <2>1. version' \in 0 .. MaxWrites /\ owed' \in 0 .. MaxWrites /\ owed' + generation <= version'
      <3>1. version \in Nat /\ owed \in Nat /\ generation \in Nat /\ owed + generation <= version
        BY DEF Counted
      <3> QED
        BY <1>0, <3>1
    <2>2. ASSUME NEW g \in 0 .. generation PROVE coverage[g] <= version'
      <3>1. coverage[g] \in Nat /\ coverage[g] <= version /\ version \in Nat
        BY DEF Counted
      <3> QED
        BY <1>0, <3>1
    <2> QED
      BY <1>0, <2>1, <2>2 DEF Counted, notifierVars
  <1>2. Placed'
    BY <1>0, <1>b DEF Placed, notifierVars, streamVars
  <1>3. OneRender'
    BY <1>0 DEF OneRender, rendererVars, streamVars
  <1>4. Rendered'
    BY <1>0 DEF Rendered, Covers, notifierVars, rendererVars, streamVars
  <1> QED
    BY <1>1, <1>2, <1>3, <1>4

\* A new generation is later than every generation asked for or rendered.
LEMMA NotifyKeepsIInv ==
  ASSUME IInv, Notify
  PROVE  IInv'
PROOF
  <1> USE BoardAssumption DEF BoardAssumption, IInv, Notify
  <1>1. Counted'
    BY SMTT(30) DEF Counted
  <1>2. Placed'
    <2>1. signal' \in [Streams -> BOOLEAN]
      <3>1. \A s \in Streams : (signal[s] \/ s \in Signalled) \in BOOLEAN
        BY Zenon
      <3> QED
        BY <3>1, Zenon
    <2>2. \A s \in Streams : want[s] <= generation'
      BY DEF Placed, Counted
    <2> QED
      BY <2>1, <2>2 DEF Placed, streamVars
  <1>3. OneRender'
    BY DEF OneRender, rendererVars, streamVars
  <1>g. \A g \in 0 .. generation : coverage'[g] = coverage[g]
    BY DEF Counted
  <1>4. Rendered'
    <2>1. renderedGeneration \in 0 .. generation'
      BY DEF Rendered, Counted
    <2>2. coverage'[renderedGeneration] = coverage[renderedGeneration]
      BY <1>g DEF Rendered
    <2>3. \A s \in Streams : coverage'[want[s]] = coverage[want[s]]
      BY <1>g DEF Placed, Counted
    <2> QED
      BY <2>1, <2>2, <2>3 DEF Rendered, Covers, rendererVars, streamVars
  <1> QED
    BY <1>1, <1>2, <1>3, <1>4

\* A step that leaves the writes, the signals' numbers and the renderer alone,
\* and in which no stream starts or stops rendering or waiting.
LEMMA QuietKeepsIInv ==
  ASSUME IInv,
         UNCHANGED <<version, owed, generation, coverage, rendererVars>>,
         Placed',
         \A s \in Streams :
           \/ pc'[s] = pc[s] /\ want'[s] = want[s] /\ hand'[s] = hand[s]
           \/ pc[s] \notin {"rendering", "publishing"}
              /\ pc'[s] \notin {"rendering", "publishing", "waiting"}
           \/ pc[s] = "asking" /\ pc'[s] = "waiting" /\ refreshing # Nobody
  PROVE  IInv'
PROOF
  <1> USE DEF IInv, rendererVars
  <1>1. Counted'
    BY DEF Counted
  <1>2. OneRender'
    <2>1. refreshing' \in Streams \cup {Nobody}
      BY DEF OneRender
    <2>2. \A s \in Streams : pc'[s] \in {"rendering", "publishing"} <=> pc[s] \in {"rendering", "publishing"}
      OBVIOUS
    <2>3. \A s \in Streams : pc'[s] = "waiting" => pc[s] = "waiting" \/ refreshing # Nobody
      OBVIOUS
    <2> QED
      BY <2>1, <2>2, <2>3 DEF OneRender
  <1>3. Rendered'
    BY DEF Rendered, Covers
  <1> QED
    BY <1>1, <1>2, <1>3

\* Opening, loading, waking, asking, pushing and breaking leave the renderer to
\* whoever runs it.
LEMMA StreamKeepsIInv ==
  ASSUME IInv, NEW s \in Streams,
         \/ LoadPage(s) \/ Connect(s) \/ Wake(s) \/ ReadGeneration(s)
         \/ TakeCurrent(s) \/ JoinRefresh(s) \/ Push(s) \/ Break(s)
  PROVE  IInv'
PROOF
  <1> USE BoardAssumption DEF BoardAssumption, IInv
  <1>z. 0 \in 0 .. MaxWrites /\ generation \in 0 .. MaxWrites
        /\ generation <= generation /\ 0 <= generation
    BY DEF Counted
  <1>1. CASE LoadPage(s)
    <2>1. Placed'
      BY <1>1 DEF LoadPage, Placed, notifierVars, storeVars
    <2> QED
      BY <1>1, <2>1, QuietKeepsIInv DEF LoadPage, notifierVars, storeVars
  <1>2. CASE Connect(s)
    <2>1. Placed'
      BY <1>2 DEF Connect, Placed, notifierVars, storeVars
    <2> QED
      BY <1>2, <2>1, QuietKeepsIInv DEF Connect, Placed, notifierVars, storeVars
  <1>3. CASE Wake(s)
    <2>1. Placed'
      BY <1>3 DEF Wake, Placed, notifierVars, storeVars
    <2> QED
      BY <1>3, <2>1, QuietKeepsIInv DEF Wake, Placed, notifierVars, storeVars
  <1>4. CASE ReadGeneration(s)
    <2>1. Placed'
      BY <1>4, <1>z DEF ReadGeneration, Placed, notifierVars, storeVars
    <2> QED
      BY <1>4, <2>1, QuietKeepsIInv DEF ReadGeneration, Placed, notifierVars, storeVars
  <1>5. CASE TakeCurrent(s)
    <2>1. current \in Snapshot /\ current # NoSnapshot
      BY <1>5 DEF TakeCurrent, Covers, Rendered
    <2>2. Placed'
      BY <1>5, <1>z, <2>1 DEF TakeCurrent, Placed, notifierVars, storeVars
    <2> QED
      BY <1>5, <2>2, QuietKeepsIInv DEF TakeCurrent, Placed, notifierVars, storeVars
  <1>6. CASE JoinRefresh(s)
    <2>1. Placed'
      BY <1>6 DEF JoinRefresh, Placed, notifierVars, storeVars
    <2> QED
      BY <1>6, <2>1, QuietKeepsIInv DEF JoinRefresh, Idle, Placed, notifierVars, storeVars
  <1>d. ASSUME hand[s] # NoSnapshot, NEW sent PROVE Displayed(s, sent) \in Board
    <2>1. hand[s].rows \in Board /\ page[s] \in Board
      BY <1>d DEF Placed, Snapshot
    <2> QED
      BY <2>1 DEF Displayed, Board
  <1>7. CASE Push(s)
    <2>1. hand[s] # NoSnapshot /\ hand[s] \in Snapshot \cup {NoSnapshot}
      BY <1>7 DEF Push, Placed
    <2>2. Displayed(s, Diff(s)) \in Board
      BY <2>1, <1>d
    <2>3. Placed'
      BY <1>7, <2>1, <2>2 DEF Push, Placed, notifierVars, storeVars
    <2> QED
      BY <1>7, <2>3, QuietKeepsIInv DEF Push, Placed, notifierVars, storeVars
  <1>8. CASE Break(s)
    <2>1. PICK sent \in SUBSET (IF pc[s] = "pushing" THEN Diff(s) ELSE {}) :
            page' = [page EXCEPT ![s] = Displayed(s, sent)]
      BY <1>8 DEF Break
    <2>2. Displayed(s, sent) \in Board
      <3>1. CASE pc[s] = "pushing"
        BY <3>1, <1>d DEF Placed
      <3>2. CASE pc[s] # "pushing"
        <4>1. page[s] \in Board /\ sent = {}
          BY <2>1, <3>2 DEF Placed
        <4> QED
          BY <4>1 DEF Displayed, Board
      <3> QED
        BY <3>1, <3>2
    <2>3. page' \in [Streams -> Board]
      BY <2>1, <2>2 DEF Placed
    <2>4. Placed'
      BY <1>8, <1>z, <2>3 DEF Break, Placed, notifierVars, storeVars
    <2> QED
      BY <1>8, <2>4, QuietKeepsIInv DEF Break, MayBreak, Placed, notifierVars, storeVars
  <1> QED
    BY <1>1, <1>2, <1>3, <1>4, <1>5, <1>6, <1>7, <1>8

\* The stream that finds nobody rendering becomes the one that renders.
LEMMA StartRenderKeepsIInv ==
  ASSUME IInv, NEW s \in Streams, StartRender(s)
  PROVE  IInv'
PROOF
  <1> USE BoardAssumption DEF BoardAssumption, IInv, StartRender
  <1>1. Counted'
    BY DEF Counted, storeVars, notifierVars
  <1>2. Placed'
    BY DEF Placed, storeVars, notifierVars
  <1>3. OneRender'
    BY DEF OneRender, Placed, Idle
  <1>4. Rendered'
    BY DEF Rendered, Covers, Placed, OneRender, Idle, storeVars, notifierVars
  <1> QED
    BY <1>1, <1>2, <1>3, <1>4

\* What is read now holds every write signalled so far, the generation asked
\* for included; and the snapshot's number stays in range.
LEMMA RenderReadKeepsIInv ==
  ASSUME IInv, NEW s \in Streams, RenderRead(s)
  PROVE  IInv'
PROOF
  <1> USE BoardAssumption DEF BoardAssumption, IInv, RenderRead
  <1> DEFINE fresh == [seq |-> NextSeq, rows |-> content, asOf |-> version]
  <1>n. /\ generation \in Nat /\ generation <= MaxWrites
        /\ renderedGeneration \in Nat /\ seq \in Nat
        /\ want[s] \in Nat /\ want[s] <= generation
    BY DEF Counted, Placed, Rendered
  <1>q. seq + 1 \in 1 .. MaxWrites + 1
    <2>1. ~Covers(want[s])
      BY DEF Rendered
    <2>2. CASE current = NoSnapshot
      BY <1>n, <2>2 DEF Rendered
    <2>3. CASE current # NoSnapshot
      <3>1. renderedGeneration < want[s] /\ seq <= renderedGeneration + 1
        BY <1>n, <2>1, <2>3 DEF Covers, Rendered
      <3> QED
        BY <1>n, <3>1
    <2> QED
      BY <2>2, <2>3
  <1>f. fresh \in Snapshot
    BY <1>q DEF Snapshot, Placed, Counted, NextSeq
  <1>g. fresh.asOf >= coverage[want[s]]
    <2>0. want[s] \in 0 .. generation /\ want[s] \in 0 .. MaxWrites
      BY <1>n
    <2>1. coverage[want[s]] <= version
      BY <2>0 DEF Counted
    <2>2. coverage[want[s]] \in 0 .. MaxWrites /\ version \in 0 .. MaxWrites
      BY <2>0 DEF Counted
    <2> QED
      BY <2>1, <2>2
  <1>h. hand' = [hand EXCEPT ![s] = fresh] /\ hand'[s] = fresh
    BY DEF Placed
  <1> HIDE DEF fresh
  <1>1. Counted'
    BY DEF Counted, storeVars, notifierVars
  <1>2. Placed'
    BY <1>f, <1>h DEF Placed, storeVars, notifierVars
  <1>3. OneRender'
    BY DEF OneRender, Placed, rendererVars
  <1>4. Rendered'
    <2>1. \A t \in Streams : pc'[t] = "publishing" => hand'[t].asOf >= coverage[want[t]]
      BY <1>g, <1>h DEF Rendered, Placed
    <2>2. \A t \in Streams : pc'[t] \in {"rendering", "publishing"} => ~Covers(want[t])
      BY DEF Rendered, Placed
    <2> QED
      BY <2>1, <2>2 DEF Rendered, Covers, storeVars, notifierVars, rendererVars
  <1> QED
    BY <1>1, <1>2, <1>3, <1>4

\* Publishing moves the rendered generation forward by at least one, which pays
\* for the one render it counts.
LEMMA PublishKeepsIInv ==
  ASSUME IInv, NEW s \in Streams, Publish(s)
  PROVE  IInv'
PROOF
  <1> USE BoardAssumption DEF BoardAssumption, IInv, Publish
  <1>n. /\ generation \in Nat /\ renderedGeneration \in Nat /\ seq \in Nat
        /\ want[s] \in 0 .. MaxWrites /\ want[s] <= generation
        /\ hand[s] \in Snapshot /\ hand[s] # NoSnapshot
    BY DEF Counted, Placed, Rendered
  <1>1. Counted'
    BY DEF Counted, storeVars, notifierVars
  <1>2. Placed'
    <2>0. 0 \in 0 .. MaxWrites /\ 0 <= generation
      BY DEF Counted
    <2>1. /\ want' \in [Streams -> 0 .. MaxWrites]
          /\ \A t \in Streams : want'[t] <= generation
      BY <2>0 DEF Placed
    <2>2. pc' \in [Streams -> {"page", "woken", "asking", "waiting", "rendering",
                               "publishing", "pushing", "listening"}]
      BY DEF Placed
    <2>3. \A t \in Streams : pc'[t] \in {"publishing", "pushing"} => hand[t] # NoSnapshot
      BY <1>n DEF Placed
    <2> QED
      BY <2>1, <2>2, <2>3 DEF Placed, storeVars, notifierVars
  <1>3. OneRender'
    <2>1. \A t \in Streams : pc'[t] \notin {"rendering", "publishing", "waiting"}
      BY DEF OneRender, Placed
    <2> QED
      BY <2>1 DEF OneRender
  <1>4. Rendered'
    <2>1. seq' <= renderedGeneration' + 1 /\ seq' \in Nat
      <3>1. ~Covers(want[s])
        BY DEF Rendered
      <3>2. CASE current = NoSnapshot
        BY <1>n, <3>2 DEF Rendered, NextSeq, Stamp
      <3>3. CASE current # NoSnapshot
        <4>1. renderedGeneration < want[s] /\ seq <= renderedGeneration + 1
          BY <1>n, <3>1, <3>3 DEF Covers, Rendered
        <4> QED
          BY <1>n, <4>1 DEF NextSeq, Stamp
      <3> QED
        BY <3>2, <3>3
    <2>2. renderedGeneration' \in 0 .. generation
      BY <1>n DEF Stamp
    <2>3. hand[s].asOf >= coverage[want[s]]
      BY DEF Rendered
    <2>4. \A t \in Streams : pc'[t] \notin {"rendering", "publishing"}
      BY DEF OneRender, Placed
    <2> QED
      BY <1>n, <2>1, <2>2, <2>3, <2>4 DEF Rendered, Stamp, storeVars, notifierVars
  <1> QED
    BY <1>1, <1>2, <1>3, <1>4

\* A failed render ends the streams that depended on it and nothing else.
LEMMA RenderFailsKeepsIInv ==
  ASSUME IInv, NEW s \in Streams, RenderFails(s)
  PROVE  IInv'
PROOF
  <1> USE BoardAssumption DEF BoardAssumption, IInv, RenderFails
  <1>1. Counted'
    BY DEF Counted, storeVars
  <1>2. Placed'
    <2>1. /\ pc' \in [Streams -> {"page", "woken", "asking", "waiting", "rendering",
                                  "publishing", "pushing", "listening"}]
          /\ shown' \in [Streams -> Snapshot \cup {NoSnapshot}]
          /\ hand' \in [Streams -> Snapshot \cup {NoSnapshot}]
      BY DEF Placed
    <2>2. signal' \in [Streams -> BOOLEAN]
      BY DEF Placed
    <2>0. 0 \in 0 .. MaxWrites /\ 0 <= generation
      BY DEF Counted
    <2>3. /\ want' \in [Streams -> 0 .. MaxWrites]
          /\ \A t \in Streams : want'[t] <= generation
      BY <2>0 DEF Placed
    <2>4. \A t \in Streams : pc'[t] \in {"publishing", "pushing"} => hand'[t] # NoSnapshot
      BY DEF Placed
    <2>5. failures' \in 0 .. MaxFailures
      BY DEF Placed
    <2> QED
      BY <2>1, <2>2, <2>3, <2>4, <2>5 DEF Placed, storeVars
  <1>3. OneRender'
    <2>1. \A t \in Streams : pc'[t] \notin {"rendering", "publishing", "waiting"}
      BY DEF OneRender, Placed
    <2> QED
      BY <2>1 DEF OneRender
  <1>4. Rendered'
    <2>1. \A t \in Streams : pc'[t] \notin {"rendering", "publishing"}
      BY DEF OneRender, Placed
    <2> QED
      BY <2>1 DEF Rendered, storeVars
  <1> QED
    BY <1>1, <1>2, <1>3, <1>4

\* A restart starts the numbers over; what the first generation covers is what
\* the store held then.
LEMMA RestartKeepsIInv ==
  ASSUME IInv, Restart
  PROVE  IInv'
PROOF
  <1> USE BoardAssumption DEF BoardAssumption, IInv, Restart
  <1>1. Counted'
    BY DEF Counted
  <1>2. Placed'
    <2>1. failures' \in 0 .. MaxFailures
      BY DEF Placed
    <2> QED
      BY <2>1 DEF Placed
  <1>3. OneRender'
    BY DEF OneRender
  <1>4. Rendered'
    BY DEF Rendered
  <1> QED
    BY <1>1, <1>2, <1>3, <1>4

-----------------------------------------------------------------------------
\* Every step keeps the invariant.
LEMMA NextIInv == IInv /\ [Next]_vars => IInv'
PROOF
  <1> SUFFICES ASSUME IInv, [Next]_vars PROVE IInv'
    OBVIOUS
  <1>1. CASE UNCHANGED vars
    BY <1>1 DEF vars, storeVars, notifierVars, rendererVars, streamVars,
                IInv, Counted, Placed, OneRender, Rendered, Covers
  <1>2. CASE Next
    BY <1>2, ChangeKeepsIInv, NotifyKeepsIInv, StreamKeepsIInv, StartRenderKeepsIInv,
       RenderReadKeepsIInv, PublishKeepsIInv, RenderFailsKeepsIInv, RestartKeepsIInv
    DEF Next, Handle
  <1> QED
    BY <1>1, <1>2

\* The invariant holds in every reachable state.
LEMMA Invariance == Spec => []IInv
PROOF
  BY InitIInv, NextIInv, PTL DEF Spec

\* The shared snapshot is never stamped with a generation it does not cover, so
\* a stream that is handed it misses no write that was signalled by then.
THEOREM CurrentAlwaysCovers == Spec => []CurrentCovers
PROOF
  <1>1. IInv => CurrentCovers
    BY DEF IInv, Rendered, CurrentCovers
  <1> QED
    BY <1>1, Invariance, PTL

\* Whatever the number of streams, renders are bounded by changes.
THEOREM RendersBounded == Spec => []RendersOncePerChange
PROOF
  <1>1. ASSUME IInv PROVE RendersOncePerChange
    <2>1. seq \in Nat /\ generation \in Nat /\ renderedGeneration \in Nat
          /\ renderedGeneration <= generation
      BY <1>1 DEF IInv, Rendered, Counted
    <2>2. seq = 0 \/ seq <= renderedGeneration + 1
      BY <1>1 DEF IInv, Rendered
    <2> QED
      BY <2>1, <2>2 DEF RendersOncePerChange
  <1> QED
    BY <1>1, Invariance, PTL

\* No stream is left waiting for a render nobody runs.
THEOREM WaitersHaveRenderer == Spec => []NobodyWaitsForNothing
PROOF
  <1>1. IInv => NobodyWaitsForNothing
    BY DEF IInv, OneRender, NobodyWaitsForNothing
  <1> QED
    BY <1>1, Invariance, PTL

\* Every number, place and snapshot keeps its type; the bound on the snapshots'
\* numbers is the bound on renders.
THEOREM TypeCorrect == Spec => []TypeOK
PROOF
  <1>1. ASSUME IInv PROVE TypeOK
    <2>1. seq \in Nat /\ generation \in Nat /\ renderedGeneration \in Nat
          /\ renderedGeneration <= generation /\ generation <= MaxWrites
      BY <1>1, BoardAssumption DEF IInv, Rendered, Counted, BoardAssumption
    <2>2. seq = 0 \/ seq <= renderedGeneration + 1
      BY <1>1 DEF IInv, Rendered
    <2>3. seq \in 0 .. MaxWrites + 1 /\ renderedGeneration \in 0 .. MaxWrites
      BY <2>1, <2>2, BoardAssumption DEF BoardAssumption
    <2> QED
      BY <1>1, <2>3 DEF TypeOK, IInv, Counted, Placed, OneRender, Rendered
  <1> QED
    BY <1>1, Invariance, PTL

-----------------------------------------------------------------------------
(* The order of what a page is shown. *)

Before(x, y) == x.asOf <= y.asOf /\ x.seq <= y.seq

\* The snapshot being rendered is later than the shared one, which is as late
\* as any a stream is about to push or has applied.
Ordered ==
  /\ current # NoSnapshot => current.asOf <= version /\ current.seq = seq
  /\ \A s \in Streams : shown[s] # NoSnapshot =>
       current # NoSnapshot /\ Before(shown[s], current)
  /\ \A s \in Streams : pc[s] = "pushing" =>
       /\ current # NoSnapshot /\ Before(hand[s], current)
       /\ shown[s] # NoSnapshot => Before(shown[s], hand[s])
  /\ \A s \in Streams : pc[s] = "publishing" =>
       /\ hand[s].asOf <= version /\ hand[s].seq = seq + 1
       /\ current # NoSnapshot => Before(current, hand[s])

\* What is read is as late as anything read before it.
LEMMA RenderReadKeepsOrder ==
  ASSUME IInv, Ordered, NEW s \in Streams, RenderRead(s)
  PROVE  Ordered'
PROOF
  <1> USE DEF RenderRead
  <1> DEFINE fresh == [seq |-> NextSeq, rows |-> content, asOf |-> version]
  <1>1. hand' = [hand EXCEPT ![s] = fresh] /\ hand \in [Streams -> Snapshot \cup {NoSnapshot}]
        /\ pc' = [pc EXCEPT ![s] = "publishing"] /\ pc = [t \in Streams |-> pc[t]]
    BY DEF IInv, Placed
  <1>2. fresh.asOf = version /\ fresh.seq = seq + 1
    BY DEF NextSeq
  <1>3. version \in Nat /\ seq \in Nat
    BY BoardAssumption DEF IInv, Counted, Rendered, BoardAssumption
  <1>4. current # NoSnapshot => Before(current, fresh)
    BY <1>2, <1>3 DEF Ordered, Before
  <1> HIDE DEF fresh
  <1> QED
    BY <1>1, <1>2, <1>3, <1>4 DEF Ordered, storeVars, notifierVars, rendererVars

\* Only the one stream that renders publishes, and what it publishes is later
\* than everything published before.
LEMMA PublishKeepsOrder ==
  ASSUME IInv, Ordered, NEW s \in Streams, Publish(s)
  PROVE  Ordered'
PROOF
  <1> USE DEF Publish
  <1>1. /\ hand[s] \in Snapshot /\ hand[s] # NoSnapshot
        /\ hand[s].asOf <= version /\ hand[s].seq = seq + 1
        /\ current # NoSnapshot => Before(current, hand[s])
    BY DEF IInv, Placed, Ordered
  <1>2. \A t \in Streams : pc[t] = "publishing" => t = s
    BY DEF IInv, OneRender
  <1>3. hand[s].asOf \in Nat /\ hand[s].seq \in Nat
    BY <1>1, BoardAssumption DEF Snapshot, BoardAssumption
  <1>4. /\ \A x \in Snapshot : x.asOf \in Nat /\ x.seq \in Nat
        /\ hand \in [Streams -> Snapshot \cup {NoSnapshot}]
        /\ shown \in [Streams -> Snapshot \cup {NoSnapshot}]
        /\ current \in Snapshot \cup {NoSnapshot}
        /\ pc = [t \in Streams |-> pc[t]]
    BY BoardAssumption DEF Snapshot, BoardAssumption, IInv, Placed, Rendered
  <1>5. \A x \in Snapshot : current # NoSnapshot /\ Before(x, current) => Before(x, hand[s])
    BY <1>1, <1>4 DEF Before
  <1>6. current'.asOf <= version' /\ current'.seq = seq' /\ current' # NoSnapshot
    BY <1>1 DEF NextSeq, storeVars
  <1>7. \A t \in Streams : shown'[t] # NoSnapshot => Before(shown'[t], current')
    BY <1>4, <1>5 DEF Ordered
  <1>8. ASSUME NEW t \in Streams, pc'[t] = "pushing"
        PROVE  /\ Before(hand'[t], current')
               /\ shown'[t] # NoSnapshot => Before(shown'[t], hand'[t])
    <2>1. CASE t = s
      BY <1>3, <1>7, <2>1 DEF Before
    <2>2. CASE t # s
      <3>1. pc[t] = "pushing" /\ hand[t] \in Snapshot
        BY <1>4, <1>8, <2>2 DEF IInv, Placed
      <3> QED
        BY <1>5, <3>1 DEF Ordered
    <2> QED
      BY <2>1, <2>2
  <1>9. \A t \in Streams : pc'[t] # "publishing"
    BY <1>2, <1>4
  <1> QED
    BY <1>6, <1>7, <1>8, <1>9 DEF Ordered

\* The other steps publish nothing: they hand out the shared snapshot, apply
\* what was handed out, or forget.
LEMMA NextOrdered ==
  ASSUME IInv, Ordered, [Next]_vars
  PROVE  Ordered'
PROOF
  <1>t. /\ \A x \in Snapshot : x.asOf \in Nat /\ x.seq \in Nat
        /\ hand \in [Streams -> Snapshot \cup {NoSnapshot}]
        /\ shown \in [Streams -> Snapshot \cup {NoSnapshot}]
        /\ current \in Snapshot \cup {NoSnapshot}
        /\ version \in Nat
        /\ pc = [t \in Streams |-> pc[t]]
    <2>1. \A x \in Snapshot : x.asOf \in Nat /\ x.seq \in Nat
      BY BoardAssumption DEF Snapshot, BoardAssumption
    <2>2. version \in Nat
      BY BoardAssumption DEF BoardAssumption, IInv, Counted
    <2> QED
      BY <2>1, <2>2 DEF IInv, Placed, Rendered
  <1>1. ASSUME NEW row \in Rows,
               SilentChange(row) \/ \E gone \in BOOLEAN : Commit(row, gone)
        PROVE  Ordered'
    <2>1. version' = version + 1 /\ UNCHANGED <<rendererVars, streamVars>>
      BY <1>1 DEF SilentChange, Commit
    <2>2. \A s \in Streams : pc[s] = "publishing" => hand[s] \in Snapshot
      BY <1>t DEF IInv, Placed
    <2> QED
      BY <1>t, <2>1, <2>2 DEF Ordered, rendererVars, streamVars
  <1>2. CASE Notify \/ UNCHANGED vars
    BY <1>2 DEF Notify, vars, storeVars, rendererVars, streamVars, Ordered
  <1>3. ASSUME NEW s \in Streams,
               LoadPage(s) \/ Connect(s) \/ Wake(s) \/ ReadGeneration(s)
               \/ JoinRefresh(s) \/ StartRender(s)
        PROVE  Ordered'
    BY <1>3, <1>t DEF LoadPage, Connect, Wake, ReadGeneration, JoinRefresh, StartRender,
                Ordered, storeVars, notifierVars, rendererVars
  <1>4. ASSUME NEW s \in Streams, TakeCurrent(s) PROVE Ordered'
    BY <1>4, <1>t DEF TakeCurrent, Covers, Ordered, Before, storeVars, rendererVars
  <1>5. ASSUME NEW s \in Streams, Push(s) PROVE Ordered'
    BY <1>5, <1>t DEF Push, Ordered, storeVars, rendererVars
  <1>6. ASSUME NEW s \in Streams, Break(s) PROVE Ordered'
    BY <1>6, <1>t DEF Break, Ordered, storeVars, rendererVars
  <1>7. ASSUME NEW s \in Streams, RenderFails(s) PROVE Ordered'
    BY <1>7, <1>t DEF RenderFails, Ordered, storeVars
  <1>8. CASE Restart
    BY <1>8 DEF Restart, Ordered
  <1>9. ASSUME NEW s \in Streams, RenderRead(s) \/ Publish(s) PROVE Ordered'
    BY <1>9, RenderReadKeepsOrder, PublishKeepsOrder
  <1> QED
    BY <1>1, <1>2, <1>3, <1>4, <1>5, <1>6, <1>7, <1>8, <1>9 DEF Next, Handle

\* However renders, joins and pushes of any number of streams interleave, a page
\* that stays connected is never taken back to an older board.
THEOREM ShownAlwaysAdvances == Spec => ShownAdvances
PROOF
  <1>1. Init => Ordered
    BY DEF Init, Ordered
  <1>2. ASSUME IInv, Ordered, [Next]_vars, NEW s \in Streams,
               shown[s] # NoSnapshot, shown'[s] # NoSnapshot
        PROVE  shown'[s].asOf >= shown[s].asOf /\ shown'[s].seq >= shown[s].seq
    <2>t. /\ \A x \in Snapshot : x.asOf \in Nat /\ x.seq \in Nat
          /\ hand \in [Streams -> Snapshot \cup {NoSnapshot}]
          /\ shown \in [Streams -> Snapshot \cup {NoSnapshot}]
      BY <1>2, BoardAssumption DEF Snapshot, BoardAssumption, IInv, Placed
    <2>1. ASSUME Push(s) PROVE Before(shown[s], shown'[s])
      BY <1>2, <2>1, <2>t DEF Push, Ordered
    <2>2. shown'[s] = shown[s] \/ Push(s)
      <3>1. ASSUME NEW t \in Streams,
                   Wake(t) \/ ReadGeneration(t) \/ TakeCurrent(t) \/ JoinRefresh(t)
                   \/ StartRender(t) \/ RenderRead(t) \/ Publish(t) \/ LoadPage(t) \/ Connect(t)
            PROVE  shown' = shown
        BY <3>1 DEF Wake, ReadGeneration, TakeCurrent, JoinRefresh, StartRender, RenderRead,
                    Publish, LoadPage, Connect
      <3>2. ASSUME NEW t \in Streams, Push(t) \/ Break(t) \/ RenderFails(t)
            PROVE  shown'[s] = shown[s] \/ Push(s)
        BY <1>2, <2>t, <3>2 DEF Push, Break, RenderFails
      <3>3. ASSUME Notify \/ (\E row \in Rows : SilentChange(row) \/ \E gone \in BOOLEAN : Commit(row, gone))
                   \/ UNCHANGED vars
            PROVE  shown' = shown
        BY <3>3 DEF Notify, SilentChange, Commit, vars, streamVars
      <3>4. CASE Restart
        BY <1>2, <3>4 DEF Restart
      <3> QED
        BY <1>2, <3>1, <3>2, <3>3, <3>4 DEF Next, Handle
    <2>3. shown[s] \in Snapshot /\ shown'[s] = shown[s] =>
            shown'[s].asOf >= shown[s].asOf /\ shown'[s].seq >= shown[s].seq
      BY <2>t
    <2>4. hand[s] \in Snapshot \/ ~Push(s)
      BY <1>2, <2>t DEF Push, IInv, Placed
    <2> QED
      BY <1>2, <2>1, <2>2, <2>3, <2>4, <2>t DEF Before, Push
  <1>3. IInv /\ Ordered /\ [Next]_vars =>
          [ \A s \in Streams : shown[s] # NoSnapshot /\ shown'[s] # NoSnapshot =>
              /\ shown'[s].asOf >= shown[s].asOf
              /\ shown'[s].seq >= shown[s].seq ]_vars
    BY <1>2
  <1>4. IInv /\ Ordered /\ [Next]_vars => Ordered'
    BY NextOrdered
  <1> QED
    BY <1>1, <1>3, <1>4, Invariance, PTL DEF Spec, ShownAdvances

==============================================================================

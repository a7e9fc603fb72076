----------------------------- MODULE BoardStream -----------------------------
(***************************************************************************)
(* The board's live channel: the notifying decorator of the store, the      *)
(* change notifier, the renderer every stream shares, and the streams that  *)
(* send a page what changed.                                                *)
(*                                                                         *)
(* A row is abstracted to the number of the write that last set it, 0 when  *)
(* the board does not hold it, so a snapshot is a function from rows to     *)
(* numbers together with the number of the last write it can have seen.     *)
(***************************************************************************)
EXTENDS Naturals

CONSTANTS
  Streams,      \* open board pages, each with at most one connection
  Rows,         \* item ids on the board
  MaxWrites,    \* bound on changes to the board
  MaxFailures,  \* bound on failed renders and process restarts
  NoSnapshot,   \* nil *boardSnapshot
  Nobody        \* nil *boardRefresh

Board == [Rows -> 0 .. MaxWrites]

Snapshot == [seq : 1 .. MaxWrites + 1, rows : Board, asOf : 0 .. MaxWrites]

ASSUME BoardAssumption ==
  /\ Nobody \notin Streams
  /\ NoSnapshot \notin Snapshot
  /\ MaxWrites \in Nat
  /\ MaxFailures \in Nat

VARIABLES
  content,             \* the rows a ReadBoard would return
  version,             \* changes to the board so far
  owed,                \* committed writes whose Notify is still to come
  generation,          \* calls to Notify since the process started
  coverage,            \* the version each generation was reached at
  signal,              \* whether a stream's channel holds an unread signal
  seq,                 \* completed renders since the process started
  current,             \* the shared snapshot
  renderedGeneration,  \* the generation current was rendered for
  refreshing,          \* the stream running the render in flight
  pc,                  \* where each stream is
  want,                \* the generation a stream asked the renderer for
  hand,                \* the snapshot a stream is rendering or about to push
  shown,               \* the last snapshot a stream applied
  page,                \* what the page displays
  failures             \* failed renders and restarts so far

storeVars == <<content, version, owed>>
notifierVars == <<generation, coverage, signal>>
rendererVars == <<seq, current, renderedGeneration, refreshing>>
streamVars == <<pc, want, hand, shown, page>>
vars == <<storeVars, notifierVars, rendererVars, streamVars, failures>>

\* A stream is subscribed from the moment its handler starts to its return.
Attached == { s \in Streams : pc[s] # "page" }

-----------------------------------------------------------------------------
(* The store's side. *)

\* A successful operation of the notifying store has committed; its Notify
\* comes next, and other writers and readers run in between.
Commit(row, gone) ==
  /\ version < MaxWrites
  /\ version' = version + 1
  /\ content' = [content EXCEPT ![row] = IF gone THEN 0 ELSE version + 1]
  /\ owed' = owed + 1
  /\ UNCHANGED <<notifierVars, rendererVars, streamVars, failures>>

\* A prune inside somebody's read, a producer's exit or a passed deadline takes
\* a row off the board and signals nobody.
SilentChange(row) ==
  /\ version < MaxWrites
  /\ content[row] # 0
  /\ version' = version + 1
  /\ content' = [content EXCEPT ![row] = 0]
  /\ UNCHANGED <<owed, notifierVars, rendererVars, streamVars, failures>>

\* Defect: the channel has no buffer, so only a stream that is waiting hears.
SignalledListening == { s \in Streams : pc[s] = "listening" }

Signalled == Attached

\* One generation per call; a stream that holds a signal keeps the one it has.
Notify ==
  /\ owed > 0
  /\ owed' = owed - 1
  /\ generation' = generation + 1
  /\ coverage' = [coverage EXCEPT ![generation + 1] = version]
  /\ signal' = [s \in Streams |-> signal[s] \/ s \in Signalled]
  /\ UNCHANGED <<content, version, rendererVars, streamVars, failures>>

-----------------------------------------------------------------------------
(* A stream. *)

\* The page handler renders the board itself; the stream is opened later.
LoadPage(s) ==
  /\ pc[s] = "page"
  /\ page' = [page EXCEPT ![s] = content]
  /\ UNCHANGED <<storeVars, notifierVars, rendererVars, pc, want, hand, shown, failures>>

\* Subscribe, with a fresh channel; the baseline is asked for next.
Connect(s) ==
  /\ pc[s] = "page"
  /\ pc' = [pc EXCEPT ![s] = "woken"]
  /\ UNCHANGED <<storeVars, notifierVars, rendererVars, want, hand, shown, page, failures>>

Wake(s) ==
  /\ pc[s] = "listening"
  /\ signal[s]
  /\ signal' = [signal EXCEPT ![s] = FALSE]
  /\ pc' = [pc EXCEPT ![s] = "woken"]
  /\ UNCHANGED <<storeVars, generation, coverage, rendererVars, want, hand, shown, page, failures>>

\* The generation is read after waking, and after subscribing.
ReadGeneration(s) ==
  /\ pc[s] = "woken"
  /\ want' = [want EXCEPT ![s] = generation]
  /\ pc' = [pc EXCEPT ![s] = "asking"]
  /\ UNCHANGED <<storeVars, notifierVars, rendererVars, hand, shown, page, failures>>

\* Only what differs from the last board this stream applied is sent; the
\* baseline is not sent at all.
Diff(s) ==
  IF shown[s] = NoSnapshot \/ hand[s].seq = shown[s].seq THEN {}
  ELSE { row \in Rows : hand[s].rows[row] # shown[s].rows[row] }

Displayed(s, sent) ==
  [row \in Rows |-> IF row \in sent THEN hand[s].rows[row] ELSE page[s][row]]

Push(s) ==
  /\ pc[s] = "pushing"
  /\ page' = [page EXCEPT ![s] = Displayed(s, Diff(s))]
  /\ shown' = [shown EXCEPT ![s] = hand[s]]
  /\ hand' = [hand EXCEPT ![s] = NoSnapshot]
  /\ pc' = [pc EXCEPT ![s] = "listening"]
  /\ UNCHANGED <<storeVars, notifierVars, rendererVars, want, failures>>

\* Defect: a client that goes away takes the render it started with it.
MayBreakRendering(s) == pc[s] # "page"

\* A render runs to its end whoever started it goes away.
MayBreak(s) == pc[s] \notin {"page", "rendering", "publishing"}

\* The connection breaks, perhaps with part of a push already on the page.
Break(s) ==
  /\ MayBreak(s)
  /\ \E sent \in SUBSET (IF pc[s] = "pushing" THEN Diff(s) ELSE {}) :
       page' = [page EXCEPT ![s] = Displayed(s, sent)]
  /\ pc' = [pc EXCEPT ![s] = "page"]
  /\ shown' = [shown EXCEPT ![s] = NoSnapshot]
  /\ hand' = [hand EXCEPT ![s] = NoSnapshot]
  /\ want' = [want EXCEPT ![s] = 0]
  /\ signal' = [signal EXCEPT ![s] = FALSE]
  /\ UNCHANGED <<storeVars, generation, coverage, rendererVars, failures>>

-----------------------------------------------------------------------------
(* The shared renderer. *)

\* Defect: a snapshot for exactly this generation is not taken as covering it.
CoversLater(g) == current # NoSnapshot /\ renderedGeneration > g

Covers(g) == current # NoSnapshot /\ renderedGeneration >= g

TakeCurrent(s) ==
  /\ pc[s] = "asking"
  /\ Covers(want[s])
  /\ hand' = [hand EXCEPT ![s] = current]
  /\ want' = [want EXCEPT ![s] = 0]
  /\ pc' = [pc EXCEPT ![s] = "pushing"]
  /\ UNCHANGED <<storeVars, notifierVars, rendererVars, shown, page, failures>>

\* Defect: a second render starts beside the one in flight.
IdleAlways == TRUE

Idle == refreshing = Nobody

JoinRefresh(s) ==
  /\ pc[s] = "asking"
  /\ ~Covers(want[s]) /\ ~Idle
  /\ pc' = [pc EXCEPT ![s] = "waiting"]
  /\ UNCHANGED <<storeVars, notifierVars, rendererVars, want, hand, shown, page, failures>>

StartRender(s) ==
  /\ pc[s] = "asking"
  /\ ~Covers(want[s]) /\ Idle
  /\ refreshing' = s
  /\ pc' = [pc EXCEPT ![s] = "rendering"]
  /\ UNCHANGED <<storeVars, notifierVars, seq, current, renderedGeneration,
                 want, hand, shown, page, failures>>

NextSeq == seq + 1

RenderRead(s) ==
  /\ pc[s] = "rendering"
  /\ hand' = [hand EXCEPT ![s] = [seq |-> NextSeq, rows |-> content, asOf |-> version]]
  /\ pc' = [pc EXCEPT ![s] = "publishing"]
  /\ UNCHANGED <<storeVars, notifierVars, rendererVars, want, shown, page, failures>>

\* Defect: stamped with the notifier's present generation.
StampNow(s) == generation

\* The generation the render was asked for.
Stamp(s) == want[s]

\* Whoever waited checks again whether the new snapshot is new enough.
Publish(s) ==
  /\ pc[s] = "publishing"
  /\ seq' = NextSeq
  /\ current' = hand[s]
  /\ renderedGeneration' = Stamp(s)
  /\ refreshing' = Nobody
  /\ pc' = [t \in Streams |-> IF t = s THEN "pushing"
                              ELSE IF pc[t] = "waiting" THEN "asking" ELSE pc[t]]
  /\ want' = [want EXCEPT ![s] = 0]
  /\ UNCHANGED <<storeVars, notifierVars, hand, shown, page, failures>>

\* A failed read or template ends the stream that rendered and all that waited.
RenderFails(s) ==
  /\ pc[s] \in {"rendering", "publishing"}
  /\ failures < MaxFailures
  /\ failures' = failures + 1
  /\ refreshing' = Nobody
  /\ LET ended == {s} \cup { t \in Streams : pc[t] = "waiting" }
     IN  /\ pc' = [t \in Streams |-> IF t \in ended THEN "page" ELSE pc[t]]
         /\ shown' = [t \in Streams |-> IF t \in ended THEN NoSnapshot ELSE shown[t]]
         /\ hand' = [t \in Streams |-> IF t \in ended THEN NoSnapshot ELSE hand[t]]
         /\ signal' = [t \in Streams |-> IF t \in ended THEN FALSE ELSE signal[t]]
         /\ want' = [t \in Streams |-> IF t \in ended THEN 0 ELSE want[t]]
  /\ UNCHANGED <<storeVars, generation, coverage, seq, current, renderedGeneration, page>>

\* The process restarts: the store keeps its rows, the notifier and the renderer
\* start over, every connection breaks and a Notify still to come never does.
Restart ==
  /\ failures < MaxFailures
  /\ failures' = failures + 1
  /\ owed' = 0
  /\ generation' = 0
  /\ coverage' = [g \in 0 .. MaxWrites |-> IF g = 0 THEN version ELSE 0]
  /\ signal' = [s \in Streams |-> FALSE]
  /\ seq' = 0
  /\ current' = NoSnapshot
  /\ renderedGeneration' = 0
  /\ refreshing' = Nobody
  /\ pc' = [s \in Streams |-> "page"]
  /\ want' = [s \in Streams |-> 0]
  /\ hand' = [s \in Streams |-> NoSnapshot]
  /\ shown' = [s \in Streams |-> NoSnapshot]
  /\ UNCHANGED <<content, version, page>>

-----------------------------------------------------------------------------
Init ==
  /\ content = [row \in Rows |-> 0]
  /\ version = 0
  /\ owed = 0
  /\ generation = 0
  /\ coverage = [g \in 0 .. MaxWrites |-> 0]
  /\ signal = [s \in Streams |-> FALSE]
  /\ seq = 0
  /\ current = NoSnapshot
  /\ renderedGeneration = 0
  /\ refreshing = Nobody
  /\ pc = [s \in Streams |-> "page"]
  /\ want = [s \in Streams |-> 0]
  /\ hand = [s \in Streams |-> NoSnapshot]
  /\ shown = [s \in Streams |-> NoSnapshot]
  /\ page = [s \in Streams |-> content]
  /\ failures = 0

\* What a connected stream's handler does next.
Handle(s) ==
  \/ Wake(s) \/ ReadGeneration(s) \/ Push(s)
  \/ TakeCurrent(s) \/ JoinRefresh(s) \/ StartRender(s)
  \/ RenderRead(s) \/ Publish(s)

Next ==
  \/ \E row \in Rows : SilentChange(row) \/ \E gone \in BOOLEAN : Commit(row, gone)
  \/ Notify
  \/ \E s \in Streams :
       LoadPage(s) \/ Connect(s) \/ Handle(s) \/ Break(s) \/ RenderFails(s)
  \/ Restart

Spec == Init /\ [][Next]_vars

\* The Go scheduler runs every ready handler; a render is bounded.
FairSpec == Spec /\ \A s \in Streams : WF_vars(Handle(s))

-----------------------------------------------------------------------------
TypeOK ==
  /\ content \in Board
  /\ version \in 0 .. MaxWrites
  /\ owed \in 0 .. MaxWrites
  /\ generation \in 0 .. MaxWrites
  /\ coverage \in [0 .. MaxWrites -> 0 .. MaxWrites]
  /\ signal \in [Streams -> BOOLEAN]
  /\ seq \in 0 .. MaxWrites + 1
  /\ current \in Snapshot \cup {NoSnapshot}
  /\ renderedGeneration \in 0 .. MaxWrites
  /\ refreshing \in Streams \cup {Nobody}
  /\ pc \in [Streams -> {"page", "woken", "asking", "waiting", "rendering",
                         "publishing", "pushing", "listening"}]
  /\ want \in [Streams -> 0 .. MaxWrites]
  /\ hand \in [Streams -> Snapshot \cup {NoSnapshot}]
  /\ shown \in [Streams -> Snapshot \cup {NoSnapshot}]
  /\ page \in [Streams -> Board]
  /\ failures \in 0 .. MaxFailures

\* The shared snapshot holds every write whose signal went out up to the
\* generation it is stamped with, so serving it to a stream woken by one of them
\* loses nothing.
CurrentCovers ==
  current # NoSnapshot => current.asOf >= coverage[renderedGeneration]

\* However many streams are open and however they interleave, the board is
\* rendered at most once per change, and once before the first.
RendersOncePerChange == seq <= generation + 1

\* A stream waits only for a render that is running, so none waits forever.
NobodyWaitsForNothing ==
  \A s \in Streams : pc[s] = "waiting" =>
    refreshing \in Streams /\ pc[refreshing] \in {"rendering", "publishing"}

\* A stream never applies a board older than the one it applied before: a row
\* that was answered does not come back as open.
ShownAdvances ==
  [][ \A s \in Streams :
        shown[s] # NoSnapshot /\ shown'[s] # NoSnapshot =>
          /\ shown'[s].asOf >= shown[s].asOf
          /\ shown'[s].seq >= shown[s].seq ]_vars

\* Every signalled write reaches every stream that stays connected, the ones
\* that were busy or connecting when the signal was sent included: again and
\* again a stream that is attached shows all that was signalled.
ChangesReachStreams ==
  \A s \in Streams :
    []<>(s \in Attached =>
           shown[s] # NoSnapshot /\ shown[s].asOf >= coverage[generation])

=============================================================================

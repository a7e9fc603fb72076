-------------------------- MODULE SessionHeartbeat --------------------------
(***************************************************************************)
(* The session-heartbeat store: one file per session in a directory other   *)
(* programs write too, and the snapshot of it that List answers from.       *)
(*                                                                         *)
(* Four kinds of process meet: posters, whose call stamps, renames and then *)
(* publishes; the watcher's loop, which rebuilds the snapshot or applies a  *)
(* burst of changed paths; the first List, which loads the snapshot itself; *)
(* and the legacy writers.  Directories are read file by file.              *)
(*                                                                         *)
(* owed is a history variable: the sessions whose change nobody will be     *)
(* told of, because an event was lost, a read or a removal failed, a post   *)
(* published what was already replaced, or a load overlapped the watcher.   *)
(***************************************************************************)
EXTENDS Integers

CONSTANTS
  Sessions,      \* session ids, each the name of its file
  NoSession,     \* the session of a Post call that is not running
  Posters,       \* concurrent Post calls
  Declarations,  \* what a poster declares
  ForeignStamps, \* stamps the other programs write
  PerSecond,     \* clock units in a second
  Window,        \* seconds a heartbeat stays live
  Retention,     \* units a row is kept, 0 for ever
  MaxClock,      \* bound on the clock
  MaxPosts,      \* bound on posts
  MaxForeign,    \* bound on writes of other programs
  MaxFailures    \* bound on failed reads, writes, removals, lost events, restarts

Stamps == 0 .. MaxClock

\* What lies under a file's name.  A marker is a file with no session id.
Content == [kind : {"none", "row", "marker", "garbage"}, at : Stamps]

Nothing == [kind |-> "none", at |-> 0]

Stamped(t) == [kind |-> "row", at |-> t]

Row == {Nothing} \cup {Stamped(t) : t \in Stamps}

Snapshot == [Sessions -> Row]

NoRows == [s \in Sessions |-> Nothing]

Quiet == [pc |-> "idle", s |-> NoSession, at |-> 0]

Call == [pc : {"stamped", "written"}, s : Sessions, at : Stamps]

Declaration ==
  [task : BOOLEAN, vault : BOOLEAN,
   location : {"local", "pod", "other"},
   state : {"idle", "busy", "waiting-on-operator", "other"},
   source : {"hook", "mcp-timer", "manual", "other"}]

ASSUME HeartbeatAssumption ==
  /\ NoSession \notin Sessions
  /\ ForeignStamps \subseteq Stamps
  /\ Declarations \subseteq Declaration
  /\ PerSecond \in Nat \ {0}
  /\ Window \in Nat
  /\ Retention \in Nat
  /\ MaxClock \in Nat \ {0}
  /\ MaxPosts \in Nat
  /\ MaxForeign \in Nat
  /\ MaxFailures \in Nat

VARIABLES
  clock,     \* now, never the zero instant
  disk,      \* the content of every session's file
  rows,      \* the snapshot
  loaded,    \* whether the snapshot was ever loaded
  posting,   \* the step, session and stamp of every Post call
  events,    \* sessions whose file an undelivered watcher event names
  doing,     \* the watcher loop: idle, reading, pruning, installing, applying
  todo,      \* files it has still to read
  got,       \* what it read
  seen,      \* sessions a burst has an answer for
  cutoff,    \* stamps before it are expired for this reconcile
  load,      \* the first List's load: on, todo, got, overlapped
  owed,      \* history: see above
  posts, foreign, failures   \* spent of the bounds

vars == <<clock, disk, rows, loaded, posting, events, doing, todo, got,
          seen, cutoff, load, owed, posts, foreign, failures>>

loopVars == <<doing, todo, got, seen, cutoff>>
bounds == <<posts, foreign, failures>>

-----------------------------------------------------------------------------
(* The record *)

Accepted(d) ==
  /\ d.location # "other"
  /\ d.state # "other"
  /\ d.source # "other"
  /\ d.task <=> d.vault

\* readAll and toHeartbeat: a file that is not a row is skipped.
RowIn(c) == IF c.kind = "row" THEN c ELSE Nothing

Age(row) == clock - row.at

IsFresh(row) == Age(row) >= 0 /\ Age(row) <= Window * PerSecond

\* A defect: the age is cut to whole seconds.
AgeTruncated(row) ==
  IF Age(row) >= 0 THEN Age(row) \div PerSecond ELSE - ((- Age(row)) \div PerSecond)

\* Whole seconds, away from zero.
AgeSeconds(row) ==
  IF Age(row) >= 0 THEN - ((- Age(row)) \div PerSecond) ELSE Age(row) \div PerSecond

View(row) == [age |-> AgeSeconds(row), live |-> IsFresh(row)]

\* A row without a stamp cannot be dated, so it never expires.
ExpiredBefore(row, t) == Retention > 0 /\ row.kind = "row" /\ row.at # 0 /\ row.at < t

\* GET reads the file, LIST the snapshot.
Get(s) ==
  CASE disk[s].kind = "garbage" -> "error"
    [] disk[s].kind \in {"none", "marker"} -> "absent"
    [] disk[s].kind = "row" -> IF View(disk[s]).live THEN "live" ELSE "stale"

Listed(s) ==
  CASE ~ loaded -> "error"
    [] loaded /\ rows[s] = Nothing -> "absent"
    [] loaded /\ rows[s] # Nothing -> IF View(rows[s]).live THEN "live" ELSE "stale"

-----------------------------------------------------------------------------
Init ==
  /\ clock = 1
  /\ disk \in [Sessions -> {Nothing, Stamped(0), Stamped(1)}]
  /\ rows = NoRows
  /\ loaded = FALSE
  /\ posting = [p \in Posters |-> Quiet]
  /\ events = {}
  /\ doing = "idle"
  /\ todo = {}
  /\ got = NoRows
  /\ seen = {}
  /\ cutoff = 0
  /\ load = [on |-> FALSE, todo |-> {}, got |-> NoRows, overlapped |-> FALSE]
  /\ owed = {}
  /\ posts = 0
  /\ foreign = 0
  /\ failures = 0

Tick ==
  /\ clock < MaxClock
  /\ clock' = clock + 1
  /\ UNCHANGED <<disk, rows, loaded, posting, events, loopVars, load,
                 owed, bounds>>

Fails == failures < MaxFailures /\ failures' = failures + 1

\* A file changes.  Its event may be dropped.
Change(s, c) ==
  /\ disk' = [disk EXCEPT ![s] = c]
  /\ \/ /\ events' = events \cup {s}
        /\ UNCHANGED <<owed, failures>>
     \/ /\ Fails
        /\ owed' = owed \cup {s}
        /\ UNCHANGED events

-----------------------------------------------------------------------------
(* Post *)

\* The stamp is the store's own and is taken before the write.
PostStamp(p, s, d) ==
  /\ posting[p].pc = "idle"
  /\ posts < MaxPosts
  /\ posts' = posts + 1
  /\ Accepted(d)
  /\ posting' = [posting EXCEPT ![p] = [pc |-> "stamped", s |-> s, at |-> clock]]
  /\ UNCHANGED <<clock, disk, rows, loaded, events, loopVars, load,
                 owed, foreign, failures>>

\* The rename.
PostWrite(p) ==
  /\ posting[p].pc = "stamped"
  /\ Change(posting[p].s, Stamped(posting[p].at))
  /\ posting' = [posting EXCEPT ![p].pc = "written"]
  /\ UNCHANGED <<clock, rows, loaded, loopVars, load, posts, foreign>>

\* The directory, the temp file or the rename fails: the file stays as it was.
PostFail(p) ==
  /\ posting[p].pc = "stamped"
  /\ Fails
  /\ posting' = [posting EXCEPT ![p] = Quiet]
  /\ UNCHANGED <<clock, disk, rows, loaded, events, loopVars, load,
                 owed, posts, foreign>>

\* A defect: the snapshot is updated before the write.
PublishedEarly(p) == posting[p].pc \in {"stamped", "written"}

MayPublish(p) == posting[p].pc = "written"

PostPublish(p) ==
  LET s == posting[p].s
      row == Stamped(posting[p].at)
  IN /\ MayPublish(p)
     /\ rows' = IF loaded THEN [rows EXCEPT ![s] = row] ELSE rows
     /\ owed' = IF loaded /\ posting[p].pc = "written" /\ disk[s] # row
                THEN owed \cup {s} ELSE owed
     /\ posting' = [posting EXCEPT ![p] = Quiet]
     /\ UNCHANGED <<clock, disk, loaded, events, loopVars, load, bounds>>

\* A legacy writer rewrites, spoils or removes a file.  Its clock is its own.
Foreign(s, c) ==
  /\ foreign < MaxForeign
  /\ foreign' = foreign + 1
  /\ Change(s, c)
  /\ UNCHANGED <<clock, rows, loaded, posting, loopVars, load, posts>>

-----------------------------------------------------------------------------
(* The first List *)

Present == {s \in Sessions : disk[s].kind # "none"}

\* ensureLoaded, under loadMu and after the second look at loaded.
LoadStart ==
  /\ ~ loaded
  /\ ~ load.on
  /\ load' = [on |-> TRUE, todo |-> Present, got |-> NoRows, overlapped |-> FALSE]
  /\ UNCHANGED <<clock, disk, rows, loaded, posting, events, loopVars,
                 owed, bounds>>

LoadRead(s) ==
  /\ load.on
  /\ s \in load.todo
  /\ \/ /\ load' = [load EXCEPT !.todo = @ \ {s}, !.got[s] = RowIn(disk[s])]
        /\ UNCHANGED <<owed, failures>>
     \/ /\ Fails
        /\ load' = [load EXCEPT !.todo = @ \ {s}]
        /\ owed' = owed \cup {s}
  /\ UNCHANGED <<clock, disk, rows, loaded, posting, events, loopVars,
                 posts, foreign>>

\* The load publishes what it read, over a snapshot the watcher may have
\* loaded or brought up to date meanwhile.
LoadDone ==
  /\ load.on
  /\ load.todo = {}
  /\ rows' = load.got
  /\ loaded' = TRUE
  /\ owed' = IF load.overlapped THEN Sessions ELSE owed
  /\ load' = [on |-> FALSE, todo |-> {}, got |-> NoRows, overlapped |-> FALSE]
  /\ UNCHANGED <<clock, disk, posting, events, loopVars, bounds>>

-----------------------------------------------------------------------------
(* The watcher's loop *)

\* A defect: only the first reconcile is ever run.
ReconcileOnce == doing = "idle" /\ ~ loaded

\* At the start, on every tick and on every watcher error.
MayReconcile == doing = "idle"

\* A reconcile begins by listing the directory.
ReconcileStart ==
  /\ MayReconcile
  /\ doing' = "reading"
  /\ todo' = Present
  /\ got' = NoRows
  /\ UNCHANGED <<clock, disk, rows, loaded, posting, events, seen, cutoff, load,
                 owed, bounds>>

\* Listing the directory fails: logged, and the next tick tries again.
ReconcileFail ==
  /\ MayReconcile
  /\ Fails
  /\ UNCHANGED <<clock, disk, rows, loaded, posting, events, loopVars, load,
                 owed, posts, foreign>>

ReadFile(s) ==
  /\ s \in todo
  /\ todo' = todo \ {s}
  /\ \/ /\ got' = [got EXCEPT ![s] = RowIn(disk[s])]
        /\ seen' = IF doing = "applying" THEN seen \cup {s} ELSE seen
        /\ owed' = owed \ {s}
        /\ UNCHANGED failures
     \/ /\ Fails
        /\ owed' = owed \cup {s}
        /\ UNCHANGED <<got, seen>>
  /\ UNCHANGED <<clock, disk, rows, loaded, posting, events, doing, cutoff,
                 load, posts, foreign>>

PruneStart ==
  /\ doing = "reading"
  /\ todo = {}
  /\ doing' = "pruning"
  /\ cutoff' = clock - Retention
  /\ UNCHANGED <<clock, disk, rows, loaded, posting, events, todo, got,
                 seen, load, owed, bounds>>

\* The row that was read is expired: the file goes, whatever it holds by now.
PruneRow(s) ==
  /\ doing = "pruning"
  /\ ExpiredBefore(got[s], cutoff)
  /\ got' = [got EXCEPT ![s] = Nothing]
  /\ \/ Change(s, Nothing)
     \/ /\ Fails
        /\ owed' = owed \cup {s}
        /\ UNCHANGED <<disk, events>>
  /\ UNCHANGED <<clock, rows, loaded, posting, doing, todo, seen, cutoff, load,
                 posts, foreign>>

\* The whole snapshot is replaced: a merge cannot say that a file is gone.
ReconcileInstall ==
  /\ doing = "pruning"
  /\ \A s \in Sessions : ~ ExpiredBefore(got[s], cutoff)
  /\ rows' = got
  /\ loaded' = TRUE
  /\ load' = [load EXCEPT !.overlapped = load.on]
  /\ doing' = "idle"
  /\ got' = NoRows
  /\ cutoff' = 0
  /\ UNCHANGED <<clock, disk, posting, events, todo, seen, owed, bounds>>

\* A burst takes the events that arrive within its window.
BurstStart(P) ==
  /\ doing = "idle"
  /\ P # {}
  /\ doing' = "applying"
  /\ todo' = P
  /\ got' = NoRows
  /\ seen' = {}
  /\ events' = events \ P
  /\ UNCHANGED <<clock, disk, rows, loaded, posting, cutoff, load,
                 owed, bounds>>

\* A snapshot that is not loaded is left alone: the burst is dropped.
RowsAfterBurst ==
  IF loaded THEN [s \in Sessions |-> IF s \in seen THEN got[s] ELSE rows[s]] ELSE rows

BurstApply ==
  /\ doing = "applying"
  /\ todo = {}
  /\ rows' = RowsAfterBurst
  /\ load' = [load EXCEPT !.overlapped = load.on]
  /\ doing' = "idle"
  /\ seen' = {}
  /\ got' = NoRows
  /\ UNCHANGED <<clock, disk, loaded, posting, events, todo, cutoff,
                 owed, bounds>>

\* The process restarts: files stay, and the first reconcile reads them.
Restart ==
  /\ Fails
  /\ rows' = NoRows
  /\ loaded' = FALSE
  /\ posting' = [p \in Posters |-> Quiet]
  /\ events' = {}
  /\ doing' = "idle"
  /\ todo' = {}
  /\ got' = NoRows
  /\ seen' = {}
  /\ cutoff' = 0
  /\ load' = [on |-> FALSE, todo |-> {}, got |-> NoRows, overlapped |-> FALSE]
  /\ owed' = {}
  /\ UNCHANGED <<clock, disk, posts, foreign>>

-----------------------------------------------------------------------------
ForeignContent ==
  {Nothing} \cup {Stamped(t) : t \in ForeignStamps}
    \cup {[kind |-> "marker", at |-> 0], [kind |-> "garbage", at |-> 0]}

Loop ==
  \/ ReconcileStart
  \/ \E s \in Sessions : ReadFile(s)
  \/ PruneStart
  \/ \E s \in Sessions : PruneRow(s)
  \/ ReconcileInstall
  \/ \E P \in SUBSET events : BurstStart(P)
  \/ BurstApply

Next ==
  \/ Tick
  \/ \E p \in Posters, s \in Sessions, d \in Declarations : PostStamp(p, s, d)
  \/ \E p \in Posters : PostWrite(p) \/ PostFail(p) \/ PostPublish(p)
  \/ \E s \in Sessions, c \in ForeignContent : Foreign(s, c)
  \/ LoadStart
  \/ \E s \in Sessions : LoadRead(s)
  \/ LoadDone
  \/ ReconcileFail
  \/ Loop
  \/ Restart

Spec == Init /\ [][Next]_vars

\* The loop's goroutine runs until the process stops and its ticker never stops
\* firing; no poster, no List and no other program has to move.
FairSpec == Spec /\ WF_vars(Loop)

-----------------------------------------------------------------------------
(* Properties *)

\* Type correctness: no reachable snapshot holds anything but rows, and the
\* loop and the load only what they may have read.
TypeOK ==
  /\ clock \in Stamps
  /\ disk \in [Sessions -> Content]
  /\ rows \in Snapshot
  /\ loaded \in BOOLEAN
  /\ posting \in [Posters -> {Quiet} \cup Call]
  /\ events \in SUBSET Sessions
  /\ doing \in {"idle", "reading", "pruning", "applying"}
  /\ todo \in SUBSET Sessions
  /\ got \in Snapshot
  /\ seen \in SUBSET Sessions
  /\ cutoff \in - Retention .. MaxClock
  /\ load \in [on : BOOLEAN, todo : SUBSET Sessions, got : Snapshot, overlapped : BOOLEAN]
  /\ owed \in SUBSET Sessions
  /\ posts \in 0 .. MaxPosts
  /\ foreign \in 0 .. MaxForeign
  /\ failures \in 0 .. MaxFailures

\* The session's file is about to be read, or was and is to be installed.
InHand(s) ==
  \/ doing \in {"reading", "pruning"}
  \/ doing = "applying" /\ s \in todo \cup seen

\* The list and the file of a session differ only while an event for it waits,
\* the watcher's loop has it in hand, or the session is owed a read: a lost
\* event, a failed read or removal, a post overtaken by another writer before it
\* published, or a first List that overlapped the loop.  No other interleaving
\* of posts, bursts, prunes and loads leaves a row stale.
LagHasCause ==
  loaded => \A s \in Sessions :
    rows[s] # RowIn(disk[s]) => s \in events \cup owed \/ InHand(s)

\* What a reader computes from the rendered age and what the verdict says agree:
\* a row is live exactly when its age in seconds lies inside the window, for
\* every fraction of a second and for stamps ahead of the clock.
ViewsAgree ==
  \A s \in Sessions :
    rows[s] # Nothing =>
      (View(rows[s]).live <=> View(rows[s]).age \in 0 .. Window)

\* Once files stop changing the snapshot becomes the directory and stays so,
\* without expired rows, whatever events were lost and whatever failed before.
SnapshotConverges ==
  <>[](loaded /\ \A s \in Sessions :
         /\ rows[s] = RowIn(disk[s])
         /\ ~ ExpiredBefore(rows[s], clock - Retention))

=============================================================================

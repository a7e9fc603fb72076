# attention-controller in TLA+

attention-controller keeps a queue of items that need a human: agent sessions
push questions, permission gates and condition reports; arms (a board page, a
command line, a voice arm) answer, close, flag or escalate them. This directory
models the parts of it that are hard to test, model-checks them on small
instances with TLC and proves the properties that matter most with TLAPS.

Paths below are relative to the repository. Every definition that stands for
code is listed with its lines under `map` in `PROJECT.json`.

## The system

| Component | State | Operations | Talks to |
|---|---|---|---|
| Attention store (`pkg/attention-store-*.go`) | items bucket, four derived indexes with built markers, delivery attempts, in one BoltDB file | Push, Get, Read, ReadBoard, History, Answer, Escalate, Close, Flag, Unflag, Rate, RecordAttempt, Delivery, SweepAnswered | liveness checker and heartbeat files, for whose producer is alive |
| Notifying store, change notifier (`attention-store-notifying.go`, `attention-change-notifier.go`) | generation, one one-slot channel per subscriber | the store's, followed by Notify; Subscribe, Generation | wraps the store, wakes the streams |
| Board stream (`handler/attention-stream.go`) | shared snapshot with the generation it was rendered for, the render in flight, the last snapshot each stream applied | snapshot, run, push | notifier, ReadBoard, the page |
| Board page (`handler/attention-page*.go`) | the rows on display | first render, frame application, reconnect | the stream |
| Session ledger (`session-ledger*.go`) | one permanent row per session, a list cache with a generation | Post, Patch, Import, Get, List, ListJSON | supervisors write, provenance lists |
| Session heartbeats (`session-heartbeat*.go`) | one file per session, an in-memory snapshot | Post, Get, List, event bursts, reconcile and prune | directory shared with other writers |
| Liveness checker (`session-liveness-checker.go`) | cached listing of the session registry, stamps of its entries | IsLive, LiveSessions, LiveSessionsFresh | registry directory |
| Federation (`attention-store-federating.go`, `attention-remote.go`) | cached items of a peer | merges reads, routes writes to the owner | local store, peer's API |
| Task index (`task-index*.go`, `task-dir-watcher*.go`) | session to task map, file stamps, refresh token | Lookup, ApplyPaths, Reconcile | vault directory |
| Provenance (`provenance.go`) | cached host state, refresh token | Resolve | panes, registry, ledger, task index |
| Wiring (`main.go`) | the answered sweep's ticker | one sweep a minute with a deadline | notifying store |

What makes each of them correct, and what is hard:

* **Attention store.** One write must keep a bucket and four indexes equal,
  because a reader trusts an index whose marker is present. A read is not one
  transaction: it scans, decides, lists the registry again, waits for the
  writer lock and only then removes, while producers re-push, arms answer and
  sessions resume. The dedup index holds copies of rows and decides whether a
  push updates or adds. Indexes may be missing after an upgrade.
* **Board stream.** Many streams wake on one write and share one render. A
  render begun before a write must not be taken for one that holds it, and a
  waiter must never wait for a render nobody runs.
* **Session ledger.** Writes commit first and drop the list cache when they
  return, while lists read the bucket and fill the cache.
* **Heartbeats.** The directory is the truth and other programs write it; the
  snapshot is kept by posts, file events, a periodic reconcile and a lazy first
  load, which overlap. Events may be lost.
* **Task index.** A reconcile builds a whole index beside the serving one while
  applies change that one; a token, a sequence and the files' stamps decide what
  may be reused, claimed and installed.
* **Federation.** A call goes to the host that holds the item; the reply may be
  late or lost, and a refusal crosses HTTP as a code and must come back as the
  same error. A peer's items are cached and may have moved on.
* **Provenance.** One snapshot of panes and names is shared by every page and
  refreshed behind their requests; cold starts overlap and may be abandoned. A
  producer's log is read in pieces while it is written.

## Modules

    AttentionItem          the item, the push request, tests of one item
    AskLifecycle           abstract: what the store promises of every ask
    SessionLiveness        the liveness checker and the registry it lists
                                                      (EXTENDS AttentionItem)
    AttentionStore         the store                  (EXTENDS SessionLiveness)
    AttentionStoreProofs   proofs about it            (EXTENDS AttentionStore)
    AttentionLifecycleProofs  what a step does to a row, and the refinement of
                           AskLifecycle               (EXTENDS AttentionStoreProofs)
    BoardStream            notifier, renderer, streams, pages
    BoardStreamProofs      proofs about it            (EXTENDS BoardStream)
    SessionLedger          the ledger and its list cache
    SessionLedgerProofs    proofs about it            (EXTENDS SessionLedger)
    SessionHeartbeat       the heartbeat directory and the snapshot of it
    SessionHeartbeatProofs proofs about it            (EXTENDS SessionHeartbeat)
    VaultFile              the frontmatter and section reader
    TaskIndex              the index and its watcher  (EXTENDS VaultFile)
    TaskIndexProofs        proofs about it            (EXTENDS TaskIndex)
    Federation             two hosts, their calls and the merged board
                           (INSTANCE AskLifecycle)
    FederationProofs       proofs about it            (EXTENDS Federation)
    Provenance             the host snapshot and the producers' logs
    ProvenanceProofs       proofs about it            (EXTENDS Provenance)
    MC...                  small instances for TLC

### AttentionStore

BoltDB admits one writer and commits a transaction whole, so an operation that
is one transaction is one action, guards and early returns included. `items`
is the bucket, `live`, `open`, `history` and `dedup` the indexes, `built` their
markers, `bucket` whether the items bucket exists yet (the first write marks
three indexes built but not history). `PutItems` is `putItem` with
`reconcileIndexes`; `RemoveItems` is `removeItem`.

* `Push` is the whole transaction of `Push`: the dedup index is ensured, the
  entry's producer is probed, the row is refreshed in place or a new one added.
  A rebuilt dedup index may hold any open row of a key, since the rebuild walks
  the bucket in the order of random ids: `DedupIndexesOf`.
* A read is `ReadEnsure`, `ReadScan`, `ReadClassify`, `ReadResolve`,
  `ReadJudge` and `ReadCommit`, one for each point at which other calls or the
  registry get in. `Read` and `ReadBoard` differ in the index they scan. A prune
  takes its listing and reads the clock in `ReadResolve`, before it has the
  writer lock; `ReadJudge` is `stillRemovable` over the batch under the lock,
  and `ReadCommit` takes the rows. Nobody else writes in between
  (`WriterFree`), but producers come and go.
* `SweepStart` reads the clock and ensures the index; `SweepCommit` is the one
  write transaction with both passes.
* `Restart` forgets every call in flight and may find any index deleted
  (`Droppable`); with all deleted it is the upgrade of a store written before
  the indexes existed. `ReadFails` and `SweepFails` are cancelled and failed
  transactions, which leave the buckets alone.

Data is abstracted to what the properties tell apart: a (producer, dedup key)
pair is a member of `Keys`, a payload a member of `Payloads`, options a
boolean, text a model value.

### SessionLiveness

`alive` is what is really registered, `torn` the registered sessions whose
entry cannot be read at the moment, `readable` whether the directory can be
listed. A listing skips torn entries (`Listed`). The checker holds two
listings: `cached` (`LiveSessions`, reused for a second whatever changes) and
`fresh` (`LiveSessionsFresh`, reused while young and while the directory's
stamp stands, and kept only when no entry was skipped). Their windows are not
timed: a listing lapses as a step of its own, at any time. `Lookups` is the
source one caller keeps (`readSessionLiveness`): the first miss asks for a
fresh listing and every later lookup is answered from that one, so of the
sessions that only the first listing held some may read as gone, by their place
in the batch. A file created or deleted moves the directory's stamp; a session
that takes another's file over in place (a process id used again, a new
session in a running process) does not, and `quiet` holds the sessions that did
so since the fresh listing was taken. `Unseen` names the producers no listing
had to show, so that `RemovalJustified` is the claim of
`session-liveness-checker.go:33`: a stale listing may delay a prune, never cause
one. The judging of one batch is one instant of the registry; in the
code a listing and the lookups around it take a moment.

### BoardStream

A row's content is the number of the write that last set it, and a snapshot
carries the number of the last write it can have seen (`asOf`). A successful
operation of the notifying store is `Commit` followed by `Notify`, with
anything in between; `SilentChange` is a row that leaves by a prune, an exit
or a deadline and is signalled by nobody. A connection goes through `Connect`,
`ReadGeneration`, then `TakeCurrent`, `JoinRefresh` or `StartRender` under the
renderer's mutex, `RenderRead`, `Publish`, `Push`, `Wake`. A render survives
the client that asked for it, so `Break` is not enabled for the stream that
renders. `Restart` starts the notifier and the renderer over.

### SessionLedger

A writing call is two steps: the transaction (`Post`, `Patch`, `Import`), and
`Return`, which is its deferred `invalidate`. A list is up to four: the lookup
in the cache (`CallListJSON`, `LoadEntries`), the bucket read (`View`), and the
stores of rows and body, each under the generation of its own lookup. The four
fields stand for the kinds of field validation tells apart: one no row may
lack, two that go together, one that stands alone. `Get` reads the bucket and
has no step; between a write's commit and its return a list may lag behind it,
which is why the promise is about writes that have returned.

### SessionHeartbeat

`disk` holds what lies under each session's file name (nothing, a row, a marker
without a session, garbage), `rows` the snapshot. A post is `PostStamp`,
`PostWrite` (the rename; or `PostFail`) and `PostPublish`; `Foreign` is another
program's write. The watcher's loop reconciles (`ReconcileStart`, `ReadFile`
for each file, `PruneStart`, `PruneRow`, `ReconcileInstall`) or applies a burst
(`BurstStart`, `ReadFile`, `BurstApply`); the first List loads the snapshot by
itself (`LoadStart`, `LoadRead`, `LoadDone`). An event is lost, a read or a
removal fails, or the process restarts within `MaxFailures`. The clock counts
`PerSecond` units to the second so that rounding has something to round.

The history variable `owed` names the sessions of whose change nobody will be
told. `LagHasCause` says the snapshot is wrong about a session only if an event
for it waits, the loop has it in hand or it is owed a read: what it rules out is
a row that some order of posts, bursts, prunes and loads leaves stale unnoticed.

### VaultFile and TaskIndex

`VaultFile` translates the hand-written frontmatter reader: blocks, keys, lists,
wikilinks, `## Goals` sections, over lines that are already classified.
`TaskIndex` has the index as a record of entries per path, winners per session,
stamps and rungs (goals and topics). `ApplyPaths` is `BurstStart`, `ApplyStat`
and `ApplyRead` per path and the critical section `ApplyLocked`; a reconcile is
`Claim`, `ReadGoals`, `ReadTopics`, `ListDir`, `CopyIndex`, per file
`CompareFile` and, when it is not reused, `RestampFile` and `ReadFile`, then
`Install` and `Finish`. Each step is one system call or one critical section.
`hidden` is a history variable: files whose present version came by an edit that
kept size and timestamp, which no stamp can tell.

### Federation

Both stores are reduced to the lifecycle of a row, with each operation's verdict
from the code (`AnswerVerdict`, `CloseVerdict`, `EscalateVerdict`). A call on
the local board is `Submit`, `Route` (the local store is asked whether it holds
the item; `RouteBlind` when that read fails), then `ActLocally`, or
`PeerServes` and `ReplyArrives`, or `CallCut`, after which the peer may still
serve it (`PeerLate`). Errors are named: `CodeOf` and `Named` are the peer's
handler, `Decoded` is `remoteResponseError`, `Relayed` the local handler. What a
call may come back with instead of a handler's answer is `Cuts`: nothing
readable, nothing yet, or a bare 404, which `Decoded` takes for a missing ask as
the code does. `ToldTheTruth` therefore lets `NOT_FOUND` mean one of two things:
the owning store has no such row, or a 404 from in front of its handlers, in
which case no store was asked. It assumes that whoever answers 404 in front of
the peer has not passed the call on, and that a successful answer that is not
the peer's does not decode as an item (all seven remote calls decode one). A read
is `ReadLocal`, then under the federating store's mutex `ServeCached`, or
`AskPeer`, `PeerReads` and `PeerListed`, or `PeerSilent`. Reading prunes at the
peer as it does at home. Ages are counted in ticks and saturate at `Horizon`,
the cache window and one call's timeout.

### Provenance

`ServeStale` and `ColdStart` are the two branches of `hostState`; a refresh is
`ReadNames` or `SkipName`, `List` or `ListFails` (twice at most), `Publish`,
`FinishRefresh`. `Abandon` is the client of a cold start going away: its registry
read may be cut short and its listing fails. `Claim` is what a resolve concludes
from a snapshot. What a refresh learns of the session's name is that name, a name
that is a status glyph and nothing else, no name (`"none"`: the session exited,
its entry has no name, or the entry or the directory cannot be read, now
(`SkipName`) or for as long as it lasts), or, where an abandoned request stopped
the scan before the entry, `"cut"`. The code keeps the last two alike, as a name
missing from the map; the model tells them apart so that `ClaimsProven` can say
that nothing is claimed on the one and what is on the other: `OwnsPane` rejects a
pane only on a mismatch of two names, so an existing pane that the producer
recorded is offered for a session without a name whatever the pane shows, and a
pane without a title for any session. A log is a sequence of lines and at most
one torn line, with the number of times it was replaced; `ReadEvents` reads size
and bytes with a write of the producer between them. There is one item, one
session and one pane; lines have equal length, so an offset that outlives a
replacement is still a line boundary; the ledger's modes are read and cut short
with the names; a log read that fails or is cancelled changes nothing, which is
a step not taken.

## Runs

| Run | Shows | Bounds |
|---|---|---|
| `store_indexes` | indexes exact, dedup entries sound and delivery records joined through every operation, restart and rebuild | two items of one key, a heartbeat producer |
| `store_prune` | what a read removes is past its deadline or its producer could not be seen when it was judged, and moot rows leave as long as somebody reads | one row, one reader; a session and an owner, deadlines, an unlistable registry (`Outages`), torn entries |
| `store_answers` | first answer and first escalation stand; refinement of `AskLifecycle` | a gate and a question, racing arms |
| `store_sweep` | a sweep closes only what is due; repeats and overdue answers leave | one key, two asks |
| `stream` | served boards miss nothing, are rendered once per change, never go back, and signalled writes reach every connected stream | two streams, two writes, one failed render or restart |
| `ledger` | rows stay valid and keep what others wrote; a list holds every write that had returned | two sessions, two writers, one reader, seven patches, three imports, a failure or restart |
| `heartbeats` | a lag has a cause, views agree with verdicts, the snapshot converges on the directory | one session, two posters, one foreign write, one fault or restart |
| `tasks` | winners, rungs and stamps exact; one walk at a time; an install takes no listed update back; index and token come to rest | two files of one session, one edit, one change of the rungs, one fault, a render beside the loop |
| `federation_calls` | callers are told the truth, refusals keep their names, the two hosts refine `AskLifecycle` | one item at either host; answers, closes and escalations, refused ones and a malformed rating, from both boards (the other calls only in the proofs); one fault: a lost or late reply, a bare 404 or a failed local lookup |
| `federation_board` | a board shows the peer as it was at most a window and a call ago, and converges | two items, one of them answered or closed, two readers, one outage |
| `provenance` | single flight, proven claims, exact event records; snapshot and records converge | two cold starts and a background refresh; one change (another title, no title, an entry that goes), one fault (an abandoned request, a failed listing, an unreadable entry); a log of two lines replaced once |
| `gap_listing` | the disagreement below | as `tasks`, without faults |

Bounds are named constants: `MaxTime`, `MaxAge`, `MaxFaults`, `MaxWrites`,
`MaxFailures`, `MaxEdits`, `MaxPosts` and so on, and the sets of ids and
callers. They suffice because every hazard here is a race of at most two calls
over at most two rows: two items are one row and its repeat; a push, an answer
or a sweep of the prune's own steps is what a read races, so one reader is
enough; three writes are one before, one during and one after a list; an edit
during a walk, beside a file that is not edited, is what an install may take
back; one fault is what a caller has to be told of, and the next call what
recovers from it. Heartbeats are kept per session and meet only in the loop's
steps, so one session with two posters has every race. What the bounds cannot
show is proved for all values where the prover reaches: every property of these
runs but the ten liveness properties is a theorem. Each module's type invariant
is proved so; the task index's is checked by a run as well.

Deadlock checking is off in every run: with its bounds used up a model stops,
and an idle server waits for callers.

### Fairness

* `store_sweep`, `store_prune`: the sweep's ticker keeps firing
  (`runAnsweredSweep` loops for the life of the process and continues after a
  failure) and somebody keeps reading (supervisors poll the read API); a
  listing the checker holds lapses (its windows are a second and less).
  `MootAsksLeave` speaks of deadlines and of absent askers one by one: of a row
  that is moot for the one or the other reason a re-push may move the deadline
  again and again while a stale listing still answers for the asker.
* `stream`: the Go scheduler runs every ready handler and a render ends.
* `heartbeats`: the watcher's loop runs and its ticker never stops; nobody has
  to post, to list or to write.
* `tasks`: the loop runs, and a render that began a reconcile goes on with it;
  nobody has to render or to edit.
* `federation_board`: boards are read, a call to the peer is cut off by the
  client's timeout, and Go's mutex starves no one (strong fairness of taking it,
  which its starvation mode gives).
* `provenance`: a refresh ends by its result or its timeout, time passes and
  pages keep resolving.

Nothing is assumed of producers, arms, editors, the registry or of failures,
which may come or not.

### Where code and comments differ

Checked by a run:

* `gap_listing`: `reconcile` lists the task directory, and only then copies the
  index with its sequence. A file created and applied between the two is in the
  index and not in the listing, and the sequence has not moved since the copy;
  the install drops the file, which `task-index.go:207` says cannot happen. The
  file is back with its next event or the next reconcile. `InstallKeepsListed`
  is the part of the promise that holds: of a file the walk has read into the
  index it built, and whose stamp can be believed. A file whose stat fails in
  the comparison and whose read fails after it is listed and yet missing from
  the walk's index, so the install drops it however fresh the serving index is;
  and two edits that both keep the stamp deceive the walk. Both need two
  misfortunes in one walk, which the run's bound of one leaves out: the proof
  found them.

Seen in the models, as the code has it, without a run:

* `updateExistingIfLive` (`attention-store-impl.go:1801`) writes a request's
  options onto a row of another mechanism; `attention-item.go:359` says a gate
  never has any.
* The dedup index holds one row of a key; when it goes, an older open row of
  the key is forgotten and a push adds another beside it
  (`attention-store-index.go:422` against `attention-store.go:25`).
* A gate is cleared without a decision by the producer's own Close, by an Answer
  with an empty decision, and by the sweep (`attention-store-impl.go:1477`
  against `:1512`).
* The prune's re-check leaves out `isAsked`, so a report whose deadline was
  withdrawn is removed because its producer exited (`attention-store-impl.go:1048`
  against `:258`).
* A prune whose listing misses a session lists the registry again inside its
  write transaction (`session-liveness-checker.go:536`), and so does a push;
  `attention-store-impl.go:998` says the writer lock is never held across a
  listing. For the same reason a session resumed between the listing and the
  lock is kept, which `:996` and `:1034` leave open; one resumed after it was
  judged is not.
* A session whose entry cannot be read when the prune lists it is judged gone
  and its question removed (`session-liveness-checker.go:380`), where `:212`
  says presence means live. (That a session which takes over a file in place is
  missed while the fresh listing is reused is disclosed at `:49`.)
* A change between the page's render and the subscription is in the stream's
  baseline, so the next push does not correct it
  (`handler/attention-stream.go:362` against `:306`).
* `pruneExpired` removes a file on the evidence of an earlier read: a session
  that posted again in between loses its fresh file
  (`session-heartbeat-watcher.go:281`) until it posts again.
* A 404 of any body is decoded as a missing ask (`attention-remote.go:461`,
  `attention-remote_test.go:141`), so a caller is told `NOT_FOUND` of a call that
  a proxy, or an older peer without the route, turned away and no store saw.
* The default arm of `remoteResponseError` (`attention-remote.go:467`) takes a
  peer's refusal it has no case for, a `VALIDATION_ERROR` among them, for an
  unavailable peer, so a bad request comes back as a failed peer call.
* `resolveByName` claims no pane for a session without a name
  (`provenance.go:825`), but a name that is only a status glyph is a name, strips
  to nothing and matches any pane without a title (`:864`). The claims of such a
  name are in the model and in the proof of `ClaimsAlwaysProven`; the run leaves
  the value out to stay small.
* The age of a served host snapshot is bounded by the window and a refresh only
  while pages keep resolving; the first page after a quiet period is served a
  snapshot as old as the quiet (`provenance.go:472`).

## Proofs

Each holds for every value of the constants under the assumption named in the
module (`StoreAssumption`, `RefsAssumption`, `BoardAssumption`, `LedgerAssumption`,
`HeartbeatAssumption`, `TaskIndexAssumption`, `FederationAssumption`,
`ProvenanceAssumption`: the sentinels are not data, the bounds are naturals,
inputs are well-formed).

* **AttentionStoreProofs**: `TypeCorrect`, `IndexesAlwaysExact`,
  `DedupAlwaysSound`, `AttemptsAlwaysJoin`, `RemovalAlwaysJustified`.
  `IndexesExact` is not inductive alone: that a removal takes the right history
  row needs every row to carry its bucket key as its id and ids to be drawn
  once, and that a write after an upgrade keeps unmarked indexes harmless needs
  the markers tied to the bucket's existence. The invariant `IInv` is the
  conjunction of a part about the buckets, one about the calls in flight (what
  a read classified are ids, and the instant it judges by is not in the
  future), one about the checker (`LivenessInv`: a fresh listing that is held
  has every session but those in `quiet`) and one about a prune that has judged
  (`CommitInv`). `RemovalJustified` follows because a deadline that had passed
  when the clock was read has passed now, because `GoneIsUnseen` shows that
  what a caller's lookups find gone no listing had to show, whatever its first
  listing was, and because nobody writes between the judging and the commit.
* **AttentionLifecycleProofs**: `FirstAnswerAlwaysStands`,
  `EscalationAlwaysSticks`, `SweepAlwaysClosesOnlyDue` and
  `StoreImplementsLifecycle`. `StepMoves` reduces every action to what it does
  to one row (`Move`: nothing, born, removed while open, rewritten in one of
  four ways), from which the first two and the refinement are read off. Needed
  besides `IInv` is `RowsInv`: a row's id has been issued (or an id could seem
  to be reborn), an open row carries no verdict (or a prune could lose one), and
  a sweep between its steps holds an exact live index and a bound that is not
  in the future.
* **BoardStreamProofs**: `TypeCorrect`, `CurrentAlwaysCovers`, `RendersBounded`,
  `WaitersHaveRenderer`, `ShownAlwaysAdvances`. The argument is that at most one stream renders and
  that it renders for a generation the shared snapshot does not cover, so each
  render takes the stamp strictly forward; and that what a render reads after
  asking for a generation holds every write of that generation. For
  `ShownAlwaysAdvances` the snapshots are ordered (`Ordered`): applied, about to
  be pushed, shared, being rendered.
* **SessionLedgerProofs**: `TypeCorrect`, `RowsAlwaysValid`,
  `ListsAlwaysCurrent`, `OwnersFieldsAlwaysKept`. A list read under the present
  generation holds every returned write, because each write that returns ends
  a generation; what was read under an older one is answered, never stored.
* **SessionHeartbeatProofs**: `HeartbeatTypes`, `LagAlwaysHasCause`,
  `ViewsAlwaysAgree`. `LagHasCause` is not inductive alone: what the loop and
  the first load have already read, and what a post is about to publish, must
  each be what the file still says, or be owed or announced. `ViewsAlwaysAgree`
  is arithmetic: rounding away from zero never crosses the window.
* **FederationProofs**: `FederationTypes`, `CallersToldTheTruth`,
  `RefusalsKeepTheirNames`, `AsksHaveOneLife`, `BoardsStayWithinHorizon`. A call
  carries the verdict the serving store gave it from the step that gave it to
  the step that tells the caller; the invariant says what outcome each of its
  steps can still lead to, and that a call cut by a bare 404 carries no verdict
  (`FederationInvariance`). `AsksHaveOneLife` is the refinement of `AskLifecycle`
  by the two hosts together: `StepsMove` reduces each action to what it does to
  one row of one store, and `AtHome` (an item's row is in at most the store of
  the host that owns it) lets the abstract state be the union of the two.
  `BoardsStayWithinHorizon` follows an age through a read: what the asking
  reader holds is the peer's store but for changes younger than the call, what
  the cache holds is so but for changes younger than the cache and the call
  together, and only the holder of the mutex asks. Its hypothesis `Window > 0`
  is what the code sets (two seconds, `attention-store-federating.go:32`).
* **TaskIndexProofs**: `TaskIndexTypes`, `WalksStaySingle`,
  `RungsAlwaysApplied`, `WinnersAlwaysExact`, `StampsAlwaysVouch`,
  `InstallTakesNothingBack`. Every index, serving, copied or being built, agrees
  with its own rungs, because a walk reads the rungs while the index it builds is
  still empty. Each index's winners are exact because every change of entries
  recomputes the sessions it touched, of the entry that was and the entry that
  is. A stamp vouches in every index and in every pair of stamp and content that
  a step holds, because stamps are read before contents and an edit that is not
  hidden takes a stamp no holder has seen. For `InstallTakesNothingBack` the
  invariant adds what a walk knows while updates cross it: as long as the
  serving sequence is the one its copy was taken at, the copy still is the
  serving index, so an install that would take an update back is refused.
* **ProvenanceProofs**: `ProvenanceTypes`, `RefreshesStaySingle`,
  `ClaimsAlwaysProven`, `EventsAlwaysExact`. A registry read cut short belongs to
  an abandoned request, and the listing of an abandoned request fails: so half a
  registry never stands beside a pane a claim could rest on, and where the name
  was read, or found missing, `OwnsPane` and `resolveByName` decide. The record held of
  a log is what one pass over its first `offset` lines gives (`LogInv`), because
  reading it in pieces gives what reading it at once does (`KnownInPieces`);
  once the log is another, nothing is claimed until a read starts over.

Two of these are about folds, over the candidates of a session and over the
lines of a log, and no induction schema can be instantiated here. Each proof
states the fold's result in closed form (the preferred candidate, the line
that wins) and shows that a first place where the recursion departs from it, the
least counterexample, cannot exist.

Only model-checked are the liveness properties `MootAsksLeave`, `ReraisesSettle`,
`AnsweredLeaves`, `ChangesReachStreams`, `SnapshotConverges`, `IndexConverges`,
`TokenReturns`, `BoardConverges`, `HostConverges` and `EventsConverge`: liveness
under fairness is out of the prover's reach.

## Not modelled

* The liveness checker's stamps per file, which save reads and change no
  answer, and the two directory opens within one listing.
* Answer content (questions, options, cardinality): stateless validation that
  the store's model sees as accepted or refused; `History` paging and the
  delivery status, which change nothing.
* Provenance's lookups of task, name, headless mode and uncovered workers, and
  its classes: copies of what other parts hold.
* Markup, filters and layout of the page; decoding and encoding in the HTTP
  handlers beyond the calls that may go to a peer; pane activation, jumps,
  cancels and speech, which call other programs and keep no state; metrics,
  flags, the import tool.
* The finer failures of reading the topics (`task-index.go:1254`, `:1270`): one
  page that cannot be read, or a directory that can be listed and not opened, keeps
  its titles and lists no goals. `ReadTopics` fails as a whole, titles and all, and
  reads the pages at one instant; the walk that comes next, which reads them all
  again, is the same.
* A render that panics (it would leave `refreshing` set for good) is not a
  failure the code handles and is listed as a hazard without a property.

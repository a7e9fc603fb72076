------------------------------ MODULE Provenance ------------------------------
(***************************************************************************)
(* What the page says about where an item came from: the cached snapshot of  *)
(* the host that every resolve shares, and the event log of the item's       *)
(* producer, read a piece at a time.                                         *)
(*                                                                         *)
(* A resolve past the cache window starts a refresh behind itself and serves  *)
(* what is cached; before the first snapshot every resolve refreshes in its   *)
(* own request, which its client may abandon.  A refresh reads the registry,   *)
(* lists the panes, once more if that fails, publishes and clears the token    *)
(* if it is still its own.                                                   *)
(*                                                                         *)
(* There is one item, its session and the pane its producer recorded.        *)
(* The session ledger's modes are read with the registry's names and are cut   *)
(* short with them.                                                          *)
(***************************************************************************)
EXTENDS Naturals, Sequences, SequencesExt

CONSTANTS
  Callers,     \* requests that resolve
  Background,  \* goroutines of refreshes started behind a request
  Nobody,      \* no token
  Titles,      \* what the pane may show: the session's "own" name, an "other" one,
               \* no name ("untitled"), or nothing once it is "gone"
  Names,       \* what the registry may say of the session: see NameKinds
  Records,     \* what a line may record of the item, Bare among them
  Bare,        \* a line that names the item and records no provenance
  NoRecord,    \* no line, no snapshot
  Window,      \* provenanceCacheWindow, in ticks
  MaxChanges,  \* bound on changes of the pane and of the registry
  MaxFaults,   \* bound on failed listings and abandoned requests
  MaxLines,    \* bound on the lines of a log
  MaxReplaced  \* bound on replaced and removed logs

Runners == Callers \cup Background

\* The session has a name; its name is a status glyph and nothing else; or there
\* is no name to compare, because the session has no entry or an entry without a
\* name, or its entry or the whole registry cannot be read.
NameKinds == {"named", "glyph", "none"}

\* A scan that an abandoned request cut short may end before the entry.
ReadKinds == NameKinds \cup {"cut"}

ASSUME ProvenanceAssumption ==
  /\ Callers \cap Background = {}
  /\ Nobody \notin Runners
  /\ "own" \in Titles /\ Titles \subseteq {"own", "other", "untitled", "gone"}
  /\ "named" \in Names /\ Names \subseteq NameKinds
  /\ Bare \in Records /\ NoRecord \notin Records
  /\ NoRecord \notin [names : ReadKinds, panes : Titles \cup {"failed"}]
  /\ Window \in Nat /\ MaxChanges \in Nat /\ MaxFaults \in Nat
  /\ MaxLines \in Nat /\ MaxReplaced \in Nat

VARIABLES
  title,      \* what the recorded pane shows
  registry,   \* what the session registry says of the session
  cached,     \* the host snapshot, or NoRecord
  age,        \* ticks since cachedAt, up to the window
  refreshing, \* the runner that set the token
  task,       \* every runner's refresh
  abandoned,  \* the client of a caller's refresh has gone
  log,        \* the producer's log
  offset,     \* what of it has been consumed
  events,     \* the record kept of the item
  origin,     \* history: the log that offset and events come from
  changes, faults  \* spent of the bounds

hostVars == <<title, registry, cached, age, refreshing, task, abandoned, changes, faults>>
logVars == <<log, offset, events, origin>>
vars == <<hostVars, logVars>>

-----------------------------------------------------------------------------
(* Snapshots of the host *)

Snapshot == [names : ReadKinds, panes : Titles \cup {"failed"}]
Steps == {"idle", "names", "list", "retry", "publish", "finish"}
Task == [step : Steps, names : ReadKinds, panes : Titles \cup {"failed"}]

NoTask == [step |-> "idle", names |-> "none", panes |-> "failed"]
SnapshotOf(r) == [names |-> task[r].names, panes |-> task[r].panes]

\* Of an existing pane that either side has no name for, nothing is disproven.
Unprovable(s) == s.names \in {"none", "cut"} \/ s.panes = "untitled"

\* A defect: a pane that exists passes.
OwnsByExistence(s) == s.panes # "gone"

\* A pane whose title is another name than the session's is not its pane.
OwnsPane(s) ==
  /\ s.panes # "gone"
  /\ Unprovable(s) \/ (s.names = "named" /\ s.panes = "own")

\* build: the claim for an item whose producer recorded the pane.
Built(record, s) ==
  IF record = Bare THEN "none"
  ELSE IF s.panes = "failed" THEN "unvalidated"
  ELSE IF OwnsPane(s) THEN "routable" ELSE "unroutable"

\* resolveByName: an item without a record is looked up by its session's name.
\* A name that is only a glyph strips to nothing and matches an untitled pane.
ByName(s) ==
  IF \/ s.names = "named" /\ s.panes = "own"
     \/ s.names = "glyph" /\ s.panes = "untitled"
  THEN "routable" ELSE "none"

Claim(record, s) == IF record = NoRecord THEN ByName(s) ELSE Built(record, s)

-----------------------------------------------------------------------------
(* The event log.  A line is two bytes, a line still being written one. *)

Log == [lines : Seq(Records), torn : BOOLEAN, present : BOOLEAN, serial : Nat]

Absent == [lines |-> <<>>, torn |-> FALSE, present |-> FALSE, serial |-> 0]

Size(l) == 2 * Len(l.lines) + (IF l.torn THEN 1 ELSE 0)

\* A defect: the last line about an item replaces what was known.
LastLine(previous, record) == record

\* A record that carries provenance is not replaced.
WinningLine(previous, record) ==
  IF previous \notin {NoRecord, Bare} THEN previous ELSE record

\* The complete lines from base on, merged into the record kept so far.
Merged(kept, l, base) ==
  FoldLeft(WinningLine, kept, SubSeq(l.lines, base \div 2 + 1, Len(l.lines)))

\* A defect: the offset advances to the end of what was read.
ReadToEnd(l, base) == IF Size(l) > base THEN Size(l) ELSE base

\* The offset advances to the last newline; a shorter file has no bytes past base.
Consumed(l, base) == IF 2 * Len(l.lines) > base THEN 2 * Len(l.lines) ELSE base

\* A defect: only growth is worth a read.
ReadIfGrown(l) == Size(l) > offset

\* The log exists and its size is not the offset.
WorthReading(l) == l.present /\ Size(l) # offset

\* What the lines of a log say of the item: the first that carries provenance.
Known(lines) ==
  LET rich == {i \in DOMAIN lines : lines[i] # Bare}
  IN IF rich # {} THEN lines[Min(rich)]
     ELSE IF lines = <<>> THEN NoRecord ELSE Bare

-----------------------------------------------------------------------------
Init ==
  /\ title = "own"
  /\ registry = "named"
  /\ cached = NoRecord
  /\ age = 0
  /\ refreshing = Nobody
  /\ task = [r \in Runners |-> NoTask]
  /\ abandoned = [c \in Callers |-> FALSE]
  /\ log = Absent
  /\ offset = 0
  /\ events = NoRecord
  /\ origin = 0
  /\ changes = 0 /\ faults = 0

\* A pane is renamed, reused or closed; the session's entry changes, goes or
\* comes back.
ChangeHost ==
  /\ changes < MaxChanges
  /\ changes' = changes + 1
  /\ \/ title' \in Titles \ {title} /\ UNCHANGED registry
     \/ registry' \in Names \ {registry} /\ UNCHANGED title
  /\ UNCHANGED <<cached, age, refreshing, task, abandoned, faults, logVars>>

\* The age that tells a fresh snapshot from an old one.
Aged == IF age < Window THEN age + 1 ELSE age

\* The clock advances.
Tick ==
  /\ cached # NoRecord /\ Aged # age
  /\ age' = Aged
  /\ UNCHANGED <<title, registry, cached, refreshing, task, abandoned, changes, faults, logVars>>

Started(r) == task' = [task EXCEPT ![r] = [NoTask EXCEPT !.step = "names"]]

\* The cache is past its window and no refresh is in flight.
MayRefresh == age >= Window /\ refreshing = Nobody

\* A resolve past the window starts a refresh behind itself and serves the cache.
\* One that starts none only reads.
ServeStale(b) ==
  /\ cached # NoRecord
  /\ MayRefresh
  /\ task[b].step = "idle"
  /\ refreshing' = b
  /\ Started(b)
  /\ UNCHANGED <<title, registry, cached, age, abandoned, changes, faults, logVars>>

\* With nothing to serve, a resolve refreshes in its own request.
ColdStart(c) ==
  /\ cached = NoRecord
  /\ task[c].step = "idle"
  /\ refreshing' = c
  /\ Started(c)
  /\ UNCHANGED <<title, registry, cached, age, abandoned, changes, faults, logVars>>

\* The client of a cold start goes away.  Later than this nobody asks whether it
\* is there.
Abandon(c) ==
  /\ task[c].step \in {"names", "list", "retry"}
  /\ ~ abandoned[c]
  /\ faults < MaxFaults
  /\ abandoned' = [abandoned EXCEPT ![c] = TRUE]
  /\ faults' = faults + 1
  /\ UNCHANGED <<title, registry, cached, age, refreshing, task, changes, logVars>>

\* context.WithoutCancel: a refresh behind a request does not end with it.
Cancelled(r) == r \in Callers /\ abandoned[r]

NamesRead(r, names) ==
  /\ task[r].step = "names"
  /\ task' = [task EXCEPT ![r].names = names, ![r].step = "list"]
  /\ UNCHANGED <<title, registry, cached, age, refreshing, abandoned, changes, logVars>>

\* The scan of the registry and of the ledger: a cancelled one returns what it has.
ReadNames(r) ==
  /\ NamesRead(r, registry) \/ (Cancelled(r) /\ NamesRead(r, "cut"))
  /\ UNCHANGED faults

\* The entry, or the directory, cannot be read just now, and is left out.
SkipName(r) ==
  /\ registry # "none" /\ faults < MaxFaults
  /\ NamesRead(r, "none")
  /\ faults' = faults + 1

\* A defect: the listing runs under a context of its own.
ListsAnyway(r) == TRUE

\* A listing under a cancelled context fails.
MayList(r) == ~ Cancelled(r)

\* The listing answers.
List(r) ==
  /\ task[r].step \in {"list", "retry"}
  /\ MayList(r)
  /\ task' = [task EXCEPT ![r].panes = title, ![r].step = "publish"]
  /\ UNCHANGED <<title, registry, cached, age, refreshing, abandoned, changes, faults, logVars>>

\* It fails or times out: once more, and then the failure is the result.
ListFails(r) ==
  /\ task[r].step \in {"list", "retry"}
  /\ \/ Cancelled(r) /\ UNCHANGED faults
     \/ ~ Cancelled(r) /\ faults < MaxFaults /\ faults' = faults + 1
  /\ task' = [task EXCEPT ![r].panes = "failed",
                          ![r].step = IF task[r].step = "list" THEN "retry" ELSE "publish"]
  /\ UNCHANGED <<title, registry, cached, age, refreshing, abandoned, changes, logVars>>

\* A defect: a snapshot once published is kept.
PublishedOnce(r) == IF cached = NoRecord THEN SnapshotOf(r) ELSE cached

\* What a refresh leaves in the cache.
Published(r) == SnapshotOf(r)

\* The snapshot replaces the cached one and is stamped now.
Publish(r) ==
  /\ task[r].step = "publish"
  /\ cached' = Published(r)
  /\ age' = 0
  /\ task' = [task EXCEPT ![r] = [NoTask EXCEPT !.step = "finish"]]
  /\ UNCHANGED <<title, registry, refreshing, abandoned, changes, faults, logVars>>

\* A defect: a refresh clears the token whoever set it.
ClearedByAny(r) == Nobody

\* Only the refresh that set the token clears it.
Cleared(r) == IF refreshing = r THEN Nobody ELSE refreshing

FinishRefresh(r) ==
  /\ task[r].step = "finish"
  /\ refreshing' = Cleared(r)
  /\ task' = [task EXCEPT ![r] = NoTask]
  /\ abandoned' = [c \in Callers |-> abandoned[c] /\ c # r]
  /\ UNCHANGED <<title, registry, cached, age, changes, faults, logVars>>

-----------------------------------------------------------------------------
(* The producer and its log *)

\* What a producer may do to its log: begin a line, end it, replace the log by
\* an empty one, remove it.
Written(l) ==
  (IF ~ l.torn /\ Len(l.lines) < MaxLines
     THEN {[l EXCEPT !.torn = TRUE, !.present = TRUE]} ELSE {})
  \cup (IF l.torn
          THEN {[l EXCEPT !.lines = Append(l.lines, r), !.torn = FALSE] : r \in Records} ELSE {})
  \cup (IF l.present /\ l.serial < MaxReplaced
          THEN {[Absent EXCEPT !.present = p, !.serial = l.serial + 1] : p \in BOOLEAN} ELSE {})

Write ==
  /\ log' \in Written(log)
  /\ UNCHANGED <<hostVars, offset, events, origin>>

\* readEvents under its lock: the size first, then the bytes, with what the
\* producer writes in between.  A log that shrank is read from its start.  A
\* read that fails or is cancelled while it decodes changes nothing.
ReadEvents ==
  /\ WorthReading(log)
  /\ LET shrank == Size(log) < offset
         base == IF shrank THEN 0 ELSE offset
         kept == IF shrank THEN NoRecord ELSE events
     IN /\ log' \in {log} \cup Written(log)
        /\ events' = Merged(kept, log', base)
        /\ offset' = Consumed(log', base)
        /\ origin' = IF base = 0 THEN log'.serial ELSE origin
  /\ UNCHANGED hostVars

-----------------------------------------------------------------------------
\* What a refresh does next.
Refresh(r) ==
  ReadNames(r) \/ SkipName(r) \/ List(r) \/ ListFails(r) \/ Publish(r) \/ FinishRefresh(r)

Next ==
  \/ ChangeHost
  \/ Tick
  \/ \E b \in Background : ServeStale(b)
  \/ \E c \in Callers : ColdStart(c) \/ Abandon(c)
  \/ \E r \in Runners : Refresh(r)
  \/ Write
  \/ ReadEvents

Spec == Init /\ [][Next]_vars

\* A refresh ends, by its result or by its timeout; time passes, and pages keep
\* resolving, which reads the logs of the items they show.
Fairness ==
  /\ \A r \in Runners : WF_vars(Refresh(r))
  /\ WF_vars(Tick \/ (\E b \in Background : ServeStale(b)) \/ (\E c \in Callers : ColdStart(c)))
  /\ WF_vars(ReadEvents)

FairSpec == Spec /\ Fairness

-----------------------------------------------------------------------------
\* Every variable keeps its type: the age is counted up to the window.
TypeOK ==
  /\ title \in Titles
  /\ registry \in Names
  /\ cached \in Snapshot \cup {NoRecord}
  /\ age \in 0 .. Window
  /\ refreshing \in Runners \cup {Nobody}
  /\ task \in [Runners -> Task]
  /\ abandoned \in [Callers -> BOOLEAN]
  /\ log \in Log
  /\ offset \in Nat
  /\ origin \in Nat
  /\ changes \in 0 .. MaxChanges
  /\ faults \in 0 .. MaxFaults

Running(r) == task[r].step # "idle"

\* A wedged listing outlasts the window, and cold starts overlap: still the
\* token is never left behind by a refresh that has ended, and at most one
\* refresh runs behind the requests, the one that holds the token.
SingleFlight ==
  /\ refreshing # Nobody => Running(refreshing)
  /\ \A b \in Background : Running(b) => refreshing = b

\* What a claim of a pane may rest on.
Proven(record, s) ==
  /\ s.names # "cut"
  /\ \/ s.names = "named" /\ s.panes = "own"
     \/ s.panes = "untitled"
     \/ s.names = "none" /\ s.panes # "gone" /\ record # NoRecord

\* What a refresh could learn of the name decides what a pane may be offered
\* on.  A name that was read and a pane that shows one must agree.  A pane
\* without a title passes; so does any existing pane that the producer recorded,
\* when the registry has no name for the session.  But the name that an
\* abandoned request did not get to proves nothing: no resolve that shares the
\* snapshot may take it for a session without a name.
ClaimsProven ==
  \A s \in {SnapshotOf(r) : r \in {q \in Runners : task[q].step = "publish"}}
          \cup ({cached} \ {NoRecord}) :
    \A record \in Records \cup {NoRecord} :
      Claim(record, s) = "routable" => Proven(record, s)

\* However the log was read, in pieces, past torn lines, failed reads and
\* writes between the size and the bytes: what is kept of it is what its
\* consumed lines say, the first that carries provenance winning.
EventsExact ==
  origin = log.serial /\ log.present =>
    /\ offset \in {2 * n : n \in 0 .. Len(log.lines)}
    /\ events = Known(SubSeq(log.lines, 1, offset \div 2))

\* The snapshot comes to show the host as it is, whatever abandoned cold starts,
\* failed listings and late publications left in the cache.
HostConverges ==
  <>[](/\ cached # NoRecord
       /\ cached.panes = title
       /\ cached.names = registry)

\* Every complete line comes to be read, and a log that was replaced by a
\* shorter one is read anew.
EventsConverge ==
  <>[](log.present =>
         /\ Size(log) >= offset
         /\ origin = log.serial => events = Known(log.lines))

=============================================================================

------------------------------ MODULE TaskIndex ------------------------------
(***************************************************************************)
(* The session-to-task index over a vault that other programs edit, and the  *)
(* watcher that keeps it current.                                            *)
(*                                                                         *)
(* The watcher's loop applies bursts of changed paths and reconciles on its   *)
(* ticker; a render that finds the index old reconciles it too.  A           *)
(* reconcile holds a token, lists the directory, copies the serving index,    *)
(* walks the files and installs the result unless an apply came between.      *)
(* A step is a system call or a critical section, so that edits, applies      *)
(* and walks meet in every order.                                            *)
(*                                                                         *)
(* Stamps name the versions of a file.  An edit that changes neither its     *)
(* size nor its timestamp keeps the stamp; hidden is a history variable, the  *)
(* files whose present version came about that way.                          *)
(***************************************************************************)
EXTENDS VaultFile

CONSTANTS
  Paths,      \* the names under 25 Tasks/, ordered as the numbers they are
  NoFile,     \* the body of a file that is not there
  Bodies,     \* the bodies editors write
  Rungs,      \* goal directories with the topic pages beside them
  FirstRungs, \* what the boot build finds of them
  Sessions,   \* the session ids the bodies name
  Renders,    \* callers of Lookup
  Loop,       \* the watcher's loop
  MaxEdits,   \* bound on edits of task files
  MaxHidden,  \* bound on those of them that keep the stamp
  MaxRungs,   \* bound on edits of goals and topics
  MaxFailures \* bound on lost or stray events and failed reads, stats and walks

Walkers == Renders \cup {Loop}
Stamps == 0 .. MaxEdits + 1

ASSUME TaskIndexAssumption ==
  /\ Paths \subseteq Nat /\ IsFiniteSet(Paths)
  /\ NoFile \notin Bodies
  /\ FirstRungs \in Rungs
  /\ Loop \notin Renders /\ NoFile \notin Walkers
  /\ \A b \in Bodies : Parsed(b).session \in Sessions \cup {""} /\ Parsed(b).declared \in Seq(STRING)
  /\ \A r \in Rungs : r.goals \in SUBSET STRING /\ r.pages \in Seq(File)
  /\ "" \notin Sessions
  /\ MaxEdits \in Nat /\ MaxHidden \in Nat /\ MaxRungs \in Nat /\ MaxFailures \in Nat

VARIABLES
  disk,     \* the body and the stamp under every path
  rungs,    \* the goal files and the topic pages of the vault
  index,    \* the serving index
  applied,  \* appliedSeq
  token,    \* the walker whose refresh is in flight, or NoFile
  watching, \* the watch could be established
  events,   \* paths of undelivered events
  apply,    \* the loop's ApplyPaths
  walk,     \* every walker's reconcile
  hidden,   \* history: see above
  edits, rungEdits, failures   \* spent of the bounds

vars == <<disk, rungs, index, applied, token, watching, events, apply,
          walk, hidden, edits, rungEdits, failures>>

vault == <<disk, rungs, hidden, edits, rungEdits>>

-----------------------------------------------------------------------------
(* An index *)

NoEntry == [session |-> "", terminal |-> FALSE, touching |-> FALSE, declared |-> <<>>,
            goals |-> <<>>, topic |-> 0]

\* Entries are kept per path; winners is derived from them by session.
EmptyIndex ==
  [byPath |-> [p \in Paths |-> NoEntry],
   winners |-> [s \in Sessions |-> NoEntry],
   stamps |-> [p \in Paths |-> 0],
   goals |-> {},
   topics |-> {},
   goalTopics |-> <<>>]

\* What a walk may find of the goals and of the pages, or nothing of either.
GoalSets == {r.goals : r \in Rungs} \cup {{}}
PageLists == {r.pages : r \in Rungs} \cup {<<>>}

EntryType ==
  {NoEntry} \cup
  [session : Sessions, terminal : BOOLEAN, touching : BOOLEAN,
   declared : {Parsed(b).declared : b \in Bodies},
   goals : {ExistingGoals(Parsed(b).declared, g) : b \in Bodies, g \in GoalSets},
   topic : Nat]

IsIndex(ix) ==
  /\ ix.byPath \in [Paths -> EntryType]
  /\ ix.winners \in [Sessions -> EntryType]
  /\ ix.stamps \in [Paths -> Stamps]
  /\ ix.goals \in GoalSets
  /\ ix.topics \in SUBSET Nat

Candidates(byPath, s) == {p \in Paths : byPath[p].session = s}

\* A defect: a later candidate always wins.
LastWins(winner, candidate) == candidate

\* A candidate in flight is not replaced by one that is not.
Better(winner, candidate) ==
  IF ~ winner.terminal /\ candidate.terminal THEN winner ELSE candidate

\* recomputeSession visits the candidates in ascending order of their paths.
Winner(byPath, s) ==
  LET paths == Candidates(byPath, s)
      best[p \in paths] ==
        IF p = Min(paths) THEN byPath[p]
        ELSE Better(best[Max({q \in paths : q < p})], byPath[p])
  IN IF paths = {} THEN NoEntry ELSE best[Max(paths)]

\* forgetPath recomputes the session a path leaves, addCandidate the one it joins.
Touched(ix, new) ==
  {ix.byPath[p].session : p \in DOMAIN new} \cup {new[p].session : p \in DOMAIN new}

\* The paths of new are forgotten and, but for NoEntry, indexed anew.
WithEntries(ix, new) ==
  LET byPath == [p \in Paths |-> IF p \in DOMAIN new THEN new[p] ELSE ix.byPath[p]]
      touched == Touched(ix, new)
  IN [ix EXCEPT !.byPath = byPath,
                !.winners = [s \in Sessions |->
                               IF s \in touched THEN Winner(byPath, s) ELSE ix.winners[s]]]

\* Goals and topic of an entry, from the rungs of the index it goes into.
Resolved(ix, entry) ==
  LET goal == GoalOf(entry.declared, ix.goals)
  IN [entry EXCEPT !.goals = ExistingGoals(entry.declared, ix.goals),
                   !.topic = IF goal = "" THEN 0 ELSE ix.goalTopics[goal]]

\* What each body says of itself; a body without a session contributes nothing.
Entries ==
  [body \in Bodies |->
     LET f == Parsed(body)
     IN IF f.session = "" THEN NoEntry
        ELSE [session |-> f.session, terminal |-> f.terminal, touching |-> f.touching,
              declared |-> f.declared, goals |-> <<>>, topic |-> 0]]

Entry(body) == IF body = NoFile THEN NoEntry ELSE Entries[body]

\* indexContent: the one reading of a file's bytes.
Indexed(ix, body) == IF Entry(body) = NoEntry THEN NoEntry ELSE Resolved(ix, Entry(body))

WithEntry(ix, p, entry) == WithEntries(ix, [q \in {p} |-> entry])

WithStamp(ix, p, stamp) == IF stamp = 0 THEN ix ELSE [ix EXCEPT !.stamps[p] = stamp]

\* readGoalTitles, and readGoalTopics after it.
WithGoals(ix, goals) == [ix EXCEPT !.goals = goals]

Tables == [g \in GoalSets |-> [pages \in PageLists |-> GoalTopics(g, pages)]]

\* A defect: a title is taken for a goal because a page lists it.
WithAllTitles(ix, pages) ==
  LET titles == ix.goals \cup UNION {Range(SectionTitles(pages[t])) : t \in DOMAIN pages}
  IN [ix EXCEPT !.topics = DOMAIN pages, !.goalTopics = GoalTopics(titles, pages)]

WithTopics(ix, pages) ==
  [ix EXCEPT !.topics = DOMAIN pages, !.goalTopics = Tables[ix.goals][pages]]

-----------------------------------------------------------------------------
(* Boot *)

\* The boot build holds the files it could read and no others.
Built(read) ==
  LET ix == [WithTopics(WithGoals(EmptyIndex, rungs.goals), rungs.pages)
               EXCEPT !.stamps = [p \in Paths |-> disk[p].stamp]]
  IN WithEntries(ix, [p \in read |-> Indexed(ix, disk[p].body)])

NoApply == [pc |-> "idle", todo |-> {}, at |-> 0, stamp |-> 0, read |-> [p \in {} |-> NoFile]]

NoWalk == [pc |-> "idle", todo |-> {}, copy |-> EmptyIndex, base |-> 0, fresh |-> EmptyIndex]

Init ==
  /\ disk \in [Paths -> {[body |-> b, stamp |-> 1] : b \in Bodies}
                          \cup {[body |-> NoFile, stamp |-> 0]}]
  /\ rungs = FirstRungs
  /\ \E read \in SUBSET {p \in Paths : disk[p].body # NoFile} :
       /\ index = Built(read)
       /\ failures = IF \A p \in Paths \ read : disk[p].body = NoFile THEN 0 ELSE 1
  /\ failures <= MaxFailures
  /\ applied = 0
  /\ token = NoFile
  /\ watching \in BOOLEAN
  /\ events = {}
  /\ apply = NoApply
  /\ walk = [w \in Walkers |-> NoWalk]
  /\ hidden = {}
  /\ edits = 0
  /\ rungEdits = 0

-----------------------------------------------------------------------------
(* The vault *)

Fails == failures < MaxFailures /\ failures' = failures + 1

Told(p) ==
  \/ events' = (IF watching THEN events \cup {p} ELSE events) /\ UNCHANGED failures
  \/ Fails /\ UNCHANGED events

\* A file is written, replaced or removed.  Its event may be dropped.
Edit(p, body) ==
  /\ edits < MaxEdits
  /\ edits' = edits + 1
  /\ body # disk[p].body
  /\ disk' = [disk EXCEPT ![p] = [body |-> body,
                                  stamp |-> IF body = NoFile THEN 0 ELSE edits + 2]]
  /\ hidden' = hidden \ {p}
  /\ Told(p)
  /\ UNCHANGED <<rungs, index, applied, token, watching, apply, walk, rungEdits>>

\* An edit of the same size within one tick of the file system's clock.
HiddenEdit(p, body) ==
  /\ edits < MaxEdits
  /\ edits' = edits + 1
  /\ Cardinality(hidden) < MaxHidden
  /\ disk[p].body \notin {NoFile, body}
  /\ disk' = [disk EXCEPT ![p].body = body]
  /\ hidden' = hidden \cup {p}
  /\ Told(p)
  /\ UNCHANGED <<rungs, index, applied, token, watching, apply, walk, rungEdits>>

\* Goals and topics change unseen: nothing watches their directories.
RungEdit(r) ==
  /\ rungEdits < MaxRungs
  /\ rungEdits' = rungEdits + 1
  /\ r # rungs
  /\ rungs' = r
  /\ UNCHANGED <<disk, index, applied, token, watching, events, apply, walk,
                 hidden, edits, failures>>

-----------------------------------------------------------------------------
(* ApplyPaths, driven by the loop *)

LoopFree == watching /\ apply.pc = "idle" /\ walk[Loop].pc = "idle"

\* The burst is drained without repeats.
BurstStart(P) ==
  /\ LoopFree
  /\ P # {}
  /\ events' = events \ P
  /\ apply' = [NoApply EXCEPT !.pc = "stat", !.todo = P]
  /\ UNCHANGED <<vault, index, applied, token, watching, walk, failures>>

\* Events of a change that is no edit, or of no task file at all.
StrayBurst(P) ==
  /\ LoopFree
  /\ P \cap events = {}
  /\ Fails
  /\ apply' = [NoApply EXCEPT !.pc = "stat", !.todo = P]
  /\ UNCHANGED <<vault, index, applied, token, watching, events, walk>>

\* The directory cannot be opened: the burst is gone.
BurstDropped ==
  /\ apply.pc = "stat"
  /\ Fails
  /\ apply' = NoApply
  /\ UNCHANGED <<vault, index, applied, token, watching, events, walk>>

\* Every path of the burst is stamped and then read, in any order.
ApplyStat(p) ==
  /\ apply.pc = "stat"
  /\ p \in apply.todo
  /\ \/ apply' = [apply EXCEPT !.pc = "read", !.at = p, !.stamp = disk[p].stamp]
        /\ UNCHANGED failures
     \/ apply' = [apply EXCEPT !.pc = "read", !.at = p, !.stamp = 0] /\ Fails
  /\ UNCHANGED <<vault, index, applied, token, watching, events, walk>>

\* What has been read of a path replaces what was.
WithRead(read, body) ==
  [p \in DOMAIN read \cup {apply.at} |->
     IF p = apply.at THEN [stamp |-> apply.stamp, body |-> body] ELSE read[p]]

\* A file that cannot be read is a removal.
ApplyRead ==
  /\ apply.pc = "read"
  /\ \E body \in {disk[apply.at].body, NoFile} :
       /\ apply' = [apply EXCEPT !.pc = "stat", !.todo = @ \ {apply.at},
                      !.at = 0, !.stamp = 0, !.read = WithRead(@, body)]
       /\ IF body = disk[apply.at].body THEN UNCHANGED failures ELSE Fails
  /\ UNCHANGED <<vault, index, applied, token, watching, events, walk>>

\* A defect: the stamp is taken once the content is there.
StampedLate(p) == disk[p].stamp

StampRead(p) == apply.read[p].stamp

\* The stamp of a path that is gone is not kept.
StampsApplied ==
  [p \in Paths |->
     IF p \notin DOMAIN apply.read THEN index.stamps[p]
     ELSE IF apply.read[p].body = NoFile THEN 0 ELSE StampRead(p)]

\* One critical section: every path is forgotten and indexed anew.
ApplyLocked ==
  /\ apply.pc = "stat"
  /\ apply.todo = {}
  /\ index' = WithEntries([index EXCEPT !.stamps = StampsApplied],
                          [p \in DOMAIN apply.read |-> Indexed(index, apply.read[p].body)])
  /\ applied' = applied + 1
  /\ apply' = NoApply
  /\ UNCHANGED <<vault, token, watching, events, walk, failures>>

-----------------------------------------------------------------------------
(* Reconcile *)

\* A defect: the claim does not look for a refresh in flight.
ClaimedBlindly(w) == walk[w].pc = "idle"

MayClaim(w) == token = NoFile /\ walk[w].pc = "idle"

\* The loop reconciles on its ticker and on a watcher's error, a render that
\* finds the backstop window lapsed, as it may at any time: the look at the
\* window and at the token and the claim are one critical section.
Claim(w) ==
  /\ MayClaim(w)
  /\ w = Loop => LoopFree
  /\ token' = w
  /\ walk' = [walk EXCEPT ![w].pc = "goals"]
  /\ UNCHANGED <<vault, index, applied, watching, events, apply, failures>>

\* The walk w goes on.
Goes(w, to) == walk' = [walk EXCEPT ![w] = to]

walkOnly == <<vault, index, applied, token, watching, events, apply>>

\* A directory that cannot be read leaves its rung empty.
ReadGoals(w) ==
  /\ walk[w].pc = "goals"
  /\ \/ Goes(w, [walk[w] EXCEPT !.pc = "topics", !.fresh = WithGoals(@, rungs.goals)])
        /\ UNCHANGED failures
     \/ Goes(w, [walk[w] EXCEPT !.pc = "topics"]) /\ Fails
  /\ UNCHANGED walkOnly

ReadTopics(w) ==
  /\ walk[w].pc = "topics"
  /\ \/ Goes(w, [walk[w] EXCEPT !.pc = "list", !.fresh = WithTopics(@, rungs.pages)])
        /\ UNCHANGED failures
     \/ Goes(w, [walk[w] EXCEPT !.pc = "list", !.fresh = WithTopics(@, <<>>)]) /\ Fails
  /\ UNCHANGED walkOnly

ListDir(w) ==
  /\ walk[w].pc = "list"
  /\ Goes(w, [walk[w] EXCEPT !.pc = "copy", !.todo = {p \in Paths : disk[p].body # NoFile}])
  /\ UNCHANGED <<walkOnly, failures>>

\* The copy and the sequence are of one instant.
CopyIndex(w) ==
  /\ walk[w].pc = "copy"
  /\ Goes(w, [walk[w] EXCEPT !.pc = "files", !.copy = index, !.base = applied])
  /\ UNCHANGED <<walkOnly, failures>>

Next_(w) == Min(walk[w].todo)

Walked(w) == [walk[w] EXCEPT !.pc = "files", !.todo = @ \ {Next_(w)}]

\* A defect: what was resolved when the file was read is kept.
ReusedAsHeld(w, p) ==
  [Walked(w) EXCEPT !.fresh = WithEntry(WithStamp(@, p, disk[p].stamp), p,
                                        walk[w].copy.byPath[p])]

\* A file whose stamp is the one held keeps its entry, resolved anew.
Reuse(w, p) ==
  [Walked(w) EXCEPT !.fresh = WithEntry(WithStamp(@, p, disk[p].stamp), p,
                                        Resolved(@, walk[w].copy.byPath[p]))]

\* A defect: the stamp alone decides.
HeldByStamp(w, p) == walk[w].copy.stamps[p] = disk[p].stamp

Held(w, p) ==
  /\ walk[w].copy.byPath[p] # NoEntry
  /\ walk[w].copy.stamps[p] = disk[p].stamp

CompareFile(w) ==
  LET p == Next_(w)
      again == [walk[w] EXCEPT !.pc = "restamp"]
  IN /\ walk[w].pc = "files"
     /\ walk[w].todo # {}
     /\ \/ /\ disk[p].stamp # 0
           /\ Goes(w, IF Held(w, p) THEN Reuse(w, p)
                      ELSE [again EXCEPT !.fresh = WithStamp(@, p, disk[p].stamp)])
           /\ UNCHANGED failures
        \/ Goes(w, again) /\ IF disk[p].stamp = 0 THEN UNCHANGED failures ELSE Fails
     /\ UNCHANGED walkOnly

\* addFile stamps once more before it reads.
RestampFile(w) ==
  LET p == Next_(w)
  IN /\ walk[w].pc = "restamp"
     /\ Goes(w, [walk[w] EXCEPT !.pc = "content", !.fresh = WithStamp(@, p, disk[p].stamp)])
     /\ UNCHANGED <<walkOnly, failures>>

ReadFile(w) ==
  LET p == Next_(w)
  IN /\ walk[w].pc = "content"
     /\ \E body \in {disk[p].body, NoFile} :
          /\ Goes(w, [Walked(w) EXCEPT !.fresh = WithEntry(@, p, Indexed(@, body))])
          /\ IF body = disk[p].body THEN UNCHANGED failures ELSE Fails
     /\ UNCHANGED walkOnly

\* The listing cannot be read, or the walk is cancelled: nothing is installed.
WalkFails(w) ==
  /\ walk[w].pc \in {"list", "files"}
  /\ Fails
  /\ Goes(w, [NoWalk EXCEPT !.pc = "finish"])
  /\ UNCHANGED walkOnly

\* A defect: whatever was applied since, the result is installed.
InstallAlways(w) == TRUE

MayInstall(w) == walk[w].base = applied

\* One critical section: the check and the swap.
Install(w) ==
  /\ walk[w].pc = "files"
  /\ walk[w].todo = {}
  /\ index' = IF MayInstall(w) THEN walk[w].fresh ELSE index
  /\ Goes(w, [NoWalk EXCEPT !.pc = "finish"])
  /\ UNCHANGED <<vault, applied, token, watching, events, apply, failures>>

\* A defect: a walk that failed keeps its token.
KeptToken(w) == IF failures > 0 THEN token ELSE NoFile

\* Only its own token is cleared.
Cleared(w) == IF token = w THEN NoFile ELSE token

Finish(w) ==
  /\ walk[w].pc = "finish"
  /\ token' = Cleared(w)
  /\ Goes(w, NoWalk)
  /\ UNCHANGED <<vault, index, applied, watching, events, apply, failures>>

-----------------------------------------------------------------------------
Walk(w) ==
  \/ ReadGoals(w) \/ ReadTopics(w) \/ ListDir(w) \/ CopyIndex(w)
  \/ CompareFile(w) \/ RestampFile(w) \/ ReadFile(w)
  \/ Install(w) \/ Finish(w)

Applies == ApplyRead \/ ApplyLocked \/ \E p \in Paths : ApplyStat(p)

LoopNext ==
  \/ Claim(Loop)
  \/ \E P \in SUBSET events : BurstStart(P)
  \/ Walk(Loop)
  \/ Applies

Next ==
  \/ \E p \in Paths, b \in Bodies \cup {NoFile} : Edit(p, b) \/ HiddenEdit(p, b)
  \/ \E r \in Rungs : RungEdit(r)
  \/ LoopNext
  \/ \E P \in {{}} \cup {{p} : p \in Paths} : StrayBurst(P)
  \/ BurstDropped
  \/ \E r \in Renders : Claim(r) \/ Walk(r)
  \/ \E w \in Walkers : WalkFails(w)

Spec == Init /\ [][Next]_vars

\* The loop's goroutine and its ticker run on, and a render that began a
\* reconcile, for whose token the loop waits, goes on with it; nobody has to
\* render or to edit.
FairSpec == Spec /\ WF_vars(LoopNext \/ \E r \in Renders : Walk(r))

-----------------------------------------------------------------------------
(* Properties *)

\* Type correctness: every index, serving, copied or being built, holds entries
\* that bodies make by goals of the vault, and stamps the files once had, and the
\* serving one a topic, or none, for exactly its goals.
TypeOK ==
  /\ IsIndex(index)
  /\ DOMAIN index.goalTopics = index.goals
  /\ applied \in Nat
  /\ token \in Walkers \cup {NoFile}
  /\ events \in SUBSET Paths
  /\ apply.pc \in {"idle", "stat", "read"}
  /\ apply.todo \in SUBSET Paths
  /\ \A w \in Walkers :
       /\ walk[w].todo \in SUBSET Paths
       /\ IsIndex(walk[w].copy)
       /\ IsIndex(walk[w].fresh)

\* The last of these candidates in flight, or the last of all when none is.
Preferred(byPath, all) ==
  LET live == {p \in all : ~ byPath[p].terminal}
  IN IF all = {} THEN NoEntry ELSE byPath[Max(IF live = {} THEN all ELSE live)]

\* The winner of a session is the last of its candidates in flight, or the last
\* of all when none is; whatever sequence of applies and walks led to it.
WinnersExact ==
  \A s \in Sessions :
    index.winners[s] = Preferred(index.byPath, Candidates(index.byPath, s))

\* Every entry carries the goals and the topic the serving rungs give it, the
\* reused ones too.
RungsApplied ==
  \A p \in Paths : index.byPath[p] # NoEntry => index.byPath[p] = Resolved(index, index.byPath[p])

SameFile(entry, body) ==
  [entry EXCEPT !.goals = <<>>, !.topic = 0] = Entry(body)

\* A stamp vouches for the bytes: an entry held under the stamp its file has is
\* what the file says, but for an edit that kept the stamp.
StampVouches ==
  \A p \in Paths :
    index.byPath[p] # NoEntry /\ index.stamps[p] = disk[p].stamp /\ index.stamps[p] # 0 =>
      p \in hidden \/ SameFile(index.byPath[p], disk[p].body)

\* One walk over the vault at a time, and the token is its walker's.
OneWalk ==
  \A w \in Walkers : walk[w].pc # "idle" => token = w

Current(p) ==
  /\ SameFile(index.byPath[p], disk[p].body)
  /\ index.byPath[p] # NoEntry => index.stamps[p] = disk[p].stamp

\* An install takes nothing back of what its walk has read: a file the serving
\* index holds as it is on disk is held so after it, however applies and the walk
\* crossed; but for an edit that kept the stamp.
InstallKeepsListed ==
  [][\A w \in Walkers, p \in Paths \ hidden :
       Install(w) /\ walk[w].fresh.byPath[p] # NoEntry /\ index.byPath[p] # NoEntry /\ Current(p)
         => Current(p)']_vars

\* An update that landed during a walk is not overwritten by the older listing
\* the walk was building: a file the serving index holds as it is on disk is
\* held so after an install.
UpdateSurvivesInstall ==
  [][\A w \in Walkers, p \in Paths :
       Install(w) /\ index.byPath[p] # NoEntry /\ Current(p) => Current(p)']_vars

\* Once the vault rests, a watched index becomes the vault and stays so,
\* whatever events were lost and whatever failed before; only an edit that kept
\* its file's stamp can go unseen.
IndexConverges ==
  <>[](watching =>
         /\ \A p \in Paths : SameFile(index.byPath[p], disk[p].body) \/ p \in hidden
         /\ index.goals = rungs.goals
         /\ index.topics = DOMAIN rungs.pages
         /\ index.goalTopics = Tables[rungs.goals][rungs.pages])

\* A refresh ends: the token is given back whatever became of the walk.
TokenReturns == []<>(token = NoFile)

=============================================================================

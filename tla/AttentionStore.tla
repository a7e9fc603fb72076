--------------------------- MODULE AttentionStore ---------------------------
(***************************************************************************)
(* The durable attention store: the items bucket, its four derived indexes  *)
(* (live, open, history, dedup) with their built markers, the delivery      *)
(* attempts, and every operation on them.                                   *)
(*                                                                         *)
(* The database admits one writer and commits a transaction whole, so an    *)
(* operation that is one transaction is one action.  A read is six steps -  *)
(* ensure, scan, classify, resolve, judge, commit - because the code takes  *)
(* it out of a single transaction, and a sweep is two.  The prune's own     *)
(* transaction is the last two: it looks producers up while it holds the    *)
(* writer lock, and they come and go until it commits.                      *)
(***************************************************************************)
EXTENDS SessionLiveness, FiniteSets

CONSTANTS
  Requests,   \* what producers push
  Outcomes,   \* delivery outcomes an arm records
  Readers,    \* concurrent callers of Read and ReadBoard
  Droppable,  \* indexes an operator may delete while the process is down
  Outages,    \* whether the session registry may be unlistable for a while
  MaxAge,     \* age past which an answered item is closed
  MaxFaults   \* bound on restarts and failed transactions

IndexNames == {"live", "open", "history", "dedup"}

ASSUME StoreAssumption ==
  /\ NoItem \notin Item
  /\ Requests \subseteq PushRequest
  /\ Droppable \subseteq IndexNames
  /\ MaxTime \in Nat
  /\ Outages \in BOOLEAN
  /\ MaxAge \in Nat
  /\ MaxFaults \in Nat

VARIABLES
  items,      \* the items bucket
  bucket,     \* whether the items bucket exists
  live,       \* live index, by item id
  open,       \* open index, by item id
  history,    \* history index, by item id and creation time
  dedup,      \* dedup index, by key
  built,      \* the indexes whose marker is present
  attempts,   \* delivery attempts, by item id
  issued,     \* the ids the generator has drawn
  now,        \* the store's clock
  pc,         \* next step of each read
  board,      \* whether the read about to scan is a ReadBoard
  scanned,    \* the copies the read's scan returned
  doomed,     \* the ids the read classified, then judged, for removal
  judgedAt,   \* the instant the prune judges deadlines against
  snapshot,   \* the sessions the prune's own listing showed live
  unseen,     \* of the producers judged gone, those no listing had to show
  sweeping,   \* whether a sweep is between its two steps
  cutoff,     \* the sweep's age bound
  faults      \* restarts and failed transactions so far

bucketVars == <<items, bucket, live, open, history, dedup, built, attempts>>
storeVars == <<bucketVars, issued>>
envVars == <<now, livenessVars>>
readVars == <<pc, board, scanned, doomed, judgedAt, snapshot, unseen>>
sweepVars == <<sweeping, cutoff>>
vars == <<storeVars, envVars, readVars, sweepVars, faults>>

-----------------------------------------------------------------------------
(* Liveness of an item's producer, as the store means it. *)

\* An unreadable registry proves nothing, so it reads as live; an owner is
\* never probed.
IsLive(ref) ==
  \/ ref \in OwnerRefs
  \/ ref \in alive
  \/ ref \in SessionRefs /\ ~readable

\* A prune that has judged its rows holds the writer lock until it commits.
WriterFree == \A r \in Readers : pc[r] # "commit"

-----------------------------------------------------------------------------
(* The indexes as the items bucket determines them. *)

LiveIndexOf(its) == [ i \in Ids |-> IF LiveWorthy(its[i]) THEN its[i] ELSE NoItem ]

OpenIndexOf(its) == [ i \in Ids |-> IF IsOpen(its[i]) THEN its[i] ELSE NoItem ]

HistoryIndexOf(its) ==
  [ i \in Ids |-> [ t \in Times |->
      IF its[i] # NoItem /\ its[i].createdAt = t THEN its[i] ELSE NoItem ] ]

\* The rebuild walks the bucket in the order of random ids and the last open
\* row of a key wins, so any of them may represent it.
DedupIndexesOf(its) ==
  { d \in [ Keys -> { its[i] : i \in Ids } \cup {NoItem} ] :
      \A k \in Keys :
        LET rows == { its[i] : i \in { j \in Ids : IsOpen(its[j]) /\ its[j].key = k } }
        IN  IF rows = {} THEN d[k] = NoItem ELSE d[k] \in rows }

\* ensureDedupIndex runs inside the push's own transaction.
EnsuredDedup == IF "dedup" \in built THEN {dedup} ELSE DedupIndexesOf(items)

-----------------------------------------------------------------------------
(* Every write of an item goes through PutItems or RemoveItems. *)

\* Defect: the row under the old creation time is left behind.
HistoryKeepsOldKey(S, new) ==
  [ i \in Ids |-> [ t \in Times |->
      IF i \in S /\ new[i].createdAt = t THEN new[i] ELSE history[i][t] ] ]

HistoryAfterPut(S, new) ==
  [ i \in Ids |-> [ t \in Times |->
      IF i \notin S THEN history[i][t]
      ELSE IF new[i].createdAt = t THEN new[i]
      ELSE IF items[i] # NoItem /\ items[i].createdAt = t THEN NoItem
      ELSE history[i][t] ] ]

\* Defect: a row that leaves open keeps its entry.
DedupKeepsEntry(S, new, entries) ==
  [ k \in Keys |->
      LET opened == { i \in S : IsOpen(new[i]) /\ new[i].key = k }
      IN  IF opened # {} THEN new[CHOOSE i \in opened : TRUE] ELSE entries[k] ]

\* An open row becomes its key's entry; a row that is no longer open drops the
\* entry only when the entry is its own.
DedupAfterPut(S, new, entries) ==
  [ k \in Keys |->
      LET opened == { i \in S : IsOpen(new[i]) /\ new[i].key = k }
      IN  IF opened # {} THEN new[CHOOSE i \in opened : TRUE]
          ELSE IF entries[k] # NoItem /\ entries[k].id \in S
               THEN NoItem ELSE entries[k] ]

\* One transaction writes the rows new[i], i in S.  The first write into a
\* store that had no items bucket marks three of the indexes built.
PutItems(S, new, entries, marked) ==
  /\ WriterFree
  /\ items' = [ i \in Ids |-> IF i \in S THEN new[i] ELSE items[i] ]
  /\ bucket' = TRUE
  /\ built' = IF bucket THEN marked ELSE marked \cup {"live", "open", "dedup"}
  /\ live' = [ i \in Ids |-> IF i \notin S THEN live[i]
                             ELSE IF LiveWorthy(new[i]) THEN new[i] ELSE NoItem ]
  /\ open' = [ i \in Ids |-> IF i \notin S THEN open[i]
                             ELSE IF IsOpen(new[i]) THEN new[i] ELSE NoItem ]
  /\ history' = HistoryAfterPut(S, new)
  /\ dedup' = DedupAfterPut(S, new, entries)
  /\ UNCHANGED attempts

PutItem(item) == PutItems({item.id}, [ i \in {item.id} |-> item ], dedup, built)

\* Defect: the delivery record is left behind.
AttemptsKept(S) == attempts

\* A delivery record goes with its item.
AttemptsAfterRemove(S) == [ i \in Ids |-> IF i \in S THEN None ELSE attempts[i] ]

\* The rows of S and everything derived from them leave in one transaction.
RemoveItems(S) ==
  /\ items' = [ i \in Ids |-> IF i \in S THEN NoItem ELSE items[i] ]
  /\ live' = [ i \in Ids |-> IF i \in S THEN NoItem ELSE live[i] ]
  /\ open' = [ i \in Ids |-> IF i \in S THEN NoItem ELSE open[i] ]
  /\ history' = [ i \in Ids |-> [ t \in Times |->
                    IF i \in S /\ items[i].createdAt = t THEN NoItem
                    ELSE history[i][t] ] ]
  /\ dedup' = [ k \in Keys |-> IF dedup[k] # NoItem /\ dedup[k].id \in S
                               THEN NoItem ELSE dedup[k] ]
  /\ attempts' = AttemptsAfterRemove(S)
  /\ UNCHANGED <<bucket, built>>

-----------------------------------------------------------------------------
(* Operations that are one write transaction. *)

\* The open row suppression collapses the request onto is refreshed in place.
UpdateExisting(existing, q, entries) ==
  /\ PutItems({existing.id},
       [ i \in {existing.id} |->
           [existing EXCEPT !.payload = q.payload, !.options = q.options,
                            !.expiresAt = q.expiresAt, !.createdAt = now] ],
       entries, built \cup {"dedup"})
  /\ UNCHANGED issued

AddNew(q, entries) ==
  \E i \in Ids \ issued :
    /\ issued' = issued \cup {i}
    /\ PutItems({i}, [ j \in {i} |-> NewItem(i, q, now) ],
                entries, built \cup {"dedup"})

\* A session miss lists the registry again inside the push's transaction.
Push(q) ==
  /\ ValidOptions(q)
  /\ \E entries \in EnsuredDedup :
       LET existing == { entries[q.key] } \ {NoItem}
       IN  \E lookup \in Lookups(existing, LiveSessions) :
             /\ IF existing # {} /\ GoneRows(existing, lookup) = {}
                THEN UpdateExisting(entries[q.key], q, entries)
                ELSE AddNew(q, entries)
             /\ IF SessionRows(existing) = {} THEN UNCHANGED cached ELSE TakeListing
             /\ KeepFresh(lookup.answer)
  /\ UNCHANGED <<now, registryVars, readVars, sweepVars, faults>>

\* Defect: any resolver may answer again, whatever the mechanism.
MayAnswerAgain(i, resolver) ==
  IsOpen(items[i]) \/ (IsAnswered(items[i]) /\ resolver # None)

\* Defect: the arm's second write replaces the recorded verdict.
ReplacedDecision(i, decision) == decision

\* A second answer lands only on a permission gate, and only from a resolver;
\* a verdict already on record stays.
MayAnswer(i, resolver) ==
  \/ IsOpen(items[i])
  \/ /\ IsAnswered(items[i])
     /\ items[i].mechanism = "permission"
     /\ resolver # None

KeptDecision(i, decision) ==
  IF items[i].decision = None THEN decision ELSE items[i].decision

Answer(i, by, resolver, decision) ==
  /\ MayAnswer(i, resolver)
  /\ PutItem([items[i] EXCEPT
       !.state = "answered", !.answeredAt = now, !.answeredBy = by,
       !.resolvedBy = resolver,
       !.decision = KeptDecision(i, decision)])
  /\ UNCHANGED <<issued, envVars, readVars, sweepVars, faults>>

\* Defect: the last session to escalate takes the stamp.
MayEscalateAgain(i) == IsOpen(items[i])

\* The stamp belongs to the first session that escalates; the same session
\* again is a success that writes nothing.
MayEscalate(i) == IsOpen(items[i]) /\ items[i].escalatedBy = None

Escalate(i, manager) ==
  /\ MayEscalate(i)
  /\ PutItem([items[i] EXCEPT !.escalatedBy = manager, !.escalatedAt = now])
  /\ UNCHANGED <<issued, envVars, readVars, sweepVars, faults>>

Flag(i, reason) ==
  /\ IsOpen(items[i])
  /\ PutItem([items[i] EXCEPT !.flagReason = reason])
  /\ UNCHANGED <<issued, envVars, readVars, sweepVars, faults>>

Unflag(i) ==
  /\ items[i] # NoItem
  /\ PutItem([items[i] EXCEPT !.flagReason = None])
  /\ UNCHANGED <<issued, envVars, readVars, sweepVars, faults>>

Rate(i, rating) ==
  /\ items[i] # NoItem
  /\ PutItem([items[i] EXCEPT !.rating = rating])
  /\ UNCHANGED <<issued, envVars, readVars, sweepVars, faults>>

\* An arm may not clear an open permission gate; answered_by is written on the
\* open row only.
Close(i, by) ==
  /\ items[i] # NoItem
  /\ <<items[i].state, "closed">> \in AvailableTransitions
  /\ ~(IsOpen(items[i]) /\ items[i].mechanism = "permission" /\ by # None)
  /\ PutItem([items[i] EXCEPT
       !.state = "closed",
       !.answeredBy = IF IsOpen(items[i]) THEN by ELSE @])
  /\ UNCHANGED <<issued, envVars, readVars, sweepVars, faults>>

RecordAttempt(i, outcome) ==
  /\ WriterFree
  /\ items[i] # NoItem
  /\ attempts' = [attempts EXCEPT ![i] = outcome]
  /\ UNCHANGED <<items, bucket, live, open, history, dedup, built, issued,
                 envVars, readVars, sweepVars, faults>>

\* The first History call after the index was lost builds it.
BuildHistory ==
  /\ WriterFree
  /\ "history" \notin built
  /\ history' = HistoryIndexOf(items)
  /\ built' = built \cup {"history"}
  /\ UNCHANGED <<items, bucket, live, open, dedup, attempts, issued,
                 envVars, readVars, sweepVars, faults>>

-----------------------------------------------------------------------------
(* The answered sweep. *)

EnsureLiveIndex ==
  IF "live" \in built THEN UNCHANGED <<live, built>>
  ELSE WriterFree /\ live' = LiveIndexOf(items) /\ built' = built \cup {"live"}

\* The clock is read before the write transaction opens.
SweepStart ==
  /\ ~sweeping
  /\ sweeping' = TRUE
  /\ cutoff' = now - MaxAge
  /\ EnsureLiveIndex
  /\ UNCHANGED <<items, bucket, open, history, dedup, attempts, issued,
                 envVars, readVars, faults>>

\* Defect: the age bound is off by one instant.
DueAnsweredLate ==
  { i \in Ids : IsAnswered(live[i]) /\ live[i].answeredAt < cutoff - 1 }

\* closeAnsweredItem re-reads the state of what the scan found.
DueAnswered ==
  { i \in Ids : /\ IsAnswered(live[i])
                /\ live[i].answeredAt # Never
                /\ live[i].answeredAt < cutoff
                /\ IsAnswered(items[i]) }

\* Defect: the second pass still counts the rows the first pass closed.
ReraisesOfClosed(aged) ==
  { i \in Ids : IsOpen(items[i]) /\
      \E j \in Ids : IsAnswered(live[j]) /\ AskIdentity(live[j]) = AskIdentity(items[i]) }

\* Defect: only the board hides a repeat; the row stays open.
NoReraises(aged) == {}

\* The second pass scans the index as the first pass left it.
RedundantReraises(aged) ==
  LET answered == { AskIdentity(live[j]) : j \in { k \in Ids \ aged : IsAnswered(live[k]) } }
  IN  { i \in Ids : /\ IsOpen(live[i])
                    /\ AskIdentity(live[i]) \in answered
                    /\ IsOpen(items[i]) }

CloseSwept(S) ==
  IF S = {} THEN UNCHANGED bucketVars
  ELSE PutItems(S, [ i \in S |-> [items[i] EXCEPT !.state = "closed"] ], dedup, built)

SweepCommit ==
  /\ sweeping
  /\ CloseSwept(DueAnswered \cup RedundantReraises(DueAnswered))
  /\ sweeping' = FALSE
  /\ cutoff' = 0
  /\ UNCHANGED <<issued, envVars, readVars, faults>>

-----------------------------------------------------------------------------
(* Read and ReadBoard. *)

EnsureOpenIndex ==
  IF "open" \in built THEN UNCHANGED <<open, built>>
  ELSE WriterFree /\ open' = OpenIndexOf(items) /\ built' = built \cup {"open"}

ReadEnsure(r, includeAnswered) ==
  /\ pc[r] = "idle"
  /\ IF includeAnswered THEN EnsureLiveIndex /\ UNCHANGED open
                        ELSE EnsureOpenIndex /\ UNCHANGED live
  /\ pc' = [pc EXCEPT ![r] = "scan"]
  /\ board' = [board EXCEPT ![r] = includeAnswered]
  /\ UNCHANGED <<items, bucket, history, dedup, attempts, issued, envVars,
                 scanned, doomed, judgedAt, snapshot, unseen, sweepVars, faults>>

ReadScan(r) ==
  /\ pc[r] = "scan"
  /\ LET index == IF board[r] THEN live ELSE open
     IN  scanned' = [scanned EXCEPT ![r] = { index[i] : i \in Ids } \ {NoItem}]
  /\ pc' = [pc EXCEPT ![r] = "classify"]
  /\ board' = [board EXCEPT ![r] = FALSE]
  /\ UNCHANGED <<storeVars, envVars, doomed, judgedAt, snapshot, unseen,
                 sweepVars, faults>>

\* Only an open row is ever removed: one past its deadline, or a question
\* whose producer is gone.  A read that classified nothing dead opens no write
\* transaction, and one that asked about no session lists nothing.
ReadClassify(r) ==
  /\ pc[r] = "classify"
  /\ LET found == { s \in scanned[r] : s.state = "open" }
         due == { s \in found : IsExpired(s, now) }
     IN  \E lookup \in Lookups(found \ due, LiveSessions) :
           LET gone == { s \in GoneRows(found \ due, lookup) : IsAsked(s) }
               dead == { s.id : s \in due \cup gone }
           IN  /\ doomed' = [doomed EXCEPT ![r] = dead]
               /\ pc' = [pc EXCEPT ![r] = IF dead = {} THEN "idle" ELSE "resolve"]
               /\ IF SessionRows(found \ due) = {} THEN UNCHANGED cached ELSE TakeListing
               /\ KeepFresh(lookup.answer)
  /\ scanned' = [scanned EXCEPT ![r] = {}]
  /\ UNCHANGED <<storeVars, now, registryVars, board, judgedAt, snapshot, unseen,
                 sweepVars, faults>>

\* The prune takes a listing and reads the clock, then waits for the writer
\* lock.
ReadResolve(r) ==
  /\ pc[r] = "resolve"
  /\ snapshot' = [snapshot EXCEPT ![r] = LiveSessions]
  /\ TakeListing
  /\ judgedAt' = [judgedAt EXCEPT ![r] = now]
  /\ pc' = [pc EXCEPT ![r] = "judge"]
  /\ UNCHANGED <<storeVars, now, registryVars, fresh, quiet, board, scanned, doomed,
                 unseen, sweepVars, faults>>

\* Defect: a deadline is left to the liveness check.
ExpiredBehindLiveness(r, i) == FALSE

\* A deadline is re-checked first, whoever is alive.
StillExpired(r, i) == IsOpen(items[i]) /\ IsExpired(items[i], judgedAt[r])

\* The rows of a prune that are still open and whose deadline stands.
StillProbed(r) ==
  { items[i] : i \in { j \in doomed[r] : IsOpen(items[j]) /\ ~StillExpired(r, j) } }

\* Defect: the classification's liveness verdict is trusted.
DeadUnchecked(r, i, lookup) == items[i] \in StillProbed(r)

\* A producer's liveness is asked again, under the writer lock, of the prune's
\* own listing and on a miss of a fresh one.
StillDead(r, i, lookup) == items[i] \in GoneRows(StillProbed(r), lookup)

ReadJudge(r) ==
  /\ pc[r] = "judge"
  /\ WriterFree
  /\ \E lookup \in Lookups(StillProbed(r), snapshot[r]) :
       /\ doomed' = [doomed EXCEPT ![r] =
                       { i \in @ : StillExpired(r, i) \/ StillDead(r, i, lookup) }]
       /\ KeepFresh(lookup.answer)
  /\ unseen' = [unseen EXCEPT ![r] =
                  Unseen \cap { items[i].ref : i \in { j \in doomed'[r] : ~StillExpired(r, j) } }]
  /\ pc' = [pc EXCEPT ![r] = "commit"]
  /\ snapshot' = [snapshot EXCEPT ![r] = {}]
  /\ UNCHANGED <<storeVars, now, registryVars, cached, board, scanned, judgedAt,
                 sweepVars, faults>>

\* The rows leave when the transaction commits, whoever came back meanwhile.
ReadCommit(r) ==
  /\ pc[r] = "commit"
  /\ RemoveItems(doomed[r])
  /\ pc' = [pc EXCEPT ![r] = "idle"]
  /\ doomed' = [doomed EXCEPT ![r] = {}]
  /\ judgedAt' = [judgedAt EXCEPT ![r] = 0]
  /\ unseen' = [unseen EXCEPT ![r] = {}]
  /\ UNCHANGED <<issued, envVars, board, scanned, snapshot, sweepVars, faults>>

-----------------------------------------------------------------------------
(* Failures and the environment. *)

\* A cancelled or failed read leaves the store alone; its transaction aborts.
ReadFails(r) ==
  /\ pc[r] # "idle"
  /\ faults < MaxFaults
  /\ faults' = faults + 1
  /\ pc' = [pc EXCEPT ![r] = "idle"]
  /\ scanned' = [scanned EXCEPT ![r] = {}]
  /\ doomed' = [doomed EXCEPT ![r] = {}]
  /\ snapshot' = [snapshot EXCEPT ![r] = {}]
  /\ unseen' = [unseen EXCEPT ![r] = {}]
  /\ judgedAt' = [judgedAt EXCEPT ![r] = 0]
  /\ board' = [board EXCEPT ![r] = FALSE]
  /\ UNCHANGED <<storeVars, envVars, sweepVars>>

\* A sweep that fails or runs out of time is logged and tried on the next tick.
SweepFails ==
  /\ sweeping
  /\ faults < MaxFaults
  /\ faults' = faults + 1
  /\ sweeping' = FALSE
  /\ cutoff' = 0
  /\ UNCHANGED <<storeVars, envVars, readVars>>

\* The process restarts and forgets its calls; an operator may have deleted
\* index buckets meanwhile.  With all of them gone it is the upgrade of a store
\* written before the indexes existed.
Restart(D) ==
  /\ faults < MaxFaults
  /\ faults' = faults + 1
  /\ built' = built \ D
  /\ live' = IF "live" \in D THEN [i \in Ids |-> NoItem] ELSE live
  /\ open' = IF "open" \in D THEN [i \in Ids |-> NoItem] ELSE open
  /\ history' = IF "history" \in D
                THEN [i \in Ids |-> [t \in Times |-> NoItem]] ELSE history
  /\ dedup' = IF "dedup" \in D THEN [k \in Keys |-> NoItem] ELSE dedup
  /\ pc' = [r \in Readers |-> "idle"]
  /\ scanned' = [r \in Readers |-> {}]
  /\ doomed' = [r \in Readers |-> {}]
  /\ snapshot' = [r \in Readers |-> {}]
  /\ unseen' = [r \in Readers |-> {}]
  /\ judgedAt' = [r \in Readers |-> 0]
  /\ sweeping' = FALSE
  /\ cutoff' = 0
  /\ ForgetListings
  /\ board' = [r \in Readers |-> FALSE]
  /\ UNCHANGED <<items, bucket, attempts, issued, now, registryVars>>

Tick ==
  /\ now < MaxTime
  /\ now' = now + 1
  /\ UNCHANGED <<storeVars, livenessVars, readVars, sweepVars, faults>>

\* A producer comes or goes, or its entry changes.
ProducerChanges ==
  /\ \/ \E ref \in SessionRefs, inPlace \in BOOLEAN : SessionChanges(ref, inPlace)
     \/ \E ref \in HeartbeatRefs : HeartbeatChanges(ref)
     \/ \E ref \in SessionRefs : EntryChanges(ref)
  /\ UNCHANGED <<storeVars, now, readVars, sweepVars, faults>>

CachedListingLapses ==
  CachedLapses /\ UNCHANGED <<storeVars, now, readVars, sweepVars, faults>>

FreshListingLapses ==
  FreshLapses /\ UNCHANGED <<storeVars, now, readVars, sweepVars, faults>>

\* The registry directory cannot be listed for a while.
RegistryChanges ==
  /\ Outages
  /\ readable' = ~readable
  /\ UNCHANGED <<storeVars, now, alive, torn, checkerVars, readVars, sweepVars, faults>>

-----------------------------------------------------------------------------
Init ==
  /\ items = [i \in Ids |-> NoItem]
  /\ bucket = FALSE
  /\ live = [i \in Ids |-> NoItem]
  /\ open = [i \in Ids |-> NoItem]
  /\ history = [i \in Ids |-> [t \in Times |-> NoItem]]
  /\ dedup = [k \in Keys |-> NoItem]
  /\ built = {}
  /\ attempts = [i \in Ids |-> None]
  /\ issued = {}
  /\ now = 0
  /\ InitLiveness
  /\ pc = [r \in Readers |-> "idle"]
  /\ board = [r \in Readers |-> FALSE]
  /\ scanned = [r \in Readers |-> {}]
  /\ doomed = [r \in Readers |-> {}]
  /\ judgedAt = [r \in Readers |-> 0]
  /\ snapshot = [r \in Readers |-> {}]
  /\ unseen = [r \in Readers |-> {}]
  /\ sweeping = FALSE
  /\ cutoff = 0
  /\ faults = 0

ItemOperation ==
  \E i \in Ids :
    \/ \E by \in Arms \cup {None}, resolver \in Resolvers \cup {None},
          decision \in Decisions \cup {None} : Answer(i, by, resolver, decision)
    \/ \E manager \in Resolvers : Escalate(i, manager)
    \/ \E reason \in Reasons : Flag(i, reason)
    \/ Unflag(i)
    \/ \E rating \in Ratings \cup {None} : Rate(i, rating)
    \/ \E by \in Arms \cup {None} : Close(i, by)
    \/ \E outcome \in Outcomes : RecordAttempt(i, outcome)

ReadStep(r) ==
  \/ \E includeAnswered \in BOOLEAN : ReadEnsure(r, includeAnswered)
  \/ ReadScan(r)
  \/ ReadClassify(r)
  \/ ReadResolve(r)
  \/ ReadJudge(r)
  \/ ReadCommit(r)

Environment ==
  \/ Tick
  \/ ProducerChanges
  \/ CachedListingLapses
  \/ FreshListingLapses
  \/ RegistryChanges

Next ==
  \/ \E q \in Requests : Push(q)
  \/ ItemOperation
  \/ BuildHistory
  \/ SweepStart
  \/ SweepCommit
  \/ SweepFails
  \/ \E r \in Readers : ReadStep(r) \/ ReadFails(r)
  \/ \E D \in SUBSET Droppable : Restart(D)
  \/ Environment

Spec == Init /\ [][Next]_vars

-----------------------------------------------------------------------------
(* What the store promises. *)

TypeOK ==
  /\ items \in [Ids -> Slot]
  /\ bucket \in BOOLEAN
  /\ live \in [Ids -> Slot]
  /\ open \in [Ids -> Slot]
  /\ history \in [Ids -> [Times -> Slot]]
  /\ dedup \in [Keys -> Slot]
  /\ built \subseteq IndexNames
  /\ attempts \in [Ids -> Outcomes \cup {None}]
  /\ issued \subseteq Ids
  /\ now \in Times
  /\ alive \subseteq SessionRefs \cup HeartbeatRefs
  /\ readable \in BOOLEAN
  /\ torn \subseteq SessionRefs \cap alive
  /\ cached \in Listings
  /\ fresh \in Listings
  /\ quiet \subseteq SessionRefs \cap alive
  /\ pc \in [Readers -> {"idle", "scan", "classify", "resolve", "judge", "commit"}]
  /\ board \in [Readers -> BOOLEAN]
  /\ scanned \in [Readers -> SUBSET Item]
  /\ doomed \in [Readers -> SUBSET Ids]
  /\ judgedAt \in [Readers -> Times]
  /\ snapshot \in [Readers -> SUBSET SessionRefs]
  /\ unseen \in [Readers -> SUBSET Refs]
  /\ sweeping \in BOOLEAN
  /\ cutoff \in (0 - MaxAge) .. MaxTime
  /\ faults \in 0 .. MaxFaults

\* A read that finds an index's marker trusts the index alone, so a marked
\* index is exactly what the items bucket determines: no row missing, none
\* stale, no second history row of one item after its creation time moved.
IndexesExact ==
  /\ "live" \in built => live = LiveIndexOf(items)
  /\ "open" \in built => open = OpenIndexOf(items)
  /\ "history" \in built => history = HistoryIndexOf(items)

\* Push collapses onto the copy it finds under the key, so that copy is the
\* stored row, open and of that key: a push never revives a row that has left
\* open and never writes back an old version of one.
DedupSound ==
  \A k \in Keys :
    dedup[k] # NoItem => /\ dedup[k].key = k
                         /\ IsOpen(dedup[k])
                         /\ items[dedup[k].id] = dedup[k]

\* The read surface joins a delivery record to its item, so a record whose item
\* a prune took is never left behind.
AttemptsJoin == \A i \in Ids : attempts[i] # None => items[i] # NoItem

\* A prune takes only an open row that is past its deadline, or whose producer
\* was gone when the prune judged it under the writer lock: not registered, or
\* with an entry that could not be read just then, or registered in place within
\* the fresh listing's window.  A stale listing - cached, taken before the lock,
\* incomplete, or older than the directory's stamp - delays a removal and never
\* causes one; nor does a verdict the read reached before an answer, a re-push
\* or a resumed session.
RemovalJustified ==
  [][ \A i \in Ids : items[i] # NoItem /\ items'[i] = NoItem =>
        /\ IsOpen(items[i])
        /\ \/ IsExpired(items[i], now)
           \/ \E r \in Readers : pc[r] = "commit" /\ items[i].ref \in unseen[r] ]_vars

\* The first answer to a message or a report stands: no later call, sweep or
\* prune changes who answered, who resolved, or when.
FirstAnswerStands ==
  [][ \A i \in Ids : IsAnswered(items[i]) /\ items[i].mechanism # "permission" =>
        /\ items'[i] # NoItem
        /\ items'[i].answeredBy = items[i].answeredBy
        /\ items'[i].resolvedBy = items[i].resolvedBy
        /\ items'[i].answeredAt = items[i].answeredAt ]_vars

\* One session carries an ask: the stamp and its time survive re-pushes,
\* answers and closes for as long as the row exists.
EscalationSticks ==
  [][ \A i \in Ids :
        items[i] # NoItem /\ items[i].escalatedBy # None /\ items'[i] # NoItem =>
          /\ items'[i].escalatedBy = items[i].escalatedBy
          /\ items'[i].escalatedAt = items[i].escalatedAt ]_vars

\* A sweep closes an answered row only when it has stood longer than MaxAge,
\* and an open one only when a row answering the same ask is still answered
\* after the sweep: it never closes a repeat of an ask that was cleared.
SweepClosesOnlyDue ==
  [][ SweepCommit =>
        \A i \in Ids : items'[i] # items[i] =>
          \/ IsAnswered(items[i]) /\ now - items[i].answeredAt > MaxAge
          \/ /\ IsOpen(items[i])
             /\ \E j \in Ids : /\ IsAnswered(items'[j])
                               /\ AskIdentity(items'[j]) = AskIdentity(items[i]) ]_vars

Phase(i) ==
  IF i \notin issued THEN "unused"
  ELSE IF items[i] = NoItem THEN "gone" ELSE items[i].state

Verdict(i) == IF items[i] = NoItem THEN None ELSE items[i].decision

Lifecycle == INSTANCE AskLifecycle WITH
  phase <- [i \in Ids |-> Phase(i)], verdict <- [i \in Ids |-> Verdict(i)]

\* Every operation, index rebuild, prune, sweep and restart is a step of the
\* lifecycle the store promises its producers and arms.
LifecycleSpec == Lifecycle!Spec

-----------------------------------------------------------------------------
(* Progress, when the sweep's ticker keeps firing, somebody keeps reading and
   no listing is reused for ever. *)

FairSpec ==
  /\ Spec
  /\ WF_vars(SweepStart) /\ WF_vars(SweepCommit)
  /\ \A r \in Readers : WF_vars(ReadStep(r))
  /\ WF_vars(CachedListingLapses) /\ WF_vars(FreshListingLapses)

Redundant(i) ==
  /\ IsOpen(items[i])
  /\ \E j \in Ids : IsAnswered(items[j]) /\ AskIdentity(items[j]) = AskIdentity(items[i])

\* An open repeat of an answered ask, which the board withholds, does not stay
\* open: it is closed, or stops being a repeat.
ReraisesSettle == \A i \in Ids : Redundant(i) ~> ~Redundant(i)

Overdue(i) ==
  IsAnswered(items[i]) /\ now - items[i].answeredAt > MaxAge

\* An answered item past the bound leaves the live index the readers decode.
AnsweredLeaves == \A i \in Ids : Overdue(i) ~> ~Overdue(i)

PastDeadline(i) == IsOpen(items[i]) /\ IsExpired(items[i], now)

Abandoned(i) == IsOpen(items[i]) /\ IsAsked(items[i]) /\ ~IsLive(items[i].ref)

\* A row past its deadline, and a question whose asker stays away, do not stay
\* on the queue once somebody keeps reading, though a listing that still shows
\* the asker may answer some of the reads.
MootAsksLeave ==
  \A i \in Ids : /\ PastDeadline(i) ~> ~PastDeadline(i)
                 /\ Abandoned(i) ~> ~Abandoned(i)

=============================================================================

------------------------ MODULE AttentionStoreProofs ------------------------
(***************************************************************************)
(* Proofs about AttentionStore, for every value of its constants.           *)
(*                                                                         *)
(* The inductive invariant has two parts.  StoreInv speaks of the buckets:  *)
(* their types, the exactness of every marked index, the soundness of the   *)
(* dedup index whether marked or not, each row stored under its own id, and *)
(* the emptiness of a store without an items bucket (which is why the first *)
(* write may mark its indexes built).  CallInv speaks of the calls in       *)
(* flight, LivenessInv of the liveness checker - a fresh listing it holds    *)
(* shows every registered session but those that registered in place since  *)
(* - and CommitInv of the one prune that has judged its rows and holds the   *)
(* writer lock.  PutKeepsStore and RemoveKeepsStore carry the weight: every *)
(* operation writes through one of them.                                   *)
(***************************************************************************)
EXTENDS AttentionStore, TLAPS

StoreTyped ==
  /\ items \in [Ids -> Slot]
  /\ bucket \in BOOLEAN
  /\ live \in [Ids -> Slot]
  /\ open \in [Ids -> Slot]
  /\ history \in [Ids -> [Times -> Slot]]
  /\ dedup \in [Keys -> Slot]
  /\ built \subseteq IndexNames

\* Every row is stored under its own id.
RowsKeyed == \A i \in Ids : items[i] # NoItem => items[i].id = i

\* Without an items bucket there is nothing to index.
EmptyWithoutBucket ==
  ~bucket => \A i \in Ids : items[i] = NoItem /\ live[i] = NoItem /\ open[i] = NoItem

StoreInv == StoreTyped /\ IndexesExact /\ DedupSound /\ RowsKeyed /\ EmptyWithoutBucket

CallInv ==
  /\ attempts \in [Ids -> Outcomes \cup {None}]
  /\ issued \subseteq Ids
  /\ now \in Times
  /\ pc \in [Readers -> {"idle", "scan", "classify", "resolve", "judge", "commit"}]
  /\ board \in [Readers -> BOOLEAN]
  /\ scanned \in [Readers -> SUBSET Item]
  /\ doomed \in [Readers -> SUBSET Ids]
  /\ judgedAt \in [Readers -> Times]
  /\ snapshot \in [Readers -> SUBSET SessionRefs]
  /\ unseen \in [Readers -> SUBSET Refs]
  /\ sweeping \in BOOLEAN
  /\ cutoff \in (0 - MaxAge) .. MaxTime
  /\ faults \in 0 .. MaxFaults
  /\ \A r \in Readers : judgedAt[r] <= now

LivenessInv ==
  /\ alive \subseteq SessionRefs \cup HeartbeatRefs
  /\ readable \in BOOLEAN
  /\ torn \subseteq SessionRefs \cap alive
  /\ cached \in Listings
  /\ fresh \in Listings
  /\ quiet \subseteq SessionRefs \cap alive
  /\ fresh.held => alive \cap SessionRefs \subseteq fresh.ids \cup quiet

\* What a prune holding the writer lock is about to remove.
Condemned(r, i) ==
  /\ IsOpen(items[i])
  /\ IsExpired(items[i], judgedAt[r]) \/ items[i].ref \in unseen[r]

CommitInv ==
  /\ \A r \in Readers : pc[r] = "commit" => \A i \in doomed[r] : Condemned(r, i)
  /\ \A r, s \in Readers : pc[r] = "commit" /\ pc[s] = "commit" => r = s

IInv == StoreInv /\ CallInv /\ LivenessInv /\ CommitInv

\* What an index handed to a write must satisfy, marked or rebuilt.
SoundEntries(entries) ==
  /\ entries \in [Keys -> Slot]
  /\ \A k \in Keys :
       entries[k] # NoItem => /\ entries[k].key = k
                              /\ IsOpen(entries[k])
                              /\ items[entries[k].id] = entries[k]

\* A step that removes no row.
RowsStay == \A i \in Ids : items[i] # NoItem => items'[i] # NoItem

\* A step that touches no delivery record but that of a stored row.
AttemptsChange ==
  \/ UNCHANGED attempts
  \/ \E i \in Ids, outcome \in Outcomes :
       items[i] # NoItem /\ attempts' = [attempts EXCEPT ![i] = outcome]

-----------------------------------------------------------------------------
(* Items. *)

\* A fresh row of a producer's request is an item, open and under its id.
LEMMA NewItemTyped ==
  ASSUME StoreAssumption, NEW i \in Ids, NEW q \in Requests, NEW t \in Times
  PROVE  /\ NewItem(i, q, t) \in Item
         /\ NewItem(i, q, t).id = i
         /\ NewItem(i, q, t).state = "open"
PROOF
  BY DEF StoreAssumption, NewItem, Item, PushRequest, States, Stamps

\* The sentinel is no item, so a slot that is not the sentinel is one.
LEMMA SlotIsItem ==
  ASSUME NEW s \in Slot, s # NoItem
  PROVE  s \in Item
PROOF
  BY DEF Slot

\* What an answer writes is an item.
LEMMA AnsweredRowTyped ==
  ASSUME NEW x \in Item, NEW t \in Stamps, NEW by \in Arms \cup {None},
         NEW resolver \in Resolvers \cup {None}, NEW decision \in Decisions \cup {None}
  PROVE  [x EXCEPT !.state = "answered", !.answeredAt = t, !.answeredBy = by,
                   !.resolvedBy = resolver, !.decision = decision] \in Item
PROOF
  BY DEF Item, States

\* What an escalation writes is an item.
LEMMA EscalatedRowTyped ==
  ASSUME NEW x \in Item, NEW manager \in Resolvers, NEW t \in Stamps
  PROVE  [x EXCEPT !.escalatedBy = manager, !.escalatedAt = t] \in Item
PROOF
  BY DEF Item

\* What a close and a sweep write is an item.
LEMMA ClosedRowTyped ==
  ASSUME NEW x \in Item, NEW by \in Arms \cup {None}
  PROVE  /\ [x EXCEPT !.state = "closed", !.answeredBy = by] \in Item
         /\ [x EXCEPT !.state = "closed"] \in Item
PROOF
  <1>1. [x EXCEPT !.state = "closed", !.answeredBy = by] \in Item
    BY DEF Item, States
  <1>2. [x EXCEPT !.state = "closed"] \in Item
    BY DEF Item, States
  <1> QED
    BY <1>1, <1>2

-----------------------------------------------------------------------------
(* The liveness checker. *)

\* A producer that a caller's lookups find gone is one no listing had to show:
\* whatever was cached and however the caller's first listing came about.
LEMMA GoneIsUnseen ==
  ASSUME LivenessInv, NEW rows, NEW first, NEW lookup \in Lookups(rows, first),
         NEW x \in GoneRows(rows, lookup)
  PROVE  x \in rows /\ x.ref \in Unseen
PROOF
  <1>1. CASE HeartbeatStale(x) /\ x \in rows
    BY <1>1 DEF HeartbeatStale, Unseen
  <1>2. CASE x \in lookup.gone
    <2>1. x \in SessionRows(rows) /\ lookup.answer \in FreshAnswers /\ x.ref \notin lookup.answer.ids
      BY <1>2 DEF Lookups
    <2>2. x \in rows /\ x.ref \in SessionRefs
      BY <2>1 DEF SessionRows
    <2>3. CASE lookup.answer = fresh /\ fresh.held
      BY <2>1, <2>2, <2>3 DEF LivenessInv, Unseen
    <2>4. CASE lookup.answer = Relisted
      BY <2>1, <2>2, <2>4 DEF Relisted, Listed, Unseen
    <2> QED
      BY <2>1, <2>3, <2>4 DEF FreshAnswers
  <1> QED
    BY <1>1, <1>2 DEF GoneRows

\* Looking producers up changes only what the checker holds, and what it holds
\* stays complete.
LEMMA LookupKeepsLiveness ==
  ASSUME LivenessInv, NEW rows, NEW first, NEW lookup \in Lookups(rows, first),
         KeepFresh(lookup.answer), UNCHANGED registryVars,
         UNCHANGED cached \/ TakeListing
  PROVE  LivenessInv'
PROOF
  <1>1. UNCHANGED <<alive, readable, torn>>
    BY DEF registryVars
  <1>2. Listed \in SUBSET SessionRefs
    BY DEF Listed
  <1>3. cached' \in Listings
    <2>1. LiveSessions \in SUBSET SessionRefs
      BY <1>2 DEF LiveSessions, Listings, LivenessInv
    <2>2. Holding(LiveSessions) \in Listings
      BY <2>1 DEF Holding, Listings
    <2>3. NotHeld \in Listings
      BY DEF NotHeld, Listings
    <2> QED
      BY <2>2, <2>3 DEF TakeListing, LivenessInv
  <1>4. lookup.answer = fresh \/ lookup.answer = Relisted
    BY DEF Lookups, FreshAnswers
  <1>5. fresh' \in Listings
    <2>1. Relisted \in Listings
      BY <1>2 DEF Relisted, Listings, LivenessInv
    <2>2. NotHeld \in Listings
      BY DEF NotHeld, Listings
    <2> QED
      BY <1>4, <2>1, <2>2 DEF KeepFresh, LivenessInv
  <1>6. quiet' \subseteq SessionRefs \cap alive
    BY DEF KeepFresh, LivenessInv
  <1>7. ASSUME fresh'.held PROVE alive \cap SessionRefs \subseteq fresh'.ids \cup quiet'
    <2>1. CASE lookup.answer = fresh
      <3>1. quiet' = quiet /\ (fresh' = fresh \/ fresh' = NotHeld)
        BY <2>1 DEF KeepFresh
      <3> QED
        BY <1>7, <3>1 DEF NotHeld, LivenessInv
    <2>2. CASE lookup.answer = Relisted
      <3>1. fresh' = Relisted /\ Relisted.held
        BY <1>7, <2>2 DEF KeepFresh, NotHeld
      <3>2. readable /\ alive \cap torn = {} /\ fresh'.ids = Listed
        BY <3>1 DEF Relisted
      <3> QED
        BY <3>2 DEF Listed
    <2> QED
      BY <1>4, <2>1, <2>2
  <1> QED
    BY <1>1, <1>3, <1>5, <1>6, <1>7 DEF LivenessInv

\* The registry's own steps: whatever moves the directory's stamp retires the
\* fresh listing, and what does not is recorded as quiet.
LEMMA RegistryKeepsLiveness ==
  ASSUME LivenessInv,
         \/ \E ref \in SessionRefs, inPlace \in BOOLEAN : SessionChanges(ref, inPlace)
         \/ \E ref \in HeartbeatRefs : HeartbeatChanges(ref)
         \/ \E ref \in SessionRefs : EntryChanges(ref)
         \/ CachedLapses \/ FreshLapses
         \/ readable' = ~readable /\ UNCHANGED <<alive, torn, checkerVars>>
         \/ UNCHANGED livenessVars
         \/ ForgetListings /\ UNCHANGED registryVars
  PROVE  LivenessInv'
PROOF
  <1> USE DEF LivenessInv
  <1>0. NotHeld \in Listings /\ ~NotHeld.held
    BY DEF NotHeld, Listings
  <1>1. ASSUME NEW ref \in SessionRefs, NEW inPlace \in BOOLEAN, SessionChanges(ref, inPlace)
        PROVE  LivenessInv'
    <2>1. CASE inPlace
      BY <1>1, <2>1 DEF SessionChanges
    <2>2. CASE ~inPlace
      BY <1>0, <1>1, <2>2 DEF SessionChanges, AfterStampMoves
    <2> QED
      BY <2>1, <2>2
  <1>2. ASSUME NEW ref \in HeartbeatRefs, HeartbeatChanges(ref) PROVE LivenessInv'
    <2>1. ref \notin SessionRefs
      BY RefsAssumption
    <2> QED
      BY <1>2, <2>1 DEF HeartbeatChanges, checkerVars
  <1>3. ASSUME NEW ref \in SessionRefs, EntryChanges(ref) PROVE LivenessInv'
    BY <1>3 DEF EntryChanges, checkerVars
  <1>4. CASE CachedLapses
    BY <1>0, <1>4 DEF CachedLapses, registryVars
  <1>5. CASE FreshLapses
    BY <1>0, <1>5 DEF FreshLapses, registryVars
  <1>6. CASE readable' = ~readable /\ UNCHANGED <<alive, torn, checkerVars>>
    BY <1>6 DEF checkerVars
  <1>7. CASE UNCHANGED livenessVars
    BY <1>7 DEF livenessVars, registryVars, checkerVars
  <1>8. CASE ForgetListings /\ UNCHANGED registryVars
    BY <1>0, <1>8 DEF ForgetListings, registryVars
  <1> QED
    BY <1>1, <1>2, <1>3, <1>4, <1>5, <1>6, <1>7, <1>8

-----------------------------------------------------------------------------
(* The writer lock. *)

\* While a prune holds the lock no row changes, and no step alters what it is
\* about to remove.
LEMMA OthersKeepCommit ==
  ASSUME CommitInv,
         UNCHANGED items \/ WriterFree,
         \A r \in Readers : pc'[r] = "commit" =>
           /\ pc[r] = "commit"
           /\ doomed'[r] = doomed[r] /\ judgedAt'[r] = judgedAt[r] /\ unseen'[r] = unseen[r]
  PROVE  CommitInv'
PROOF
  <1>1. CASE WriterFree
    BY <1>1 DEF WriterFree, CommitInv
  <1>2. CASE UNCHANGED items
    BY <1>2 DEF CommitInv, Condemned, IsOpen, IsExpired
  <1> QED
    BY <1>1, <1>2

-----------------------------------------------------------------------------
(* The two writes. *)

\* A transaction that writes rows through putItem leaves every marked index
\* exact and every dedup entry sound.
LEMMA PutKeepsStore ==
  ASSUME StoreAssumption, StoreInv,
         NEW S \in SUBSET Ids, NEW new, NEW entries, NEW marked,
         \A i \in S : new[i] \in Item /\ new[i].id = i,
         SoundEntries(entries),
         marked \subseteq built \cup {"dedup"},
         PutItems(S, new, entries, marked)
  PROVE  StoreInv' /\ RowsStay
PROOF
  <1> USE DEF StoreInv
  <1>n. NoItem \notin Item
    BY DEF StoreAssumption
  <1>m. built' \subseteq built \cup {"live", "open", "dedup"} /\ (bucket => built' \subseteq built \cup {"dedup"})
    BY DEF PutItems, StoreTyped
  <1>1. StoreTyped'
    <2>1. items' \in [Ids -> Slot] /\ live' \in [Ids -> Slot] /\ open' \in [Ids -> Slot]
      BY DEF PutItems, StoreTyped, Slot
    <2>2. history' \in [Ids -> [Times -> Slot]]
      BY DEF PutItems, StoreTyped, Slot, HistoryAfterPut
    <2>3. dedup' \in [Keys -> Slot]
      <3> SUFFICES ASSUME NEW k \in Keys PROVE dedup'[k] \in Slot
        BY DEF PutItems, DedupAfterPut
      <3> DEFINE opened == { i \in S : IsOpen(new[i]) /\ new[i].key = k }
      <3>1. CASE opened # {}
        <4>1. (CHOOSE i \in opened : TRUE) \in opened
          BY <3>1
        <4>2. dedup'[k] = new[CHOOSE i \in opened : TRUE]
          BY <3>1 DEF PutItems, DedupAfterPut
        <4> QED
          BY <4>1, <4>2 DEF Slot
      <3>2. CASE opened = {}
        BY <3>2 DEF PutItems, DedupAfterPut, SoundEntries, Slot
      <3> QED
        BY <3>1, <3>2
    <2>4. bucket' \in BOOLEAN /\ built' \subseteq IndexNames
      BY <1>m DEF PutItems, StoreTyped, IndexNames
    <2> QED
      BY <2>1, <2>2, <2>3, <2>4 DEF StoreTyped
  <1>2. IndexesExact'
    <2>1. ASSUME "live" \in built' PROVE live' = LiveIndexOf(items')
      <3>1. \A i \in Ids : live[i] = IF LiveWorthy(items[i]) THEN items[i] ELSE NoItem
        BY <1>m, <2>1 DEF IndexesExact, LiveIndexOf, EmptyWithoutBucket, LiveWorthy, StoreTyped
      <3> QED
        BY <3>1 DEF PutItems, LiveIndexOf
    <2>2. ASSUME "open" \in built' PROVE open' = OpenIndexOf(items')
      <3>1. \A i \in Ids : open[i] = IF IsOpen(items[i]) THEN items[i] ELSE NoItem
        BY <1>m, <2>2 DEF IndexesExact, OpenIndexOf, EmptyWithoutBucket, IsOpen, StoreTyped
      <3> QED
        BY <3>1 DEF PutItems, OpenIndexOf
    <2>3. ASSUME "history" \in built' PROVE history' = HistoryIndexOf(items')
      <3>1. history = HistoryIndexOf(items)
        BY <1>m, <2>3 DEF IndexesExact
      <3>2. \A i \in Ids, t \in Times :
              history[i][t] = IF items[i] # NoItem /\ items[i].createdAt = t THEN items[i] ELSE NoItem
        BY <3>1 DEF HistoryIndexOf
      <3>3. \A i \in S : new[i] # NoItem
        BY <1>n
      <3>4. \A i \in Ids : items'[i] = IF i \in S THEN new[i] ELSE items[i]
        BY DEF PutItems
      <3>5. history' = HistoryAfterPut(S, new)
        BY DEF PutItems
      <3>6. \A i \in Ids, t \in Times :
              history'[i][t] = IF items'[i] # NoItem /\ items'[i].createdAt = t THEN items'[i] ELSE NoItem
        BY <3>2, <3>3, <3>4, <3>5 DEF HistoryAfterPut
      <3>7. HistoryAfterPut(S, new) = [ i \in Ids |-> [ t \in Times |-> history'[i][t] ] ]
        BY <3>5 DEF HistoryAfterPut
      <3> QED
        BY <3>5, <3>6, <3>7 DEF HistoryIndexOf
    <2> QED
      BY <2>1, <2>2, <2>3 DEF IndexesExact
  <1>3. DedupSound'
    <2> SUFFICES ASSUME NEW k \in Keys, dedup'[k] # NoItem
                 PROVE  /\ dedup'[k].key = k
                        /\ IsOpen(dedup'[k])
                        /\ items'[dedup'[k].id] = dedup'[k]
      BY DEF DedupSound, IsOpen
    <2> DEFINE opened == { i \in S : IsOpen(new[i]) /\ new[i].key = k }
    <2>1. CASE opened # {}
      <3>1. PICK i \in opened : dedup'[k] = new[i]
        BY <2>1 DEF PutItems, DedupAfterPut
      <3> QED
        BY <3>1 DEF PutItems
    <2>2. CASE opened = {}
      <3>1. dedup'[k] = entries[k] /\ entries[k].id \notin S
        BY <2>2 DEF PutItems, DedupAfterPut
      <3>2. entries[k] \in Item
        BY <3>1, SlotIsItem DEF SoundEntries
      <3> QED
        BY <3>1, <3>2 DEF PutItems, SoundEntries, Item
    <2> QED
      BY <2>1, <2>2
  <1>4. RowsKeyed' /\ EmptyWithoutBucket'
    BY DEF PutItems, RowsKeyed, EmptyWithoutBucket
  <1>5. RowsStay
    BY <1>n DEF PutItems, RowsStay
  <1> QED
    BY <1>1, <1>2, <1>3, <1>4, <1>5

\* A transaction that removes open rows takes everything derived from them.
LEMMA RemoveKeepsStore ==
  ASSUME StoreAssumption, StoreInv,
         NEW S \in SUBSET Ids, \A i \in S : items[i] # NoItem,
         RemoveItems(S)
  PROVE  StoreInv'
PROOF
  <1> USE DEF StoreInv
  <1>1. StoreTyped'
    BY DEF RemoveItems, StoreTyped, Slot
  <1>2. IndexesExact'
    <2>1. ASSUME "live" \in built' PROVE live' = LiveIndexOf(items')
      BY <2>1 DEF RemoveItems, IndexesExact, LiveIndexOf, LiveWorthy
    <2>2. ASSUME "open" \in built' PROVE open' = OpenIndexOf(items')
      BY <2>2 DEF RemoveItems, IndexesExact, OpenIndexOf, IsOpen
    <2>3. ASSUME "history" \in built' PROVE history' = HistoryIndexOf(items')
      <3>1. history = HistoryIndexOf(items)
        BY <2>3 DEF RemoveItems, IndexesExact
      <3>2. \A i \in Ids : items'[i] = IF i \in S THEN NoItem ELSE items[i]
        BY DEF RemoveItems
      <3>3. history' = [ i \in Ids |-> [ t \in Times |->
                IF items'[i] # NoItem /\ items'[i].createdAt = t THEN items'[i] ELSE NoItem ] ]
        BY <3>1, <3>2 DEF RemoveItems, HistoryIndexOf
      <3> QED
        BY <3>3 DEF HistoryIndexOf
    <2> QED
      BY <2>1, <2>2, <2>3 DEF IndexesExact
  <1>3. DedupSound'
    <2> SUFFICES ASSUME NEW k \in Keys, dedup'[k] # NoItem
                 PROVE  /\ dedup'[k].key = k
                        /\ IsOpen(dedup'[k])
                        /\ items'[dedup'[k].id] = dedup'[k]
      BY DEF DedupSound, IsOpen
    <2>1. dedup'[k] = dedup[k] /\ dedup[k].id \notin S
      BY DEF RemoveItems
    <2>2. dedup[k].id \in Ids
      BY <2>1, SlotIsItem DEF StoreTyped, Item
    <2> QED
      BY <2>1, <2>2 DEF RemoveItems, DedupSound
  <1>4. RowsKeyed' /\ EmptyWithoutBucket'
    BY DEF RemoveItems, RowsKeyed, EmptyWithoutBucket
  <1> QED
    BY <1>1, <1>2, <1>3, <1>4

-----------------------------------------------------------------------------
(* The rebuilds, and the operations written in terms of them. *)

\* Whether marked or rebuilt inside the push, the dedup index a push consults
\* is sound.
LEMMA EnsuredDedupSound ==
  ASSUME StoreInv, NEW entries \in EnsuredDedup
  PROVE  SoundEntries(entries)
PROOF
  <1> USE DEF StoreInv
  <1>1. CASE "dedup" \in built
    BY <1>1 DEF EnsuredDedup, SoundEntries, StoreTyped, DedupSound
  <1>2. CASE "dedup" \notin built
    <2>1. entries \in DedupIndexesOf(items)
      BY <1>2 DEF EnsuredDedup
    <2>2. entries \in [Keys -> Slot]
      BY <2>1 DEF DedupIndexesOf, StoreTyped, Slot
    <2>3. ASSUME NEW k \in Keys, entries[k] # NoItem
          PROVE  \E j \in Ids : entries[k] = items[j] /\ IsOpen(items[j]) /\ items[j].key = k
      BY <2>1, <2>3 DEF DedupIndexesOf
    <2> QED
      BY <2>2, <2>3 DEF SoundEntries, RowsKeyed, IsOpen
  <1> QED
    BY <1>1, <1>2

\* putItem of one changed row, which is how every operation on an item ends.
LEMMA PutItemKeepsStore ==
  ASSUME StoreAssumption, StoreInv, NEW item \in Item, PutItem(item)
  PROVE  StoreInv' /\ RowsStay /\ UNCHANGED attempts
PROOF
  <1>1. {item.id} \in SUBSET Ids
    BY DEF Item
  <1>2. SoundEntries(dedup)
    BY DEF StoreInv, StoreTyped, DedupSound, SoundEntries
  <1>3. \A i \in {item.id} : [ j \in {item.id} |-> item ][i] \in Item
                             /\ [ j \in {item.id} |-> item ][i].id = i
    OBVIOUS
  <1>4. PutItems({item.id}, [ j \in {item.id} |-> item ], dedup, built)
    BY DEF PutItem
  <1>5. built \subseteq built \cup {"dedup"}
    OBVIOUS
  <1> QED
    BY <1>1, <1>2, <1>3, <1>4, <1>5, PutKeepsStore DEF PutItems

\* A push writes one row, refreshed or fresh.
LEMMA PushKeepsStore ==
  ASSUME StoreAssumption, IInv, NEW q \in Requests, Push(q)
  PROVE  StoreInv' /\ RowsStay /\ issued' \subseteq Ids /\ UNCHANGED attempts
PROOF
  <1> USE DEF IInv
  <1>q. q \in PushRequest
    BY DEF StoreAssumption
  <1>1. PICK entries \in EnsuredDedup :
          \E lookup \in Lookups({ entries[q.key] } \ {NoItem}, LiveSessions) :
            IF { entries[q.key] } \ {NoItem} # {}
               /\ GoneRows({ entries[q.key] } \ {NoItem}, lookup) = {}
            THEN UpdateExisting(entries[q.key], q, entries)
            ELSE AddNew(q, entries)
    BY DEF Push
  <1>2. SoundEntries(entries)
    BY EnsuredDedupSound
  <1> DEFINE existing == entries[q.key]
  <1>c. \/ existing # NoItem /\ UpdateExisting(existing, q, entries)
        \/ AddNew(q, entries)
    BY <1>1
  <1>3. built \cup {"dedup"} \subseteq built \cup {"dedup"}
    OBVIOUS
  <1>4. CASE existing # NoItem /\ UpdateExisting(existing, q, entries)
    <2> DEFINE row == [existing EXCEPT !.payload = q.payload, !.options = q.options,
                                       !.expiresAt = q.expiresAt, !.createdAt = now]
               new == [ i \in {existing.id} |-> row ]
    <2>1. existing \in Item
      BY <1>q, <1>2, <1>4, SlotIsItem DEF SoundEntries, PushRequest
    <2>2. row \in Item /\ row.id = existing.id
      BY <1>q, <2>1 DEF Item, PushRequest, CallInv
    <2>3. {existing.id} \in SUBSET Ids
      BY <2>1 DEF Item
    <2>4. \A i \in {existing.id} : new[i] \in Item /\ new[i].id = i
      BY <2>2
    <2>5. /\ PutItems({existing.id}, new, entries, built \cup {"dedup"})
          /\ issued' = issued
      BY <1>4 DEF UpdateExisting
    <2> HIDE DEF new, row
    <2>6. StoreInv' /\ RowsStay
      BY <1>2, <1>3, <2>3, <2>4, <2>5, PutKeepsStore
    <2> QED
      BY <2>5, <2>6 DEF PutItems, CallInv
  <1>5. CASE AddNew(q, entries)
    <2>1. PICK i \in Ids \ issued :
            /\ issued' = issued \cup {i}
            /\ PutItems({i}, [ j \in {i} |-> NewItem(i, q, now) ],
                        entries, built \cup {"dedup"})
      BY <1>5 DEF AddNew
    <2> DEFINE new == [ j \in {i} |-> NewItem(i, q, now) ]
    <2>2. \A j \in {i} : new[j] \in Item /\ new[j].id = j
      BY NewItemTyped DEF CallInv
    <2> HIDE DEF new
    <2>3. StoreInv' /\ RowsStay
      BY <1>2, <1>3, <2>1, <2>2, PutKeepsStore DEF new
    <2> QED
      BY <2>1, <2>3 DEF PutItems, CallInv
  <1> QED
    BY <1>c, <1>4, <1>5

\* What one operation on a stored row writes is an item under the same id.
LEMMA ItemOperationKeepsStore ==
  ASSUME StoreAssumption, IInv, ItemOperation
  PROVE  /\ StoreInv' /\ RowsStay
         /\ AttemptsChange
         /\ UNCHANGED <<issued, envVars, readVars, sweepVars, faults>>
PROOF
  <1> USE DEF IInv
  <1>i. PICK i \in Ids :
          \/ \E by \in Arms \cup {None}, resolver \in Resolvers \cup {None},
                decision \in Decisions \cup {None} : Answer(i, by, resolver, decision)
          \/ \E manager \in Resolvers : Escalate(i, manager)
          \/ \E reason \in Reasons : Flag(i, reason)
          \/ Unflag(i)
          \/ \E rating \in Ratings \cup {None} : Rate(i, rating)
          \/ \E by \in Arms \cup {None} : Close(i, by)
          \/ \E outcome \in Outcomes : RecordAttempt(i, outcome)
    BY DEF ItemOperation
  <1>t. items[i] # NoItem => items[i] \in Item
    BY SlotIsItem DEF StoreInv, StoreTyped
  <1>n. now \in Stamps
    BY DEF CallInv, Stamps
  <1>p. ASSUME NEW item \in Item, PutItem(item),
               UNCHANGED <<issued, envVars, readVars, sweepVars, faults>>
        PROVE  /\ StoreInv' /\ RowsStay
               /\ AttemptsChange
               /\ UNCHANGED <<issued, envVars, readVars, sweepVars, faults>>
    BY <1>p, PutItemKeepsStore DEF AttemptsChange
  <1>1. ASSUME NEW by \in Arms \cup {None}, NEW resolver \in Resolvers \cup {None},
               NEW decision \in Decisions \cup {None}, Answer(i, by, resolver, decision)
        PROVE  /\ StoreInv' /\ RowsStay
               /\ AttemptsChange
               /\ UNCHANGED <<issued, envVars, readVars, sweepVars, faults>>
    <2> DEFINE row == [items[i] EXCEPT
                         !.state = "answered", !.answeredAt = now, !.answeredBy = by,
                         !.resolvedBy = resolver, !.decision = KeptDecision(i, decision)]
    <2>1. items[i] \in Item
      BY <1>1, <1>t DEF Answer, MayAnswer, IsOpen, IsAnswered
    <2>2. KeptDecision(i, decision) \in Decisions \cup {None}
      BY <2>1 DEF KeptDecision, Item
    <2>3. row \in Item
      BY <1>n, <2>1, <2>2, AnsweredRowTyped
    <2> QED
      BY <1>1, <1>p, <2>3 DEF Answer
  <1>2. ASSUME NEW manager \in Resolvers, Escalate(i, manager)
        PROVE  /\ StoreInv' /\ RowsStay
               /\ AttemptsChange
               /\ UNCHANGED <<issued, envVars, readVars, sweepVars, faults>>
    <2> DEFINE row == [items[i] EXCEPT !.escalatedBy = manager, !.escalatedAt = now]
    <2>1. items[i] \in Item
      BY <1>2, <1>t DEF Escalate, MayEscalate, IsOpen
    <2>2. row \in Item
      BY <1>n, <2>1, EscalatedRowTyped
    <2> QED
      BY <1>2, <1>p, <2>2 DEF Escalate
  <1>3. ASSUME NEW reason \in Reasons, Flag(i, reason)
        PROVE  /\ StoreInv' /\ RowsStay
               /\ AttemptsChange
               /\ UNCHANGED <<issued, envVars, readVars, sweepVars, faults>>
    <2>1. [items[i] EXCEPT !.flagReason = reason] \in Item
      BY <1>3, <1>t DEF Flag, IsOpen, Item
    <2> QED
      BY <1>3, <1>p, <2>1 DEF Flag
  <1>4. ASSUME Unflag(i)
        PROVE  /\ StoreInv' /\ RowsStay
               /\ AttemptsChange
               /\ UNCHANGED <<issued, envVars, readVars, sweepVars, faults>>
    <2>1. [items[i] EXCEPT !.flagReason = None] \in Item
      BY <1>4, <1>t DEF Unflag, Item
    <2> QED
      BY <1>4, <1>p, <2>1 DEF Unflag
  <1>5. ASSUME NEW rating \in Ratings \cup {None}, Rate(i, rating)
        PROVE  /\ StoreInv' /\ RowsStay
               /\ AttemptsChange
               /\ UNCHANGED <<issued, envVars, readVars, sweepVars, faults>>
    <2>1. [items[i] EXCEPT !.rating = rating] \in Item
      BY <1>5, <1>t DEF Rate, Item
    <2> QED
      BY <1>5, <1>p, <2>1 DEF Rate
  <1>6. ASSUME NEW by \in Arms \cup {None}, Close(i, by)
        PROVE  /\ StoreInv' /\ RowsStay
               /\ AttemptsChange
               /\ UNCHANGED <<issued, envVars, readVars, sweepVars, faults>>
    <2> DEFINE closer == IF IsOpen(items[i]) THEN by ELSE items[i].answeredBy
               row == [items[i] EXCEPT !.state = "closed", !.answeredBy = closer]
    <2>1. items[i] \in Item
      BY <1>6, <1>t DEF Close
    <2>2. closer \in Arms \cup {None}
      BY <2>1 DEF Item
    <2> HIDE DEF closer
    <2>3. row \in Item
      BY <2>1, <2>2, ClosedRowTyped
    <2>4. PutItem(row) /\ UNCHANGED <<issued, envVars, readVars, sweepVars, faults>>
      BY <1>6 DEF Close, closer
    <2> QED
      BY <1>p, <2>3, <2>4
  <1>7. ASSUME NEW outcome \in Outcomes, RecordAttempt(i, outcome)
        PROVE  /\ StoreInv' /\ RowsStay
               /\ AttemptsChange
               /\ UNCHANGED <<issued, envVars, readVars, sweepVars, faults>>
    BY <1>7 DEF RecordAttempt, AttemptsChange, RowsStay, StoreInv, StoreTyped, IndexesExact,
                DedupSound, RowsKeyed, EmptyWithoutBucket
  <1> QED
    BY <1>i, <1>1, <1>2, <1>3, <1>4, <1>5, <1>6, <1>7

\* A step that leaves the buckets alone leaves the store's invariant alone.
LEMMA UnchangedKeepsStore ==
  ASSUME StoreInv, UNCHANGED bucketVars
  PROVE  StoreInv'
PROOF
  BY DEF bucketVars, StoreInv, StoreTyped, IndexesExact, LiveIndexOf, OpenIndexOf,
         HistoryIndexOf, DedupSound, RowsKeyed, EmptyWithoutBucket

\* A rebuilt history index is exact; it touches nothing else.
LEMMA BuildHistoryKeepsStore ==
  ASSUME StoreInv, BuildHistory
  PROVE  StoreInv'
PROOF
  <1> USE DEF StoreInv, BuildHistory
  <1>1. StoreTyped'
    BY DEF StoreTyped, HistoryIndexOf, Slot, IndexNames
  <1>2. IndexesExact'
    BY DEF IndexesExact, LiveIndexOf, OpenIndexOf, HistoryIndexOf
  <1>3. DedupSound' /\ RowsKeyed' /\ EmptyWithoutBucket'
    BY DEF DedupSound, RowsKeyed, EmptyWithoutBucket
  <1> QED
    BY <1>1, <1>2, <1>3

\* A live or open index rebuilt by a read or a sweep is exact.
LEMMA EnsureKeepsStore ==
  ASSUME StoreInv,
         UNCHANGED <<items, bucket, history, dedup>>,
         \/ EnsureLiveIndex /\ UNCHANGED open
         \/ EnsureOpenIndex /\ UNCHANGED live
  PROVE  StoreInv'
PROOF
  <1> USE DEF StoreInv
  <1>1. StoreTyped'
    BY DEF StoreTyped, EnsureLiveIndex, EnsureOpenIndex, LiveIndexOf, OpenIndexOf, Slot, IndexNames
  <1>2. IndexesExact'
    BY DEF IndexesExact, EnsureLiveIndex, EnsureOpenIndex, LiveIndexOf, OpenIndexOf, HistoryIndexOf
  <1>3. DedupSound' /\ RowsKeyed' /\ EmptyWithoutBucket'
    BY DEF DedupSound, RowsKeyed, EmptyWithoutBucket, EnsureLiveIndex, EnsureOpenIndex,
           LiveIndexOf, OpenIndexOf, LiveWorthy, IsOpen, StoreTyped
  <1> QED
    BY <1>1, <1>2, <1>3

\* The sweep's one transaction closes stored rows through putItem.
LEMMA SweepKeepsStore ==
  ASSUME StoreAssumption, StoreInv, SweepCommit
  PROVE  StoreInv' /\ RowsStay /\ UNCHANGED attempts
PROOF
  <1> DEFINE S == DueAnswered \cup RedundantReraises(DueAnswered)
             new == [ i \in S |-> [items[i] EXCEPT !.state = "closed"] ]
  <1>1. CASE S = {}
    BY <1>1, UnchangedKeepsStore DEF SweepCommit, CloseSwept, bucketVars, RowsStay
  <1>2. CASE S # {}
    <2>1. S \in SUBSET Ids
      BY DEF DueAnswered, RedundantReraises
    <2>2. ASSUME NEW i \in S PROVE items[i] \in Item /\ items[i].id = i
      <3>1. items[i] # NoItem /\ i \in Ids
        BY DEF DueAnswered, RedundantReraises, IsAnswered, IsOpen
      <3> QED
        BY <3>1, SlotIsItem DEF StoreInv, StoreTyped, RowsKeyed
    <2>3. ASSUME NEW i \in S PROVE new[i] \in Item /\ new[i].id = i
      <3>1. new[i] = [items[i] EXCEPT !.state = "closed"]
        OBVIOUS
      <3>2. [items[i] EXCEPT !.state = "closed"] \in Item
        BY <2>2 DEF Item, States
      <3>3. [items[i] EXCEPT !.state = "closed"].id = items[i].id
        BY <2>2 DEF Item
      <3> QED
        BY <2>2, <3>1, <3>2, <3>3
    <2>4. PutItems(S, new, dedup, built)
      BY <1>2 DEF SweepCommit, CloseSwept
    <2>5. SoundEntries(dedup)
      BY DEF StoreInv, StoreTyped, DedupSound, SoundEntries
    <2>6. built \subseteq built \cup {"dedup"}
      OBVIOUS
    <2> HIDE DEF S, new
    <2>7. StoreInv' /\ RowsStay
      BY <2>1, <2>3, <2>4, <2>5, <2>6, PutKeepsStore
    <2> QED
      BY <2>4, <2>7 DEF PutItems
  <1> QED
    BY <1>1, <1>2

\* The rows a prune takes are stored rows: it judged them under the lock.
LEMMA PruneKeepsStore ==
  ASSUME StoreAssumption, IInv, NEW r \in Readers, ReadCommit(r)
  PROVE  StoreInv' /\ attempts' \in [Ids -> Outcomes \cup {None}]
PROOF
  <1> USE DEF IInv
  <1>1. doomed[r] \in SUBSET Ids
    BY DEF CallInv
  <1>2. \A i \in doomed[r] : items[i] # NoItem
    BY DEF ReadCommit, CommitInv, Condemned, IsOpen
  <1>3. RemoveItems(doomed[r])
    BY DEF ReadCommit
  <1> QED
    BY <1>1, <1>2, <1>3, RemoveKeepsStore
    DEF RemoveItems, AttemptsAfterRemove, CallInv

\* Deleting an index takes its marker too, and an empty dedup index is sound.
LEMMA RestartKeepsStore ==
  ASSUME StoreInv, NEW D \in SUBSET Droppable, Restart(D)
  PROVE  StoreInv'
PROOF
  <1> USE DEF StoreInv, Restart
  <1>1. StoreTyped'
    BY DEF StoreTyped, Slot
  <1>2. IndexesExact'
    BY DEF IndexesExact, LiveIndexOf, OpenIndexOf, HistoryIndexOf
  <1>3. DedupSound' /\ RowsKeyed' /\ EmptyWithoutBucket'
    BY DEF DedupSound, RowsKeyed, EmptyWithoutBucket, StoreTyped
  <1> QED
    BY <1>1, <1>2, <1>3

-----------------------------------------------------------------------------
(* The calls in flight. *)

\* The instants a forgotten call is reset to are in range.
LEMMA ResetInRange == 0 \in (0 - MaxAge) .. MaxTime /\ 0 \in Times
PROOF
  BY StoreAssumption DEF StoreAssumption, Times

\* What a prune judges removable under the lock is open and past its deadline,
\* or its producer was one no listing had to show; and it alone holds the lock.
LEMMA JudgeCondemns ==
  ASSUME IInv, NEW r \in Readers, ReadJudge(r)
  PROVE  CommitInv'
PROOF
  <1> USE StoreAssumption DEF IInv
  <1>1. PICK lookup \in Lookups(StillProbed(r), snapshot[r]) :
          doomed' = [doomed EXCEPT ![r] =
                       { i \in @ : StillExpired(r, i) \/ StillDead(r, i, lookup) }]
    BY DEF ReadJudge
  <1>2. UNCHANGED <<items, judgedAt>> /\ WriterFree /\ pc' = [pc EXCEPT ![r] = "commit"]
    BY DEF ReadJudge, storeVars, bucketVars
  <1>3. doomed'[r] = { i \in doomed[r] : StillExpired(r, i) \/ StillDead(r, i, lookup) }
    BY <1>1 DEF CallInv
  <1>4. unseen'[r] = Unseen \cap { items[i].ref : i \in { j \in doomed'[r] : ~StillExpired(r, j) } }
    BY DEF ReadJudge, CallInv
  <1>5. ASSUME NEW i \in doomed'[r] PROVE Condemned(r, i)'
    <2>1. CASE StillExpired(r, i)
      BY <1>2, <2>1 DEF StillExpired, Condemned, IsOpen, IsExpired
    <2>2. CASE ~StillExpired(r, i) /\ StillDead(r, i, lookup)
      <3>1. items[i] \in StillProbed(r) /\ items[i].ref \in Unseen
        BY <1>1, <2>2, GoneIsUnseen DEF StillDead
      <3>2. IsOpen(items[i])
        BY <3>1 DEF StillProbed
      <3>3. items[i].ref \in unseen'[r]
        BY <1>4, <1>5, <2>2, <3>1
      <3> QED
        BY <1>2, <3>2, <3>3 DEF Condemned, IsOpen
    <2> QED
      BY <1>3, <1>5, <2>1, <2>2
  <1>6. \A s \in Readers : pc'[s] = "commit" => s = r
    BY <1>2 DEF WriterFree, CallInv
  <1>7. \A s \in Readers : pc'[s] = "commit" => \A i \in doomed'[s] : Condemned(s, i)'
    BY <1>5, <1>6
  <1> QED
    BY <1>6, <1>7 DEF CommitInv

\* Every step of a read keeps the read's own record well formed; its copies
\* are items, its candidates ids, and its instant is not in the future.
LEMMA ReadStepKeepsIInv ==
  ASSUME IInv, NEW r \in Readers, ReadStep(r)
  PROVE  IInv'
PROOF
  <1> USE StoreAssumption DEF IInv
  <1>1. ASSUME NEW includeAnswered \in BOOLEAN, ReadEnsure(r, includeAnswered)
        PROVE  IInv'
    <2>1. StoreInv'
      BY <1>1, EnsureKeepsStore DEF ReadEnsure
    <2>2. CallInv'
      BY <1>1 DEF ReadEnsure, CallInv, envVars, sweepVars
    <2>3. LivenessInv'
      BY <1>1, RegistryKeepsLiveness DEF ReadEnsure, envVars
    <2>4. CommitInv'
      BY <1>1, OthersKeepCommit DEF ReadEnsure, CallInv
    <2> QED
      BY <2>1, <2>2, <2>3, <2>4
  <1>2. CASE ReadScan(r)
    <2>1. StoreInv'
      BY <1>2, UnchangedKeepsStore DEF ReadScan, storeVars
    <2>2. { live[i] : i \in Ids } \ {NoItem} \subseteq Item
          /\ { open[i] : i \in Ids } \ {NoItem} \subseteq Item
      BY DEF StoreInv, StoreTyped, Slot
    <2>3. scanned' \in [Readers -> SUBSET Item]
      BY <1>2, <2>2 DEF ReadScan, CallInv
    <2>4. CallInv'
      BY <1>2, <2>3 DEF ReadScan, CallInv, storeVars, bucketVars, envVars, sweepVars
    <2>5. LivenessInv'
      BY <1>2, RegistryKeepsLiveness DEF ReadScan, envVars
    <2>6. CommitInv'
      BY <1>2, OthersKeepCommit DEF ReadScan, CallInv, storeVars, bucketVars
    <2> QED
      BY <2>1, <2>4, <2>5, <2>6
  <1>3. CASE ReadClassify(r)
    <2> DEFINE found == { s \in scanned[r] : s.state = "open" }
               due == { s \in found : IsExpired(s, now) }
    <2>1. StoreInv'
      BY <1>3, UnchangedKeepsStore DEF ReadClassify, storeVars
    <2>2. PICK lookup \in Lookups(found \ due, LiveSessions) :
            LET gone == { s \in GoneRows(found \ due, lookup) : IsAsked(s) }
                dead == { s.id : s \in due \cup gone }
            IN  /\ doomed' = [doomed EXCEPT ![r] = dead]
                /\ pc' = [pc EXCEPT ![r] = IF dead = {} THEN "idle" ELSE "resolve"]
                /\ IF SessionRows(found \ due) = {} THEN UNCHANGED cached ELSE TakeListing
                /\ KeepFresh(lookup.answer)
      BY <1>3 DEF ReadClassify
    <2> DEFINE gone == { s \in GoneRows(found \ due, lookup) : IsAsked(s) }
               dead == { s.id : s \in due \cup gone }
    <2>3. gone \subseteq scanned[r]
      <3>1. ASSUME NEW x \in GoneRows(found \ due, lookup) PROVE x \in found \ due
        BY <3>1, GoneIsUnseen
      <3> QED
        BY <3>1
    <2>4. dead \in SUBSET Ids
      <3>1. due \cup gone \subseteq Item
        BY <2>3 DEF CallInv
      <3> QED
        BY <3>1 DEF Item
    <2>5. /\ doomed' = [doomed EXCEPT ![r] = dead]
          /\ pc' = [pc EXCEPT ![r] = IF dead = {} THEN "idle" ELSE "resolve"]
          /\ UNCHANGED cached \/ TakeListing
          /\ KeepFresh(lookup.answer)
          /\ scanned' = [scanned EXCEPT ![r] = {}]
          /\ UNCHANGED <<items, attempts, issued, now, registryVars, board, judgedAt,
                         snapshot, unseen, sweepVars, faults>>
      BY <1>3, <2>2 DEF ReadClassify, storeVars, bucketVars
    <2>6. LivenessInv'
      BY <2>5, LookupKeepsLiveness
    <2> HIDE DEF dead, gone, due, found
    <2>7. CallInv'
      <3>1. doomed' \in [Readers -> SUBSET Ids] /\ scanned' \in [Readers -> SUBSET Item]
        BY <2>4, <2>5 DEF CallInv
      <3>2. pc' \in [Readers -> {"idle", "scan", "classify", "resolve", "judge", "commit"}]
        BY <2>5 DEF CallInv
      <3> QED
        BY <2>5, <3>1, <3>2 DEF CallInv, sweepVars
    <2>8. CommitInv'
      BY <2>5, OthersKeepCommit DEF CallInv
    <2> QED
      BY <2>1, <2>6, <2>7, <2>8
  <1>4. CASE ReadResolve(r)
    <2>1. StoreInv'
      BY <1>4, UnchangedKeepsStore DEF ReadResolve, storeVars
    <2>2. LiveSessions \subseteq SessionRefs
      BY DEF LiveSessions, Listed, LivenessInv, Listings
    <2>3. CallInv'
      BY <1>4, <2>2 DEF ReadResolve, CallInv, Times, storeVars, bucketVars, sweepVars
    <2>4. LivenessInv'
      <3>1. Holding(LiveSessions) \in Listings /\ NotHeld \in Listings
        BY <2>2 DEF Holding, NotHeld, Listings
      <3>2. cached' \in Listings
        BY <1>4, <3>1 DEF ReadResolve, TakeListing
      <3> QED
        BY <1>4, <3>2 DEF ReadResolve, LivenessInv, registryVars
    <2>5. CommitInv'
      BY <1>4, OthersKeepCommit DEF ReadResolve, CallInv, storeVars, bucketVars
    <2> QED
      BY <2>1, <2>3, <2>4, <2>5
  <1>5. CASE ReadJudge(r)
    <2>1. StoreInv'
      BY <1>5, UnchangedKeepsStore DEF ReadJudge, storeVars
    <2>2. PICK lookup \in Lookups(StillProbed(r), snapshot[r]) :
            /\ doomed' = [doomed EXCEPT ![r] =
                            { i \in @ : StillExpired(r, i) \/ StillDead(r, i, lookup) }]
            /\ KeepFresh(lookup.answer)
      BY <1>5 DEF ReadJudge
    <2>3. LivenessInv'
      BY <1>5, <2>2, LookupKeepsLiveness DEF ReadJudge
    <2>4. doomed' \in [Readers -> SUBSET Ids]
      BY <2>2 DEF CallInv
    <2>5. unseen' \in [Readers -> SUBSET Refs]
      <3>1. Unseen \subseteq Refs
        BY DEF Unseen, LivenessInv, Refs
      <3> QED
        BY <1>5, <3>1 DEF ReadJudge, CallInv
    <2>6. /\ pc' \in [Readers -> {"idle", "scan", "classify", "resolve", "judge", "commit"}]
          /\ snapshot' \in [Readers -> SUBSET SessionRefs]
          /\ UNCHANGED <<attempts, issued, now, board, scanned, judgedAt, sweeping, cutoff, faults>>
      BY <1>5 DEF ReadJudge, CallInv, storeVars, bucketVars, sweepVars
    <2>7. CallInv'
      BY <2>4, <2>5, <2>6 DEF CallInv
    <2>8. CommitInv'
      BY <1>5, JudgeCondemns
    <2> QED
      BY <2>1, <2>3, <2>7, <2>8
  <1>6. CASE ReadCommit(r)
    <2>1. StoreInv' /\ attempts' \in [Ids -> Outcomes \cup {None}]
      BY <1>6, PruneKeepsStore
    <2>2. CallInv'
      BY <1>6, <2>1 DEF ReadCommit, CallInv, Times, envVars, sweepVars
    <2>3. LivenessInv'
      BY <1>6, RegistryKeepsLiveness DEF ReadCommit, envVars
    <2>4. \A s \in Readers : pc'[s] # "commit"
      BY <1>6 DEF ReadCommit, CommitInv, CallInv
    <2>5. CommitInv'
      BY <2>4 DEF CommitInv
    <2> QED
      BY <2>1, <2>2, <2>3, <2>5
  <1> QED
    BY <1>1, <1>2, <1>3, <1>4, <1>5, <1>6 DEF ReadStep

\* Giving up a read, failing a sweep and restarting forget calls and at most
\* lose indexes together with their markers.
LEMMA FailureKeepsIInv ==
  ASSUME IInv,
         \/ \E r \in Readers : ReadFails(r)
         \/ SweepFails
         \/ \E D \in SUBSET Droppable : Restart(D)
  PROVE  IInv'
PROOF
  <1> USE StoreAssumption DEF IInv
  <1>1. ASSUME NEW r \in Readers, ReadFails(r) PROVE IInv'
    <2>1. StoreInv'
      BY <1>1, UnchangedKeepsStore DEF ReadFails, storeVars
    <2>2. CallInv'
      BY <1>1 DEF ReadFails, CallInv, Times, storeVars, bucketVars, envVars, sweepVars
    <2>3. LivenessInv'
      BY <1>1, RegistryKeepsLiveness DEF ReadFails, envVars
    <2>4. CommitInv'
      BY <1>1, OthersKeepCommit DEF ReadFails, CallInv, storeVars, bucketVars
    <2> QED
      BY <2>1, <2>2, <2>3, <2>4
  <1>2. CASE SweepFails
    <2>1. StoreInv'
      BY <1>2, UnchangedKeepsStore DEF SweepFails, storeVars
    <2>2. CallInv'
      <3>1. UNCHANGED <<attempts, issued, envVars, readVars>>
        BY <1>2 DEF SweepFails, storeVars, bucketVars
      <3>2. sweeping' \in BOOLEAN /\ cutoff' \in (0 - MaxAge) .. MaxTime
        BY <1>2, ResetInRange DEF SweepFails
      <3>3. faults' \in 0 .. MaxFaults
        BY <1>2 DEF SweepFails, CallInv, StoreAssumption
      <3> QED
        BY <3>1, <3>2, <3>3 DEF CallInv, envVars, readVars
    <2>3. LivenessInv'
      BY <1>2, RegistryKeepsLiveness DEF SweepFails, envVars
    <2>4. CommitInv'
      BY <1>2, OthersKeepCommit DEF SweepFails, storeVars, bucketVars, readVars
    <2> QED
      BY <2>1, <2>2, <2>3, <2>4
  <1>3. ASSUME NEW D \in SUBSET Droppable, Restart(D) PROVE IInv'
    <2>1. StoreInv'
      BY <1>3, RestartKeepsStore
    <2>2. CallInv'
      <3>1. UNCHANGED <<attempts, issued, now>>
        BY <1>3 DEF Restart
      <3>2. /\ pc' \in [Readers -> {"idle", "scan", "classify", "resolve", "judge", "commit"}]
            /\ board' \in [Readers -> BOOLEAN]
            /\ scanned' \in [Readers -> SUBSET Item]
            /\ doomed' \in [Readers -> SUBSET Ids]
            /\ snapshot' \in [Readers -> SUBSET SessionRefs]
            /\ unseen' \in [Readers -> SUBSET Refs]
        BY <1>3 DEF Restart
      <3>3. judgedAt' \in [Readers -> Times] /\ \A r \in Readers : judgedAt'[r] <= now
        BY <1>3, ResetInRange DEF Restart, CallInv, Times
      <3>4. sweeping' \in BOOLEAN /\ cutoff' \in (0 - MaxAge) .. MaxTime
        BY <1>3, ResetInRange DEF Restart
      <3>5. faults' \in 0 .. MaxFaults
        BY <1>3 DEF Restart, CallInv, StoreAssumption
      <3> QED
        BY <3>1, <3>2, <3>3, <3>4, <3>5 DEF CallInv
    <2>3. LivenessInv'
      BY <1>3, RegistryKeepsLiveness DEF Restart
    <2>4. CommitInv'
      BY <1>3 DEF Restart, CommitInv
    <2> QED
      BY <2>1, <2>2, <2>3, <2>4
  <1> QED
    BY <1>1, <1>2, <1>3

\* The clock, the producers and the registry leave the store alone.
LEMMA EnvironmentKeepsIInv ==
  ASSUME IInv, Environment
  PROVE  IInv'
PROOF
  <1> USE StoreAssumption DEF IInv
  <1> DEFINE Elsewhere == UNCHANGED <<storeVars, readVars, sweepVars, faults>>
  <1>1. Elsewhere
    BY DEF Environment, Tick, ProducerChanges, CachedListingLapses, FreshListingLapses,
           RegistryChanges
  <1>2. StoreInv' /\ CommitInv'
    <2>1. UNCHANGED <<bucketVars, items, pc, doomed, judgedAt, unseen>>
      BY <1>1 DEF storeVars, bucketVars, readVars
    <2> QED
      BY <2>1, UnchangedKeepsStore, OthersKeepCommit
  <1>3. CASE Tick
    <2>1. LivenessInv'
      BY <1>3, RegistryKeepsLiveness DEF Tick
    <2>2. CallInv'
      BY <1>1, <1>3 DEF Tick, CallInv, Times, storeVars, bucketVars, readVars, sweepVars
    <2> QED
      BY <1>2, <2>1, <2>2
  <1>4. CASE ProducerChanges \/ CachedListingLapses \/ FreshListingLapses \/ RegistryChanges
    <2>1. LivenessInv'
      BY <1>4, RegistryKeepsLiveness
      DEF ProducerChanges, CachedListingLapses, FreshListingLapses, RegistryChanges
    <2>2. UNCHANGED now
      BY <1>4 DEF ProducerChanges, CachedListingLapses, FreshListingLapses, RegistryChanges
    <2>3. CallInv'
      BY <1>1, <2>2 DEF CallInv, storeVars, bucketVars, readVars, sweepVars
    <2> QED
      BY <1>2, <2>1, <2>3
  <1> QED
    BY <1>3, <1>4 DEF Environment

-----------------------------------------------------------------------------
(* The invariant. *)

\* An empty store satisfies it.
LEMMA InitIInv == Init => IInv
PROOF
  <1> SUFFICES ASSUME Init PROVE IInv
    OBVIOUS
  <1> USE DEF Init
  <1>1. StoreTyped
    BY DEF StoreTyped, Slot, IndexNames
  <1>2. IndexesExact /\ DedupSound /\ RowsKeyed /\ EmptyWithoutBucket
    BY DEF IndexesExact, DedupSound, RowsKeyed, EmptyWithoutBucket
  <1>3. CallInv
    <2>1. /\ attempts \in [Ids -> Outcomes \cup {None}]
          /\ issued \subseteq Ids
      OBVIOUS
    <2>2. /\ pc \in [Readers -> {"idle", "scan", "classify", "resolve", "judge", "commit"}]
          /\ board \in [Readers -> BOOLEAN]
          /\ scanned \in [Readers -> SUBSET Item]
          /\ doomed \in [Readers -> SUBSET Ids]
          /\ snapshot \in [Readers -> SUBSET SessionRefs]
          /\ unseen \in [Readers -> SUBSET Refs]
      OBVIOUS
    <2>3. now \in Times /\ judgedAt \in [Readers -> Times] /\ \A r \in Readers : judgedAt[r] <= now
      BY ResetInRange
    <2>4. sweeping \in BOOLEAN /\ cutoff \in (0 - MaxAge) .. MaxTime
      BY ResetInRange
    <2>5. faults \in 0 .. MaxFaults
      BY StoreAssumption DEF StoreAssumption
    <2> QED
      BY <2>1, <2>2, <2>3, <2>4, <2>5 DEF CallInv
  <1>4. LivenessInv
    BY DEF InitLiveness, LivenessInv, NotHeld, Listings
  <1>5. CommitInv
    BY DEF CommitInv
  <1> QED
    BY <1>1, <1>2, <1>3, <1>4, <1>5 DEF IInv, StoreInv

\* Every step of the store, its callers and its environment keeps it.
LEMMA NextIInv == IInv /\ [Next]_vars => IInv'
PROOF
  <1> SUFFICES ASSUME IInv, [Next]_vars PROVE IInv'
    OBVIOUS
  <1> USE StoreAssumption DEF IInv
  <1>w. ASSUME UNCHANGED <<livenessVars, readVars>>, UNCHANGED items \/ WriterFree
        PROVE  LivenessInv' /\ CommitInv'
    <2>1. UNCHANGED <<pc, doomed, judgedAt, unseen>>
      BY <1>w DEF readVars
    <2> QED
      BY <1>w, <2>1, RegistryKeepsLiveness, OthersKeepCommit
  <1>1. ASSUME NEW q \in Requests, Push(q) PROVE IInv'
    <2>1. StoreInv' /\ issued' \subseteq Ids /\ UNCHANGED attempts
      BY <1>1, PushKeepsStore
    <2>2. CallInv'
      BY <1>1, <2>1 DEF Push, CallInv, readVars, sweepVars
    <2>3. PICK entries \in EnsuredDedup :
            \E lookup \in Lookups({entries[q.key]} \ {NoItem}, LiveSessions) :
              KeepFresh(lookup.answer) /\ (UNCHANGED cached \/ TakeListing)
      BY <1>1 DEF Push
    <2>4. LivenessInv'
      BY <1>1, <2>3, LookupKeepsLiveness DEF Push
    <2>5. WriterFree /\ UNCHANGED <<pc, doomed, judgedAt, unseen>>
      BY <1>1 DEF Push, UpdateExisting, AddNew, PutItems, readVars
    <2>6. CommitInv'
      BY <2>5, OthersKeepCommit
    <2> QED
      BY <2>1, <2>2, <2>4, <2>6
  <1>2. CASE ItemOperation
    <2>1. StoreInv' /\ AttemptsChange /\ UNCHANGED <<issued, envVars, readVars, sweepVars, faults>>
      BY <1>2, ItemOperationKeepsStore
    <2>2. CallInv'
      BY <2>1 DEF CallInv, AttemptsChange, envVars, readVars, sweepVars
    <2>3. WriterFree
      <3>1. ASSUME NEW item, PutItem(item) PROVE WriterFree
        BY <3>1 DEF PutItem, PutItems
      <3>2. PICK i \in Ids :
              \/ \E by \in Arms \cup {None}, resolver \in Resolvers \cup {None},
                    decision \in Decisions \cup {None} : Answer(i, by, resolver, decision)
              \/ \E manager \in Resolvers : Escalate(i, manager)
              \/ \E reason \in Reasons : Flag(i, reason)
              \/ Unflag(i)
              \/ \E rating \in Ratings \cup {None} : Rate(i, rating)
              \/ \E by \in Arms \cup {None} : Close(i, by)
              \/ \E outcome \in Outcomes : RecordAttempt(i, outcome)
        BY <1>2 DEF ItemOperation
      <3>3. ASSUME NEW by, NEW resolver, NEW decision, Answer(i, by, resolver, decision)
            PROVE  WriterFree
        BY <3>1, <3>3 DEF Answer
      <3>4. ASSUME NEW x, \/ Escalate(i, x) \/ Flag(i, x) \/ Unflag(i)
                          \/ Rate(i, x) \/ Close(i, x) \/ RecordAttempt(i, x)
            PROVE  WriterFree
        BY <3>1, <3>4 DEF Escalate, Flag, Unflag, Rate, Close, RecordAttempt
      <3> QED
        BY <3>2, <3>3, <3>4
    <2> QED
      BY <1>w, <2>1, <2>2, <2>3 DEF envVars
  <1>3. CASE BuildHistory
    <2>1. StoreInv'
      BY <1>3, BuildHistoryKeepsStore
    <2>2. CallInv'
      BY <1>3 DEF BuildHistory, CallInv, envVars, readVars, sweepVars
    <2> QED
      BY <1>3, <1>w, <2>1, <2>2 DEF BuildHistory, envVars
  <1>4. CASE SweepStart
    <2>1. StoreInv'
      BY <1>4, EnsureKeepsStore DEF SweepStart
    <2>2. CallInv'
      BY <1>4 DEF SweepStart, CallInv, Times, StoreAssumption, envVars, readVars
    <2> QED
      BY <1>4, <1>w, <2>1, <2>2 DEF SweepStart, envVars
  <1>5. CASE SweepCommit
    <2>1. StoreInv' /\ UNCHANGED attempts
      BY <1>5, SweepKeepsStore
    <2>2. CallInv'
      BY <1>5, <2>1, ResetInRange DEF SweepCommit, CallInv, envVars, readVars
    <2>3. UNCHANGED items \/ WriterFree
      BY <1>5 DEF SweepCommit, CloseSwept, PutItems, bucketVars
    <2> QED
      BY <1>5, <1>w, <2>1, <2>2, <2>3 DEF SweepCommit, envVars
  <1>6. ASSUME NEW r \in Readers, ReadStep(r) PROVE IInv'
    BY <1>6, ReadStepKeepsIInv
  <1>7. CASE \/ \E r \in Readers : ReadFails(r)
             \/ SweepFails
             \/ \E D \in SUBSET Droppable : Restart(D)
    BY <1>7, FailureKeepsIInv
  <1>8. CASE Environment
    BY <1>8, EnvironmentKeepsIInv
  <1>9. CASE UNCHANGED vars
    <2>1. StoreInv'
      BY <1>9, UnchangedKeepsStore DEF vars, storeVars
    <2>2. CallInv'
      BY <1>9 DEF vars, storeVars, bucketVars, envVars, readVars, sweepVars, CallInv
    <2> QED
      BY <1>9, <1>w, <2>1, <2>2 DEF vars, storeVars, bucketVars, envVars
  <1> QED
    BY <1>1, <1>2, <1>3, <1>4, <1>5, <1>6, <1>7, <1>8, <1>9 DEF Next

\* The invariant holds in every state the store reaches.
THEOREM Invariance == Spec => []IInv
PROOF
  BY InitIInv, NextIInv, PTL DEF Spec

\* Every bucket, index, call and counter keeps its type: nothing a producer, an
\* arm or an operator sends is stored as anything but an item.
THEOREM TypeCorrect == Spec => []TypeOK
PROOF
  <1>1. IInv => TypeOK
    BY DEF IInv, StoreInv, StoreTyped, CallInv, LivenessInv, TypeOK
  <1> QED
    BY <1>1, Invariance, PTL

\* Whatever order operations, rebuilds and restarts come in, an index that is
\* marked built is exactly what the items bucket determines.
THEOREM IndexesAlwaysExact == Spec => []IndexesExact
PROOF
  <1>1. IInv => IndexesExact
    BY DEF IInv, StoreInv
  <1> QED
    BY <1>1, Invariance, PTL

\* A push never finds under its key a row that has left open, nor an old copy.
THEOREM DedupAlwaysSound == Spec => []DedupSound
PROOF
  <1>1. IInv => DedupSound
    BY DEF IInv, StoreInv
  <1> QED
    BY <1>1, Invariance, PTL

-----------------------------------------------------------------------------
(* Removal. *)

\* Only a prune's commit takes a row away, and only one it judged.
LEMMA RemovalByPrune ==
  ASSUME IInv, [Next]_vars, NEW i \in Ids, items[i] # NoItem, items'[i] = NoItem
  PROVE  \E r \in Readers : pc[r] = "commit" /\ Condemned(r, i)
PROOF
  <1> USE StoreAssumption
  <1>1. ASSUME NEW q \in Requests, Push(q) PROVE FALSE
    BY <1>1, PushKeepsStore DEF RowsStay
  <1>2. CASE ItemOperation
    BY <1>2, ItemOperationKeepsStore DEF RowsStay
  <1>3. CASE SweepCommit
    BY <1>3, SweepKeepsStore DEF RowsStay, IInv
  <1>4. ASSUME NEW r \in Readers, ReadCommit(r) PROVE pc[r] = "commit" /\ Condemned(r, i)
    BY <1>4 DEF ReadCommit, RemoveItems, IInv, CommitInv
  <1>5. CASE BuildHistory \/ SweepStart \/ SweepFails
    BY <1>5 DEF BuildHistory, SweepStart, SweepFails, storeVars, bucketVars
  <1>6. ASSUME NEW r \in Readers,
               \/ \E includeAnswered \in BOOLEAN : ReadEnsure(r, includeAnswered)
               \/ ReadScan(r) \/ ReadClassify(r) \/ ReadResolve(r) \/ ReadJudge(r) \/ ReadFails(r)
        PROVE  FALSE
    BY <1>6 DEF ReadEnsure, ReadScan, ReadClassify, ReadResolve, ReadJudge, ReadFails,
                storeVars, bucketVars
  <1>7. CASE (\E D \in SUBSET Droppable : Restart(D)) \/ Environment \/ UNCHANGED vars
    BY <1>7 DEF Restart, Environment, Tick, ProducerChanges, CachedListingLapses,
                FreshListingLapses, RegistryChanges, vars, storeVars, bucketVars
  <1> QED
    BY <1>1, <1>2, <1>3, <1>4, <1>5, <1>6, <1>7 DEF Next, ReadStep

\* A row goes only while it is open and past its deadline, or when the prune
\* that takes it found its producer, under the writer lock, to be one no listing
\* had to show - whatever the checker had cached, whatever the read had judged
\* before, and however many readers prune at once.
THEOREM RemovalAlwaysJustified == Spec => RemovalJustified
PROOF
  <1>1. ASSUME IInv, [Next]_vars
        PROVE  [ \A i \in Ids : items[i] # NoItem /\ items'[i] = NoItem =>
                   /\ IsOpen(items[i])
                   /\ \/ IsExpired(items[i], now)
                      \/ \E r \in Readers : pc[r] = "commit" /\ items[i].ref \in unseen[r] ]_vars
    <2> SUFFICES ASSUME NEW i \in Ids, items[i] # NoItem, items'[i] = NoItem
                 PROVE  /\ IsOpen(items[i])
                        /\ \/ IsExpired(items[i], now)
                           \/ \E r \in Readers : pc[r] = "commit" /\ items[i].ref \in unseen[r]
      OBVIOUS
    <2>1. PICK r \in Readers : pc[r] = "commit" /\ Condemned(r, i)
      BY <1>1, RemovalByPrune
    <2>2. CASE items[i].ref \in unseen[r]
      BY <2>1, <2>2 DEF Condemned
    <2>3. CASE IsExpired(items[i], judgedAt[r])
      <3>1. IsOpen(items[i])
        BY <2>1 DEF Condemned
      <3>2. judgedAt[r] \in Int /\ now \in Int /\ judgedAt[r] <= now
        BY <1>1 DEF IInv, CallInv, Times
      <3>3. items[i].expiresAt \in Int
        BY <1>1, SlotIsItem, StoreAssumption
        DEF IInv, StoreInv, StoreTyped, Item, Stamps, Times, Never
      <3> QED
        BY <2>3, <3>1, <3>2, <3>3 DEF IsExpired
    <2> QED
      BY <2>1, <2>2, <2>3 DEF Condemned
  <1> QED
    BY <1>1, Invariance, PTL DEF Spec, RemovalJustified

\* A delivery record never outlives its item: every write keeps rows, and the
\* prune that takes a row takes its record in the same transaction.
LEMMA NextAttemptsJoin ==
  ASSUME IInv, AttemptsJoin, [Next]_vars
  PROVE  AttemptsJoin'
PROOF
  <1> USE StoreAssumption DEF AttemptsJoin
  <1>k. ASSUME RowsStay, AttemptsChange PROVE AttemptsJoin'
    BY <1>k DEF RowsStay, AttemptsChange, IInv, CallInv
  <1>1. ASSUME NEW q \in Requests, Push(q) PROVE AttemptsJoin'
    BY <1>1, <1>k, PushKeepsStore DEF AttemptsChange
  <1>2. CASE ItemOperation
    BY <1>2, <1>k, ItemOperationKeepsStore
  <1>3. CASE SweepCommit
    BY <1>3, <1>k, SweepKeepsStore DEF AttemptsChange, IInv
  <1>4. ASSUME NEW r \in Readers, ReadCommit(r) PROVE AttemptsJoin'
    BY <1>4 DEF ReadCommit, RemoveItems, AttemptsAfterRemove
  <1>5. CASE BuildHistory \/ SweepStart \/ SweepFails
    BY <1>5 DEF BuildHistory, SweepStart, SweepFails, storeVars, bucketVars
  <1>6. ASSUME NEW r \in Readers,
               \/ \E includeAnswered \in BOOLEAN : ReadEnsure(r, includeAnswered)
               \/ ReadScan(r) \/ ReadClassify(r) \/ ReadResolve(r) \/ ReadJudge(r) \/ ReadFails(r)
        PROVE  AttemptsJoin'
    BY <1>6 DEF ReadEnsure, ReadScan, ReadClassify, ReadResolve, ReadJudge, ReadFails,
                storeVars, bucketVars
  <1>7. CASE (\E D \in SUBSET Droppable : Restart(D)) \/ Environment \/ UNCHANGED vars
    BY <1>7 DEF Restart, Environment, Tick, ProducerChanges, CachedListingLapses,
                FreshListingLapses, RegistryChanges, vars, storeVars, bucketVars
  <1> QED
    BY <1>1, <1>2, <1>3, <1>4, <1>5, <1>6, <1>7 DEF Next, ReadStep

\* The read surface never joins a delivery record to a missing item.
THEOREM AttemptsAlwaysJoin == Spec => []AttemptsJoin
PROOF
  <1>1. Init => AttemptsJoin
    BY DEF Init, AttemptsJoin
  <1>2. IInv /\ AttemptsJoin /\ [Next]_vars => AttemptsJoin'
    BY NextAttemptsJoin
  <1> QED
    BY <1>1, <1>2, Invariance, PTL DEF Spec

==============================================================================

-------------------------- MODULE SessionLedgerProofs --------------------------
(***************************************************************************)
(* Proofs about SessionLedger, for any number of sessions, writers, readers *)
(* and writes.                                                              *)
(*                                                                         *)
(* The cache is sound because of what its generation says: a list read      *)
(* under the present generation holds every write that has returned, since  *)
(* each write that returns ends a generation.                               *)
(***************************************************************************)
EXTENDS SessionLedger, SequenceTheorems, WellFoundedInduction, TLAPS

\* The bucket, and how far the writes are.
Written ==
  /\ ledger \in Ledger
  /\ version \in Nat /\ calls \in 0 .. MaxWrites /\ version <= calls
  /\ acked \in 0 .. version
  /\ writing \in [Writers -> {NoCall} \cup 0 .. MaxWrites]
  /\ \A w \in Writers : writing[w] # NoCall => writing[w] <= version
  /\ failures \in 0 .. MaxFailures

\* What the cache holds contains every write that has returned.
Cached ==
  /\ gen \in Nat
  /\ body \in List \cup {NoList}
  /\ entries \in List \cup {NoList}
  /\ body # NoList => body.asOf >= acked
  /\ entries # NoList => entries.asOf >= acked

\* The types of what the readers hold.
Placed ==
  /\ pc \in [Readers -> {Idle, "entries", "view", "store", "encode", "answered"}]
  /\ encoded \in [Readers -> BOOLEAN]
  /\ bodyGen \in [Readers -> Nat]
  /\ listGen \in [Readers -> Nat]
  /\ hand \in [Readers -> List \cup {NoList}]
  /\ floor \in [Readers -> Nat]

\* What a reader holds is as new as its call asks for; and it is as new as the
\* cache asks for while the generation it was read under lasts.
Reading(r) ==
  /\ floor[r] <= acked
  /\ bodyGen[r] <= gen
  /\ listGen[r] <= gen
  /\ pc[r] \in {"store", "encode", "answered"} =>
       hand[r] # NoList /\ hand[r].asOf >= floor[r]
  /\ pc[r] = "store" /\ listGen[r] = gen => hand[r].asOf >= acked
  /\ pc[r] = "encode" => encoded[r]
  /\ encoded[r] /\ bodyGen[r] = gen => floor[r] = acked

IInv ==
  /\ Written
  /\ RowsStayValid
  /\ Cached
  /\ Placed
  /\ \A r \in Readers : Reading(r)

-----------------------------------------------------------------------------
(* Rows. *)

\* A patch a row accepts makes a row of it, and a valid one.
LEMMA MergedIsRow ==
  ASSUME NEW row \in Row, NEW patch \in Patches, Accepts(row, patch)
  PROVE  Merged(row, patch) \in Row /\ ValidRow(Merged(row, patch))
PROOF
  <1>1. PICK D \in SUBSET PatchKeys : patch \in [D -> Values \cup {Absent}]
    BY LedgerAssumption DEF LedgerAssumption, Patchable
  <1>2. \A f \in DOMAIN patch : patch[f] \in Values \cup {Absent}
    BY <1>1
  <1> QED
    BY <1>2 DEF Merged, Row, Accepts

\* A set of natural numbers that has a member has a least one.
LEMMA LeastOf ==
  ASSUME NEW S \in SUBSET Nat, S # {}
  PROVE  \E n \in S : \A m \in S : n <= m
PROOF
  <1> DEFINE less == OpToRel(<, Nat)
  <1>1. \E n \in S : \A m \in S : ~(<<m, n>> \in less)
    <2>1. IsWellFoundedOn(less, Nat)
      BY NatLessThanWellFounded
    <2> HIDE DEF less
    <2> QED
      BY <2>1, WFMin
  <1>2. \A m, n \in Nat : <<m, n>> \in less <=> m < n
    BY DEF OpToRel
  <1> HIDE DEF less
  <1>3. PICK n \in S : \A m \in S : ~(<<m, n>> \in less)
    BY <1>1
  <1>4. ASSUME NEW m \in S PROVE n <= m
    <2>1. m \in Nat /\ n \in Nat
      OBVIOUS
    <2>2. ~(m < n)
      BY <1>2, <1>3, <2>1
    <2> QED
      BY <2>1, <2>2
  <1> QED
    BY <1>4

\* Every row an import leaves was there before or is one of the batch.
LEMMA ImportedRow ==
  ASSUME NEW batch \in Imports, NEW s \in Sessions
  PROVE  \/ Imported(batch)[s] = ledger[s]
         \/ /\ ledger[s] = NoRow
            /\ \E n \in DOMAIN batch : Imported(batch)[s] = batch[n].row
PROOF
  <1> DEFINE own == { n \in DOMAIN batch : batch[n].session = s }
  <1>1. CASE ledger[s] # NoRow \/ own = {}
    BY <1>1 DEF Imported
  <1>2. CASE ledger[s] = NoRow /\ own # {}
    <2>1. own \in SUBSET Nat
      <3>1. batch \in Seq([session : Sessions, row : Row])
        BY LedgerAssumption DEF LedgerAssumption, Batch
      <3>2. DOMAIN batch \subseteq Nat
        BY <3>1
      <3> QED
        BY <3>2
    <2>2. \E n \in own : \A m \in own : n <= m
      BY <1>2, <2>1, LeastOf
    <2>3. (CHOOSE n \in own : \A m \in own : n <= m) \in own
      BY <2>2
    <2>4. Imported(batch)[s] = batch[CHOOSE n \in own : \A m \in own : n <= m].row
      BY <1>2 DEF Imported
    <2> QED
      BY <1>2, <2>3, <2>4
  <1> QED
    BY <1>1, <1>2

\* An import of valid rows keeps the bucket a bucket of valid rows.
LEMMA ImportedIsLedger ==
  ASSUME NEW batch \in Imports, ledger \in Ledger, RowsStayValid,
         \A n \in DOMAIN batch : ValidRow(batch[n].row)
  PROVE  /\ Imported(batch) \in Ledger
         /\ \A s \in Sessions : Imported(batch)[s] # NoRow => ValidRow(Imported(batch)[s])
PROOF
  <1>1. batch \in Seq([session : Sessions, row : Row])
    BY LedgerAssumption DEF LedgerAssumption, Batch
  <1>2. \A n \in DOMAIN batch : batch[n].row \in Row
    <2>1. DOMAIN batch = 1 .. Len(batch)
      BY <1>1
    <2>2. \A n \in DOMAIN batch : batch[n] \in [session : Sessions, row : Row]
      BY <1>1, <2>1, ElementOfSeq
    <2> QED
      BY <2>2
  <1>3. ASSUME NEW s \in Sessions
        PROVE  /\ Imported(batch)[s] \in Row \cup {NoRow}
               /\ Imported(batch)[s] # NoRow => ValidRow(Imported(batch)[s])
    <2>1. ledger[s] \in Row \cup {NoRow}
      BY DEF Ledger
    <2> QED
      BY <1>2, <2>1, ImportedRow DEF RowsStayValid
  <1>4. Imported(batch) = [s \in Sessions |-> Imported(batch)[s]]
    BY DEF Imported
  <1> QED
    BY <1>3, <1>4 DEF Ledger

-----------------------------------------------------------------------------
(* The invariant. *)

\* Nothing is written, cached or read at first.
LEMMA InitIInv == Init => IInv
PROOF
  <1> SUFFICES ASSUME Init PROVE IInv
    OBVIOUS
  <1> USE LedgerAssumption DEF LedgerAssumption, Init, Idle
  <1>1. Written
    BY DEF Written, Ledger
  <1>2. RowsStayValid
    BY DEF RowsStayValid
  <1>3. Cached
    BY DEF Cached
  <1>4. Placed
    BY DEF Placed
  <1>5. \A r \in Readers : Reading(r)
    BY DEF Reading
  <1> QED
    BY <1>1, <1>2, <1>3, <1>4, <1>5 DEF IInv

\* A committed or refused write is later than everything read and cached.
LEMMA BeginKeepsIInv ==
  ASSUME IInv, NEW w \in Writers, Begin(w),
         \/ Refuse(w)
         \/ \E new \in Ledger :
              /\ \A s \in Sessions : new[s] # NoRow => ValidRow(new[s])
              /\ Commit(w, new)
  PROVE  IInv'
PROOF
  <1> USE LedgerAssumption DEF LedgerAssumption, IInv, Begin
  <1>1. /\ ledger' \in Ledger
        /\ \A s \in Sessions : ledger'[s] # NoRow => ValidRow(ledger'[s])
    BY DEF Refuse, Commit, Written, RowsStayValid
  <1>2. \/ version' = version /\ writing' = [writing EXCEPT ![w] = 0]
        \/ version' = version + 1 /\ writing' = [writing EXCEPT ![w] = version + 1]
    BY DEF Refuse, Commit
  <1>3. Written'
    <2>1. version' \in Nat /\ calls' \in 0 .. MaxWrites /\ version' <= calls' /\ acked' \in 0 .. version'
      BY <1>2 DEF Written
    <2>2. writing' \in [Writers -> {NoCall} \cup 0 .. MaxWrites]
      BY <1>2 DEF Written
    <2>3. ASSUME NEW v \in Writers, writing'[v] # NoCall PROVE writing'[v] <= version'
      <3>1. CASE v = w
        BY <1>2, <3>1 DEF Written
      <3>2. CASE v # w
        <4>1. writing'[v] = writing[v] /\ writing[v] \in 0 .. MaxWrites /\ writing[v] <= version
          BY <1>2, <2>3, <3>2 DEF Written
        <4> QED
          BY <1>2, <4>1 DEF Written
      <3> QED
        BY <3>1, <3>2
    <2> QED
      BY <1>1, <2>1, <2>2, <2>3 DEF Written
  <1>4. RowsStayValid'
    BY <1>1 DEF RowsStayValid
  <1>5. Cached'
    BY DEF Cached, cacheVars
  <1>6. Placed'
    BY DEF Placed, readerVars
  <1>7. \A r \in Readers : Reading(r)'
    BY DEF Reading, readerVars, cacheVars
  <1> QED
    BY <1>3, <1>4, <1>5, <1>6, <1>7

\* What a post stores is a valid row.
LEMMA PostKeepsIInv ==
  ASSUME IInv, NEW w \in Writers, NEW s \in Sessions, NEW row \in Posts, Post(w, s, row)
  PROVE  IInv'
PROOF
  <1>1. row \in Row
    BY LedgerAssumption DEF LedgerAssumption
  <1>2. CASE ~ValidRow(row)
    BY <1>2, BeginKeepsIInv DEF Post
  <1>3. CASE ValidRow(row)
    <2> DEFINE new == [ledger EXCEPT ![s] = row]
    <2>1. new \in Ledger /\ \A t \in Sessions : new[t] # NoRow => ValidRow(new[t])
      BY <1>1, <1>3 DEF IInv, Written, Ledger, RowsStayValid
    <2>2. Begin(w) /\ Commit(w, new)
      BY <1>3 DEF Post
    <2> QED
      BY <2>1, <2>2, BeginKeepsIInv
  <1> QED
    BY <1>2, <1>3

\* What a patch stores is a valid row.
LEMMA PatchKeepsIInv ==
  ASSUME IInv, NEW w \in Writers, NEW s \in Sessions, NEW patch \in Patches,
         Patch(w, s, patch)
  PROVE  IInv'
PROOF
  <1>1. CASE ~(ledger[s] # NoRow /\ Accepts(ledger[s], patch))
    BY <1>1, BeginKeepsIInv DEF Patch
  <1>2. CASE ledger[s] # NoRow /\ Accepts(ledger[s], patch)
    <2> DEFINE row == Merged(ledger[s], patch)
               new == [ledger EXCEPT ![s] = row]
    <2>1. ledger[s] \in Row
      BY <1>2 DEF IInv, Written, Ledger
    <2>2. row \in Row /\ ValidRow(row)
      BY <1>2, <2>1, MergedIsRow
    <2> HIDE DEF row
    <2>3. new \in Ledger /\ \A t \in Sessions : new[t] # NoRow => ValidRow(new[t])
      BY <2>2 DEF IInv, Written, Ledger, RowsStayValid
    <2>4. Begin(w) /\ Commit(w, new)
      BY <1>2 DEF Patch, row
    <2> HIDE DEF new
    <2> QED
      BY <2>3, <2>4, BeginKeepsIInv
  <1> QED
    BY <1>1, <1>2

\* What an import stores are valid rows.
LEMMA ImportKeepsIInv ==
  ASSUME IInv, NEW w \in Writers, NEW batch \in Imports, Import(w, batch)
  PROVE  IInv'
PROOF
  <1>1. CASE ~(\A n \in DOMAIN batch : ValidRow(batch[n].row))
    BY <1>1, BeginKeepsIInv DEF Import
  <1>2. CASE \A n \in DOMAIN batch : ValidRow(batch[n].row)
    <2>1. /\ Imported(batch) \in Ledger
          /\ \A s \in Sessions : Imported(batch)[s] # NoRow => ValidRow(Imported(batch)[s])
      BY <1>2, ImportedIsLedger DEF IInv, Written
    <2>2. Begin(w) /\ Commit(w, Imported(batch))
      BY <1>2 DEF Import
    <2> QED
      BY <2>1, <2>2, BeginKeepsIInv
  <1> QED
    BY <1>1, <1>2

\* A write that returns leaves nothing in the cache, and nothing that was read
\* under the old generation may enter it.
LEMMA ReturnKeepsIInv ==
  ASSUME IInv, NEW w \in Writers, Return(w)
  PROVE  IInv'
PROOF
  <1> USE LedgerAssumption DEF LedgerAssumption, IInv, Return, bucketVars, readerVars
  <1>1. acked' \in Nat /\ acked' >= acked /\ acked' <= version
    BY DEF Written
  <1>2. Written'
    BY <1>1 DEF Written
  <1>3. RowsStayValid'
    BY DEF RowsStayValid
  <1>4. Cached'
    BY DEF Cached
  <1>5. Placed'
    BY DEF Placed
  <1>6. ASSUME NEW r \in Readers PROVE Reading(r)'
    <2>1. Reading(r) /\ bodyGen[r] \in Nat /\ listGen[r] \in Nat /\ floor[r] \in Nat /\ gen \in Nat
      BY DEF Placed, Cached
    <2> QED
      BY <1>1, <2>1 DEF Reading, Written
  <1> QED
    BY <1>2, <1>3, <1>4, <1>5, <1>6

\* A step of one reader that leaves the writes and the generation alone.
LEMMA ReaderKeepsIInv ==
  ASSUME IInv, NEW r \in Readers,
         UNCHANGED <<bucketVars, acked, writing, gen>>,
         failures' \in 0 .. MaxFailures,
         Cached', Placed', Reading(r)',
         \A t \in Readers \ {r} :
           /\ pc'[t] = pc[t] /\ encoded'[t] = encoded[t] /\ floor'[t] = floor[t]
           /\ bodyGen'[t] = bodyGen[t] /\ listGen'[t] = listGen[t]
           /\ hand'[t] = hand[t]
  PROVE  IInv'
PROOF
  <1>1. Written'
    BY DEF IInv, Written, bucketVars
  <1>2. RowsStayValid'
    BY DEF IInv, RowsStayValid, bucketVars
  <1>3. ASSUME NEW t \in Readers PROVE Reading(t)'
    BY DEF IInv, Reading
  <1> QED
    BY <1>1, <1>2, <1>3 DEF IInv

\* A call that begins holds nothing; a body found in the cache is as new as the
\* call asks for.
LEMMA CallKeepsIInv ==
  ASSUME IInv, NEW r \in Readers, CallList(r) \/ CallListJSON(r)
  PROVE  IInv'
PROOF
  <1> USE DEF IInv, Idle
  <1>1. UNCHANGED <<bucketVars, acked, writing, cacheVars, failures>>
    BY DEF CallList, CallListJSON
  <1>2. Cached'
    BY <1>1 DEF Cached, cacheVars
  <1>3. Placed'
    <2>1. version \in 0 .. MaxWrites /\ acked \in Nat /\ gen \in Nat
      BY LedgerAssumption DEF LedgerAssumption, Written, Cached
    <2>2. CASE CallList(r)
      BY <1>1, <2>1, <2>2 DEF Placed, CallList
    <2>3. CASE CallListJSON(r)
      BY <1>1, <2>1, <2>3 DEF Placed, CallListJSON, Cached
    <2> QED
      BY <2>2, <2>3
  <1>4. Reading(r)'
    <2>1. Reading(r) /\ acked \in Nat /\ gen \in Nat
      BY DEF Written, Cached
    <2>2. CASE CallList(r)
      BY <1>1, <2>1, <2>2 DEF CallList, Reading, Placed, cacheVars
    <2>3. CASE CallListJSON(r)
      BY <1>1, <2>1, <2>3 DEF CallListJSON, Reading, Placed, Cached, cacheVars
    <2> QED
      BY <2>2, <2>3
  <1>5. \A t \in Readers \ {r} :
          /\ pc'[t] = pc[t] /\ encoded'[t] = encoded[t] /\ floor'[t] = floor[t]
          /\ bodyGen'[t] = bodyGen[t] /\ listGen'[t] = listGen[t]
          /\ hand'[t] = hand[t]
    BY DEF CallList, CallListJSON, Placed
  <1>6. failures' \in 0 .. MaxFailures /\ UNCHANGED <<bucketVars, acked, writing, gen>>
    BY <1>1 DEF Written, cacheVars
  <1> QED
    BY <1>2, <1>3, <1>4, <1>5, <1>6, ReaderKeepsIInv

\* A list found in the cache, or read from the bucket, holds every returned write.
LEMMA LoadKeepsIInv ==
  ASSUME IInv, NEW r \in Readers, LoadEntries(r) \/ View(r)
  PROVE  IInv'
PROOF
  <1> USE LedgerAssumption DEF LedgerAssumption, IInv, Idle
  <1>1. UNCHANGED <<bucketVars, acked, writing, cacheVars, failures>>
    BY DEF LoadEntries, View
  <1>2. Cached'
    BY <1>1 DEF Cached, cacheVars
  <1>a. [asOf |-> version, rows |-> ledger] \in List
    BY DEF Written, List
  <1>b. Listed(r) \in {"encode", "answered"} /\ (Listed(r) = "encode" => encoded[r])
    BY DEF Listed
  <1>3. Placed'
    BY <1>1, <1>a, <1>b DEF Placed, LoadEntries, View, Cached
  <1>4. Reading(r)'
    <2>1. Reading(r) /\ acked \in Nat /\ gen \in Nat /\ version \in Nat /\ acked <= version
      BY DEF Written, Cached
    <2>2. CASE LoadEntries(r)
      BY <1>1, <1>b, <2>1, <2>2 DEF LoadEntries, Reading, Placed, Cached, cacheVars, List
    <2>3. CASE View(r)
      BY <1>1, <1>a, <2>1, <2>3 DEF View, Reading, Placed, cacheVars
    <2> QED
      BY <2>2, <2>3
  <1>5. \A t \in Readers \ {r} :
          /\ pc'[t] = pc[t] /\ encoded'[t] = encoded[t] /\ floor'[t] = floor[t]
          /\ bodyGen'[t] = bodyGen[t] /\ listGen'[t] = listGen[t]
          /\ hand'[t] = hand[t]
    BY DEF LoadEntries, View, Placed
  <1>6. failures' \in 0 .. MaxFailures /\ UNCHANGED <<bucketVars, acked, writing, gen>>
    BY <1>1 DEF Written, cacheVars
  <1> QED
    BY <1>2, <1>3, <1>4, <1>5, <1>6, ReaderKeepsIInv

\* What enters the cache was read under its present generation.
LEMMA StoreKeepsIInv ==
  ASSUME IInv, NEW r \in Readers, StoreEntries(r) \/ StoreBody(r)
  PROVE  IInv'
PROOF
  <1> USE LedgerAssumption DEF LedgerAssumption, IInv, Idle
  <1>1. UNCHANGED <<bucketVars, acked, writing, gen, failures>>
    BY DEF StoreEntries, StoreBody
  <1>a. Reading(r) /\ hand[r] \in List \cup {NoList} /\ acked \in Nat /\ gen \in Nat
    BY DEF Written, Cached, Placed
  <1>b. Listed(r) \in {"encode", "answered"} /\ (Listed(r) = "encode" => encoded[r])
    BY DEF Listed
  <1>2. Cached'
    <2>1. CASE StoreEntries(r)
      BY <1>1, <1>a, <2>1 DEF StoreEntries, UnchangedSince, Reading, Cached
    <2>2. CASE StoreBody(r)
      BY <1>1, <1>a, <2>2 DEF StoreBody, UnchangedSince, Reading, Cached
    <2> QED
      BY <2>1, <2>2
  <1>3. Placed'
    BY <1>b DEF Placed, StoreEntries, StoreBody
  <1>4. Reading(r)'
    BY <1>1, <1>a, <1>b DEF StoreEntries, StoreBody, Reading, Placed
  <1>5. \A t \in Readers \ {r} :
          /\ pc'[t] = pc[t] /\ encoded'[t] = encoded[t] /\ floor'[t] = floor[t]
          /\ bodyGen'[t] = bodyGen[t] /\ listGen'[t] = listGen[t]
          /\ hand'[t] = hand[t]
    BY DEF StoreEntries, StoreBody, Placed
  <1>6. failures' \in 0 .. MaxFailures
    BY <1>1 DEF Written
  <1> QED
    BY <1>1, <1>2, <1>3, <1>4, <1>5, <1>6, ReaderKeepsIInv

\* A reader whose call ends holds nothing.
LEMMA EndKeepsIInv ==
  ASSUME IInv, NEW r \in Readers, Answer(r) \/ ReadFails(r)
  PROVE  IInv'
PROOF
  <1> USE LedgerAssumption DEF LedgerAssumption, IInv, Idle
  <1>1. EndCall(r) /\ failures' \in 0 .. MaxFailures
    BY DEF Answer, ReadFails, Written
  <1>2. UNCHANGED <<bucketVars, acked, writing, cacheVars>>
    BY <1>1 DEF EndCall
  <1>3. Cached'
    BY <1>2 DEF Cached, cacheVars
  <1>4. Placed'
    BY <1>1 DEF Placed, EndCall
  <1>5. Reading(r)'
    BY <1>1, <1>2 DEF EndCall, Reading, Placed, Written, Cached, cacheVars
  <1>6. \A t \in Readers \ {r} :
          /\ pc'[t] = pc[t] /\ encoded'[t] = encoded[t] /\ floor'[t] = floor[t]
          /\ bodyGen'[t] = bodyGen[t] /\ listGen'[t] = listGen[t]
          /\ hand'[t] = hand[t]
    BY <1>1 DEF EndCall, Placed
  <1> QED
    BY <1>1, <1>2, <1>3, <1>4, <1>5, <1>6, ReaderKeepsIInv DEF cacheVars

\* A restart empties the cache and ends every call.
LEMMA RestartKeepsIInv ==
  ASSUME IInv, Restart
  PROVE  IInv'
PROOF
  <1> USE LedgerAssumption DEF LedgerAssumption, IInv, Restart, Idle, bucketVars
  <1>1. Written'
    BY DEF Written
  <1>2. RowsStayValid'
    BY DEF RowsStayValid
  <1>3. Cached'
    BY DEF Cached
  <1>4. Placed'
    BY DEF Placed
  <1>5. \A r \in Readers : Reading(r)'
    BY DEF Reading, Written
  <1> QED
    BY <1>1, <1>2, <1>3, <1>4, <1>5

\* No step of any writer or reader, and no restart, breaks the invariant.
LEMMA NextKeepsIInv == IInv /\ [Next]_vars => IInv'
PROOF
  <1> SUFFICES ASSUME IInv, [Next]_vars PROVE IInv'
    OBVIOUS
  <1>1. ASSUME NEW w \in Writers, Write(w) PROVE IInv'
    BY <1>1, PostKeepsIInv, PatchKeepsIInv, ImportKeepsIInv, ReturnKeepsIInv DEF Write
  <1>2. ASSUME NEW r \in Readers, Read(r) PROVE IInv'
    BY <1>2, CallKeepsIInv, LoadKeepsIInv, StoreKeepsIInv, EndKeepsIInv DEF Read
  <1>3. CASE Restart
    BY <1>3, RestartKeepsIInv
  <1>4. CASE UNCHANGED vars
    BY <1>4 DEF IInv, Written, RowsStayValid, Cached, Placed, Reading, vars,
                bucketVars, cacheVars, readerVars
  <1> QED
    BY <1>1, <1>2, <1>3, <1>4 DEF Next

\* The invariant holds in every reachable state.
THEOREM Invariance == Spec => []IInv
PROOF
  BY InitIInv, NextKeepsIInv, PTL DEF Spec

-----------------------------------------------------------------------------
(* The properties. *)

\* Every variable has its type in every reachable state.
THEOREM TypeCorrect == Spec => []TypeOK
PROOF
  <1>1. IInv => TypeOK
    BY LedgerAssumption DEF LedgerAssumption, IInv, Written, Cached, Placed, Reading, TypeOK
  <1> QED
    BY <1>1, Invariance, PTL

\* No sequence of posts, patches and imports leaves an invalid row.
THEOREM RowsAlwaysValid == Spec => []RowsStayValid
PROOF
  <1>1. IInv => RowsStayValid
    BY DEF IInv
  <1> QED
    BY <1>1, Invariance, PTL

\* A list answers every write that had returned when its call began.
THEOREM ListsAlwaysCurrent == Spec => []ReturnedWritesListed
PROOF
  <1>1. IInv => ReturnedWritesListed
    BY DEF IInv, Reading, ReturnedWritesListed
  <1> QED
    BY <1>1, Invariance, PTL

\* A row changes by a post, or in the fields a patch names, and is never lost.
THEOREM OwnersFieldsAlwaysKept == Spec => OwnersFieldsKept
PROOF
  <1> DEFINE Kept(s) ==
        ledger[s] # NoRow /\ ledger'[s] # ledger[s] =>
          /\ ledger'[s] # NoRow
          /\ \A f \in Fields : ledger'[s][f] # ledger[s][f] =>
               \E w \in Writers :
                 \/ \E row \in Posts : Post(w, s, row)
                 \/ \E patch \in Patches : Patch(w, s, patch) /\ f \in DOMAIN patch
  <1>1. ASSUME IInv, [Next]_vars, NEW s \in Sessions PROVE Kept(s)
    <2> SUFFICES ASSUME ledger[s] # NoRow, ledger'[s] # ledger[s] PROVE Kept(s)
      OBVIOUS
    <2>0. ledger \in Ledger /\ ledger[s] \in Row
      BY <1>1 DEF IInv, Written, Ledger
    <2>1. ASSUME NEW w \in Writers, NEW t \in Sessions, NEW row \in Posts, Post(w, t, row)
          PROVE  Kept(s)
      <3>1. ledger' = [ledger EXCEPT ![t] = row]
        BY <2>1 DEF Post, Commit, Refuse
      <3>2. t = s /\ ledger'[s] = row
        BY <2>0, <3>1 DEF Ledger
      <3>3. row # NoRow
        BY LedgerAssumption DEF LedgerAssumption
      <3> QED
        BY <2>1, <3>2, <3>3
    <2>2. ASSUME NEW w \in Writers, NEW t \in Sessions, NEW patch \in Patches,
                 Patch(w, t, patch)
          PROVE  Kept(s)
      <3>1. /\ Accepts(ledger[t], patch) /\ ledger[t] # NoRow
            /\ ledger' = [ledger EXCEPT ![t] = Merged(ledger[t], patch)]
        BY <2>2 DEF Patch, Commit, Refuse
      <3>2. t = s /\ ledger'[s] = Merged(ledger[s], patch)
        BY <2>0, <3>1 DEF Ledger
      <3>3. ledger'[s] \in Row
        BY <2>0, <3>1, <3>2, MergedIsRow
      <3>4. ASSUME NEW f \in Fields, ledger'[s][f] # ledger[s][f] PROVE f \in DOMAIN patch
        BY <3>2, <3>4 DEF Merged
      <3> QED
        BY <2>2, <3>2, <3>3, <3>4, LedgerAssumption DEF LedgerAssumption
    <2>3. ASSUME NEW w \in Writers, NEW batch \in Imports, Import(w, batch)
          PROVE  FALSE
      <3>1. ledger' = Imported(batch)
        BY <2>3 DEF Import, Commit, Refuse
      <3>2. Imported(batch)[s] = ledger[s]
        BY DEF Imported
      <3> QED
        BY <3>1, <3>2
    <2>4. ASSUME NEW w \in Writers, Return(w) PROVE FALSE
      BY <2>4 DEF Return, bucketVars
    <2>5. ASSUME NEW r \in Readers, Read(r) PROVE FALSE
      BY <2>5 DEF Read, CallList, CallListJSON, LoadEntries, View, StoreEntries,
                  StoreBody, Answer, ReadFails, EndCall, bucketVars
    <2>6. CASE Restart \/ UNCHANGED vars
      BY <2>6 DEF Restart, vars, bucketVars
    <2> QED
      BY <1>1, <2>1, <2>2, <2>3, <2>4, <2>5, <2>6 DEF Next, Write
  <1>2. IInv /\ [Next]_vars => [\A s \in Sessions : Kept(s)]_vars
    BY <1>1
  <1> QED
    BY <1>2, Invariance, PTL DEF Spec, OwnersFieldsKept

=============================================================================

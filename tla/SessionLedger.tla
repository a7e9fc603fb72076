---------------------------- MODULE SessionLedger ----------------------------
(***************************************************************************)
(* The spawn ledger: one permanent row per session, and the cache in front  *)
(* of its two list reads.                                                   *)
(*                                                                         *)
(* A write commits in one transaction and drops the cache only when its     *)
(* method returns, so a write is two steps.  A list is up to four: look in  *)
(* the cache, read the bucket, store the rows, store the encoded body.      *)
(* Encoding keeps what a list says, so a body is the list it encodes.       *)
(***************************************************************************)
EXTENDS Naturals, Sequences

CONSTANTS
  Sessions,     \* session ids
  Values,       \* what a field holds
  Absent,       \* an empty or cleared field
  NoRow,        \* the value under a session the bucket does not hold
  NoList,       \* a nil slice of rows, or a nil body
  NoCall,       \* what a writer has to return from when it has no call
  Posts,        \* rows posted
  Patches,      \* patches sent
  Imports,      \* batches imported, sequences of [session, row]
  Writers,      \* concurrent callers of Post, Patch and Import
  Readers,      \* concurrent callers of List and ListJSON
  MaxWrites,    \* bound on writing calls
  MaxFailures   \* bound on failed reads and process restarts

\* spawned_at stands for the fields no row may lack, stopped_at for the ones
\* that stand alone; task and vault are declared together.
Fields == {"spawned_at", "task", "vault", "stopped_at"}

Row == [Fields -> Values \cup {Absent}]

Ledger == [Sessions -> Row \cup {NoRow}]

\* What a patch may name: the fields, session_id and a misspelt field.
PatchKeys == Fields \cup {"session_id", "unknown"}

Patchable == UNION { [D -> Values \cup {Absent}] : D \in SUBSET PatchKeys }

Batch == Seq([session : Sessions, row : Row])

List == [asOf : 0 .. MaxWrites, rows : Ledger]

ASSUME LedgerAssumption ==
  /\ NoRow \notin Row
  /\ NoList \notin List
  /\ NoCall \notin Nat
  /\ Posts \subseteq Row
  /\ Patches \subseteq Patchable
  /\ Imports \subseteq Batch
  /\ MaxWrites \in Nat
  /\ MaxFailures \in Nat

VARIABLES
  ledger,    \* the session-ledger bucket
  version,   \* committed writes so far
  calls,     \* writing calls so far
  acked,     \* the last committed write that has returned
  writing,   \* the write each writer has to return from, 0 if it wrote nothing
  gen,       \* the cache's generation
  body,      \* the cached encoded list
  entries,   \* the cached rows
  pc,        \* where each reader is
  encoded,   \* whether the reader's call is a ListJSON
  bodyGen,   \* the generation its body was looked up under
  listGen,   \* the generation its rows were looked up under
  hand,      \* the list it read, or answers
  floor,     \* the last returned write when its call began
  failures   \* failed reads and restarts so far

bucketVars == <<ledger, version, calls>>
cacheVars == <<gen, body, entries>>
readerVars == <<pc, encoded, bodyGen, listGen, hand, floor>>
vars == <<bucketVars, acked, writing, cacheVars, readerVars, failures>>

Idle == "idle"

-----------------------------------------------------------------------------
(* Rows. *)

ValidRow(row) ==
  /\ row["spawned_at"] # Absent
  /\ row["task"] = Absent <=> row["vault"] = Absent

\* Defect: assigned field by field, a merge forgets one the patch does not name.
MergedForgetting(row, patch) ==
  [f \in Fields |-> IF f \in DOMAIN patch THEN patch[f]
                    ELSE IF f = "stopped_at" THEN Absent ELSE row[f]]

\* A named field is set, or cleared by null; the others stay.
Merged(row, patch) ==
  [f \in Fields |-> IF f \in DOMAIN patch THEN patch[f] ELSE row[f]]

\* Defect: the patch is checked, the merged row is not.
AcceptsUnvalidated(row, patch) == DOMAIN patch \subseteq Fields

\* A patch never names session_id.  A misspelt field with a value is refused;
\* with a null it is dropped before anyone looks.  The merged row must be valid.
Accepts(row, patch) ==
  /\ "session_id" \notin DOMAIN patch
  /\ "unknown" \in DOMAIN patch => patch["unknown"] = Absent
  /\ ValidRow(Merged(row, patch))

\* Defect: a re-imported row replaces the one the bucket holds.
ImportedOver(batch) ==
  [s \in Sessions |->
     IF \E n \in DOMAIN batch : batch[n].session = s
     THEN batch[CHOOSE n \in DOMAIN batch : batch[n].session = s].row
     ELSE ledger[s]]

\* A session the bucket holds is skipped, and so is its second row in a batch.
Imported(batch) ==
  [s \in Sessions |->
     LET own == { n \in DOMAIN batch : batch[n].session = s }
     IN  IF ledger[s] # NoRow \/ own = {} THEN ledger[s]
         ELSE batch[CHOOSE n \in own : \A m \in own : n <= m].row]

-----------------------------------------------------------------------------
(* Writes. *)

\* The call has committed new and is about to drop the cache.
Commit(w, new) ==
  /\ ledger' = new
  /\ version' = version + 1
  /\ writing' = [writing EXCEPT ![w] = version + 1]

\* The call is refused; it drops the cache all the same.
Refuse(w) ==
  /\ writing' = [writing EXCEPT ![w] = 0]
  /\ UNCHANGED <<ledger, version>>

Begin(w) ==
  /\ writing[w] = NoCall
  /\ calls < MaxWrites
  /\ calls' = calls + 1
  /\ UNCHANGED <<acked, cacheVars, readerVars, failures>>

Post(w, s, row) ==
  /\ Begin(w)
  /\ IF ValidRow(row) THEN Commit(w, [ledger EXCEPT ![s] = row]) ELSE Refuse(w)

\* The row is read in the transaction that writes it.
Patch(w, s, patch) ==
  /\ Begin(w)
  /\ IF ledger[s] # NoRow /\ Accepts(ledger[s], patch)
     THEN Commit(w, [ledger EXCEPT ![s] = Merged(ledger[s], patch)])
     ELSE Refuse(w)

\* One invalid row aborts the whole batch.
Import(w, batch) ==
  /\ Begin(w)
  /\ IF \A n \in DOMAIN batch : ValidRow(batch[n].row)
     THEN Commit(w, Imported(batch)) ELSE Refuse(w)

\* The deferred invalidate, and the write returns.
Return(w) ==
  /\ writing[w] # NoCall
  /\ gen' = gen + 1
  /\ body' = NoList
  /\ entries' = NoList
  /\ acked' = IF writing[w] > acked THEN writing[w] ELSE acked
  /\ writing' = [writing EXCEPT ![w] = NoCall]
  /\ UNCHANGED <<bucketVars, readerVars, failures>>

-----------------------------------------------------------------------------
(* Reads. *)

\* Get reads the bucket, changes nothing, and has no step here.
CallList(r) ==
  /\ pc[r] = Idle
  /\ pc' = [pc EXCEPT ![r] = "entries"]
  /\ floor' = [floor EXCEPT ![r] = acked]
  /\ UNCHANGED <<bucketVars, acked, writing, cacheVars, encoded, bodyGen,
                 listGen, hand, failures>>

CallListJSON(r) ==
  /\ pc[r] = Idle
  /\ floor' = [floor EXCEPT ![r] = acked]
  /\ encoded' = [encoded EXCEPT ![r] = TRUE]
  /\ bodyGen' = [bodyGen EXCEPT ![r] = gen]
  /\ hand' = [hand EXCEPT ![r] = body]
  /\ pc' = [pc EXCEPT ![r] = IF body # NoList THEN "answered" ELSE "entries"]
  /\ UNCHANGED <<bucketVars, acked, writing, cacheVars, listGen, failures>>

\* List is done; ListJSON goes on to encode what it returned.
Listed(r) == IF encoded[r] THEN "encode" ELSE "answered"

LoadEntries(r) ==
  /\ pc[r] = "entries"
  /\ listGen' = [listGen EXCEPT ![r] = gen]
  /\ hand' = [hand EXCEPT ![r] = entries]
  /\ pc' = [pc EXCEPT ![r] = IF entries # NoList THEN Listed(r) ELSE "view"]
  /\ UNCHANGED <<bucketVars, acked, writing, cacheVars, encoded, bodyGen,
                 floor, failures>>

View(r) ==
  /\ pc[r] = "view"
  /\ hand' = [hand EXCEPT ![r] = [asOf |-> version, rows |-> ledger]]
  /\ pc' = [pc EXCEPT ![r] = "store"]
  /\ UNCHANGED <<bucketVars, acked, writing, cacheVars, encoded, bodyGen,
                 listGen, floor, failures>>

\* Defect: what was read is stored whatever happened since.
UnchangedSinceAlways(g) == TRUE

\* No write has returned since the generation g was read.
UnchangedSince(g) == gen = g

\* The rows of an empty bucket are a nil slice, which reads as not cached.
StoreEntries(r) ==
  /\ pc[r] = "store"
  /\ entries' = IF ~UnchangedSince(listGen[r]) THEN entries
                ELSE IF \A s \in Sessions : hand[r].rows[s] = NoRow THEN NoList
                ELSE hand[r]
  /\ pc' = [pc EXCEPT ![r] = Listed(r)]
  /\ UNCHANGED <<bucketVars, acked, writing, gen, body, encoded, bodyGen,
                 listGen, hand, floor, failures>>

StoreBody(r) ==
  /\ pc[r] = "encode"
  /\ body' = IF UnchangedSince(bodyGen[r]) THEN hand[r] ELSE body
  /\ pc' = [pc EXCEPT ![r] = "answered"]
  /\ UNCHANGED <<bucketVars, acked, writing, gen, entries, encoded, bodyGen,
                 listGen, hand, floor, failures>>

EndCall(r) ==
  /\ pc' = [pc EXCEPT ![r] = Idle]
  /\ encoded' = [encoded EXCEPT ![r] = FALSE]
  /\ bodyGen' = [bodyGen EXCEPT ![r] = 0]
  /\ listGen' = [listGen EXCEPT ![r] = 0]
  /\ hand' = [hand EXCEPT ![r] = NoList]
  /\ floor' = [floor EXCEPT ![r] = 0]
  /\ UNCHANGED <<bucketVars, acked, writing, cacheVars>>

Answer(r) == pc[r] = "answered" /\ EndCall(r) /\ UNCHANGED failures

\* The database read, or the encoding, fails.
ReadFails(r) ==
  /\ pc[r] \in {"view", "encode"}
  /\ failures < MaxFailures
  /\ failures' = failures + 1
  /\ EndCall(r)

-----------------------------------------------------------------------------
\* The bucket is durable; the cache and every call in flight are not.
Restart ==
  /\ failures < MaxFailures
  /\ failures' = failures + 1
  /\ gen' = 0
  /\ body' = NoList
  /\ entries' = NoList
  /\ writing' = [w \in Writers |-> NoCall]
  /\ pc' = [r \in Readers |-> Idle]
  /\ encoded' = [r \in Readers |-> FALSE]
  /\ bodyGen' = [r \in Readers |-> 0]
  /\ listGen' = [r \in Readers |-> 0]
  /\ hand' = [r \in Readers |-> NoList]
  /\ floor' = [r \in Readers |-> 0]
  /\ UNCHANGED <<bucketVars, acked>>

Init ==
  /\ ledger = [s \in Sessions |-> NoRow]
  /\ version = 0
  /\ calls = 0
  /\ acked = 0
  /\ writing = [w \in Writers |-> NoCall]
  /\ gen = 0
  /\ body = NoList
  /\ entries = NoList
  /\ pc = [r \in Readers |-> Idle]
  /\ encoded = [r \in Readers |-> FALSE]
  /\ bodyGen = [r \in Readers |-> 0]
  /\ listGen = [r \in Readers |-> 0]
  /\ hand = [r \in Readers |-> NoList]
  /\ floor = [r \in Readers |-> 0]
  /\ failures = 0

Write(w) ==
  \/ \E s \in Sessions :
       \/ \E row \in Posts : Post(w, s, row)
       \/ \E patch \in Patches : Patch(w, s, patch)
  \/ \E batch \in Imports : Import(w, batch)
  \/ Return(w)

Read(r) ==
  \/ CallList(r) \/ CallListJSON(r)
  \/ LoadEntries(r) \/ View(r) \/ StoreEntries(r) \/ StoreBody(r)
  \/ Answer(r) \/ ReadFails(r)

Next ==
  \/ \E w \in Writers : Write(w)
  \/ \E r \in Readers : Read(r)
  \/ Restart

Spec == Init /\ [][Next]_vars

-----------------------------------------------------------------------------
(* What the ledger promises. *)

TypeOK ==
  /\ ledger \in Ledger
  /\ version \in 0 .. MaxWrites
  /\ calls \in 0 .. MaxWrites
  /\ acked \in 0 .. MaxWrites
  /\ writing \in [Writers -> {NoCall} \cup 0 .. MaxWrites]
  /\ gen \in Nat
  /\ body \in List \cup {NoList}
  /\ entries \in List \cup {NoList}
  /\ pc \in [Readers -> {Idle, "entries", "view", "store", "encode", "answered"}]
  /\ encoded \in [Readers -> BOOLEAN]
  /\ bodyGen \in [Readers -> Nat]
  /\ listGen \in [Readers -> Nat]
  /\ hand \in [Readers -> List \cup {NoList}]
  /\ floor \in [Readers -> 0 .. MaxWrites]
  /\ failures \in 0 .. MaxFailures

\* No sequence of posts, patches and imports, each legal by itself, leaves a row
\* a post would have refused: one without a spawn instant, or half an anchor.
RowsStayValid == \A s \in Sessions : ledger[s] # NoRow => ValidRow(ledger[s])

\* A list whose call began after a write had returned contains that write,
\* whatever other lists were filling the cache when it was dropped.
ReturnedWritesListed ==
  \A r \in Readers : pc[r] = "answered" => hand[r].asOf >= floor[r]

\* Only a post replaces what a row says: a patch by a supervisor that did not
\* spawn the session changes the fields it names and no other, an import
\* changes no row that exists, and no row is ever lost.
OwnersFieldsKept ==
  [][ \A s \in Sessions : ledger[s] # NoRow /\ ledger'[s] # ledger[s] =>
        /\ ledger'[s] # NoRow
        /\ \A f \in Fields : ledger'[s][f] # ledger[s][f] =>
             \E w \in Writers :
               \/ \E row \in Posts : Post(w, s, row)
               \/ \E patch \in Patches : Patch(w, s, patch) /\ f \in DOMAIN patch ]_vars

=============================================================================

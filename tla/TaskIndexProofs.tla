--------------------------- MODULE TaskIndexProofs ---------------------------
(***************************************************************************)
(* Proofs about TaskIndex, for any vault, any walkers and any bounds.        *)
(*                                                                         *)
(* An entry gets its goals and its topic when it is indexed, from the rungs   *)
(* of the index it goes into, and a walk reads the rungs before any entry:    *)
(* so in every index, serving or being built, entries and rungs agree.  A     *)
(* stamp is taken before the content it is kept with is read: so a stamp      *)
(* equal to the file's vouches for the entry.  A change of the entries        *)
(* chooses anew the winner of every session it touches.  And a walk that      *)
(* keeps an entry has compared its stamp: so what it installs lists whatever   *)
(* was listed, current and read.                                            *)
(***************************************************************************)
EXTENDS TaskIndex, FiniteSetTheorems, TLAPS

Content == Bodies \cup {NoFile}

\* What has the fields of an entry and no others.
IsEntry(e) ==
  e = [session |-> e.session, terminal |-> e.terminal, touching |-> e.touching,
       declared |-> e.declared, goals |-> e.goals, topic |-> e.topic]

\* The entry has the goals and the topic the rungs of ix give it.
Agrees(ix, e) == IsEntry(e) /\ (e # NoEntry => e = Resolved(ix, e))

\* An index whose entries all agree with its rungs.
Sound(ix) ==
  /\ ix = [byPath |-> ix.byPath, winners |-> ix.winners, stamps |-> ix.stamps,
           goals |-> ix.goals, topics |-> ix.topics, goalTopics |-> ix.goalTopics]
  /\ \A p \in Paths : Agrees(ix, ix.byPath[p])

\* Nothing has been indexed.
Bare(ix) == \A p \in Paths : ix.byPath[p] = NoEntry

\* Files hold bodies, and so does what an apply has read.
FilesTyped ==
  /\ edits \in Nat
  /\ disk \in [Paths -> [body : Content, stamp : Nat]]
  /\ apply = [pc |-> apply.pc, todo |-> apply.todo, at |-> apply.at,
              stamp |-> apply.stamp, read |-> apply.read]
  /\ apply.pc = "read" => apply.at \in Paths
  /\ \A p \in DOMAIN apply.read : apply.read[p].body \in Content

IsWalk(k) ==
  k \in [pc : {k.pc}, todo : {k.todo}, copy : {k.copy}, base : {k.base}, fresh : {k.fresh}]

\* A walk reads the rungs before it indexes anything.
WalkSound(k) ==
  /\ IsWalk(k)
  /\ Sound(k.copy)
  /\ Sound(k.fresh)
  /\ k.pc \in {"idle", "goals", "topics"} => Bare(k.fresh)

IInv ==
  /\ OneWalk
  /\ DOMAIN walk = Walkers
  /\ FilesTyped
  /\ Sound(index)
  /\ \A w \in Walkers : WalkSound(walk[w])

-----------------------------------------------------------------------------
(* Entries *)

\* Resolving again by the same rungs changes nothing.
LEMMA ResolvedAgrees ==
  ASSUME NEW ix, NEW e, IsEntry(e)
  PROVE  Agrees(ix, Resolved(ix, e))
<1> DEFINE g == ExistingGoals(e.declared, ix.goals)
           t == IF GoalOf(e.declared, ix.goals) = "" THEN 0
                ELSE ix.goalTopics[GoalOf(e.declared, ix.goals)]
           r == [session |-> e.session, terminal |-> e.terminal, touching |-> e.touching,
                 declared |-> e.declared, goals |-> g, topic |-> t]
<1> HIDE DEF g, t
<1>1. Resolved(ix, e) = [e EXCEPT !.goals = g, !.topic = t]
  BY DEF Resolved, g, t
<1>2. Resolved(ix, e) = r
  BY <1>1 DEF IsEntry
<1>3. r.declared = e.declared
  OBVIOUS
<1>4. Resolved(ix, r) = [r EXCEPT !.goals = g, !.topic = t]
  BY <1>3 DEF Resolved, g, t
<1>5. Resolved(ix, r) = r
  BY <1>4
<1>6. IsEntry(r)
  BY DEF IsEntry
<1>7. QED
  BY <1>2, <1>5, <1>6 DEF Agrees

\* Only the goals and the topics of an index matter to a resolution.
LEMMA AgreesSame ==
  ASSUME NEW ix, NEW jx, NEW e, Agrees(ix, e), jx.goals = ix.goals,
         jx.goalTopics = ix.goalTopics
  PROVE  Agrees(jx, e)
<1>1. Resolved(jx, e) = Resolved(ix, e)
  BY DEF Resolved
<1>2. QED
  BY <1>1 DEF Agrees

\* No entry agrees with every index.
LEMMA NoEntryAgrees == \A ix : Agrees(ix, NoEntry)
  BY DEF Agrees, IsEntry, NoEntry

\* What a body says, resolved, agrees with the index it goes into.
LEMMA IndexedAgrees ==
  ASSUME NEW ix, NEW body \in Content
  PROVE  Agrees(ix, Indexed(ix, body))
<1>1. CASE Entry(body) = NoEntry
  BY <1>1, NoEntryAgrees DEF Indexed
<1>2. CASE Entry(body) # NoEntry
  <2>1. body \in Bodies
    BY <1>2 DEF Entry, Content
  <2>2. Entry(body) = Entries[body]
    BY <1>2 DEF Entry
  <2> DEFINE f == Parsed(body)
             r == [session |-> f.session, terminal |-> f.terminal, touching |-> f.touching,
                   declared |-> f.declared, goals |-> <<>>, topic |-> 0]
  <2> HIDE DEF f
  <2>3. Entries[body] = IF f.session = "" THEN NoEntry ELSE r
    BY <2>1 DEF Entries, f
  <2>4. Entry(body) = r
    BY <1>2, <2>2, <2>3
  <2>5. IsEntry(Entry(body))
    BY <2>4 DEF IsEntry
  <2>6. QED
    BY <1>2, <2>5, ResolvedAgrees DEF Indexed
<1>3. QED
  BY <1>1, <1>2

-----------------------------------------------------------------------------
(* Indexes *)

\* Indexing what agrees leaves a sound index of the same rungs.
LEMMA WithEntriesSound ==
  ASSUME NEW ix, Sound(ix), NEW new,
         \A p \in Paths \cap DOMAIN new : Agrees(ix, new[p])
  PROVE  Sound(WithEntries(ix, new))
<1> DEFINE byPath == [p \in Paths |-> IF p \in DOMAIN new THEN new[p] ELSE ix.byPath[p]]
           winners == [s \in Sessions |->
                         IF s \in Touched(ix, new) THEN Winner(byPath, s) ELSE ix.winners[s]]
           jx == [byPath |-> byPath, winners |-> winners, stamps |-> ix.stamps,
                  goals |-> ix.goals, topics |-> ix.topics, goalTopics |-> ix.goalTopics]
<1>1. WithEntries(ix, new) = [ix EXCEPT !.byPath = byPath, !.winners = winners]
  BY DEF WithEntries
<1>2. \A p \in Paths : byPath[p] = IF p \in DOMAIN new THEN new[p] ELSE ix.byPath[p]
  OBVIOUS
<1> HIDE DEF byPath, winners
<1>3. WithEntries(ix, new) = jx
  BY <1>1 DEF Sound
<1>4. ASSUME NEW p \in Paths PROVE Agrees(jx, jx.byPath[p])
  <2>1. Agrees(ix, byPath[p])
    BY <1>2 DEF Sound
  <2>2. QED
    BY <2>1, AgreesSame
<1>5. QED
  BY <1>3, <1>4 DEF Sound

\* One file.
LEMMA WithEntrySound ==
  ASSUME NEW ix, Sound(ix), NEW p, NEW entry, p \in Paths => Agrees(ix, entry)
  PROVE  Sound(WithEntry(ix, p, entry))
  BY WithEntriesSound DEF WithEntry

\* Stamps are no business of the rungs.
LEMMA StampsSound ==
  ASSUME NEW ix, Sound(ix), NEW stamps
  PROVE  /\ Sound([ix EXCEPT !.stamps = stamps])
         /\ [ix EXCEPT !.stamps = stamps].goals = ix.goals
         /\ [ix EXCEPT !.stamps = stamps].goalTopics = ix.goalTopics
         /\ [ix EXCEPT !.stamps = stamps].byPath = ix.byPath
<1> DEFINE jx == [byPath |-> ix.byPath, winners |-> ix.winners, stamps |-> stamps,
                  goals |-> ix.goals, topics |-> ix.topics, goalTopics |-> ix.goalTopics]
<1>1. [ix EXCEPT !.stamps = stamps] = jx
  BY DEF Sound
<1>2. ASSUME NEW p \in Paths PROVE Agrees(jx, jx.byPath[p])
  BY AgreesSame DEF Sound
<1>3. QED
  BY <1>1, <1>2 DEF Sound

LEMMA WithStampSound ==
  ASSUME NEW ix, Sound(ix), NEW p, NEW stamp
  PROVE  /\ Sound(WithStamp(ix, p, stamp))
         /\ WithStamp(ix, p, stamp).goals = ix.goals
         /\ WithStamp(ix, p, stamp).goalTopics = ix.goalTopics
         /\ WithStamp(ix, p, stamp).byPath = ix.byPath
<1>1. [ix EXCEPT !.stamps[p] = stamp] = [ix EXCEPT !.stamps = [ix.stamps EXCEPT ![p] = stamp]]
  OBVIOUS
<1>2. QED
  BY <1>1, StampsSound DEF WithStamp

\* The rungs of an index that holds nothing yet may be set to anything.
LEMMA RungsSound ==
  ASSUME NEW ix, Sound(ix), Bare(ix), NEW goals, NEW pages
  PROVE  /\ Sound(WithGoals(ix, goals)) /\ Bare(WithGoals(ix, goals))
         /\ Sound(WithTopics(ix, pages)) /\ Bare(WithTopics(ix, pages))
<1>1. ASSUME NEW g, NEW t, NEW gt
      PROVE  LET jx == [byPath |-> ix.byPath, winners |-> ix.winners, stamps |-> ix.stamps,
                        goals |-> g, topics |-> t, goalTopics |-> gt]
             IN Sound(jx) /\ Bare(jx)
  BY NoEntryAgrees DEF Sound, Bare
<1>2. WithGoals(ix, goals) =
        [byPath |-> ix.byPath, winners |-> ix.winners, stamps |-> ix.stamps,
         goals |-> goals, topics |-> ix.topics, goalTopics |-> ix.goalTopics]
  BY DEF WithGoals, Sound
<1>3. \E t, gt : WithTopics(ix, pages) =
        [byPath |-> ix.byPath, winners |-> ix.winners, stamps |-> ix.stamps,
         goals |-> ix.goals, topics |-> t, goalTopics |-> gt]
  <2> DEFINE gt == Tables[ix.goals][pages]
  <2>1. WithTopics(ix, pages) = [ix EXCEPT !.topics = DOMAIN pages, !.goalTopics = gt]
    BY DEF WithTopics
  <2> HIDE DEF gt
  <2>2. QED
    BY <2>1 DEF Sound
<1>4. QED
  BY <1>1, <1>2, <1>3

LEMMA EmptySound == Sound(EmptyIndex) /\ Bare(EmptyIndex)
  BY NoEntryAgrees DEF Sound, Bare, EmptyIndex

LEMMA NoWalkSound == WalkSound(NoWalk)
  BY EmptySound DEF WalkSound, IsWalk, NoWalk

-----------------------------------------------------------------------------
(* The initial state *)

LEMMA InitSound == Init => IInv
<1> SUFFICES ASSUME Init PROVE IInv
  OBVIOUS
<1>1. OneWalk /\ DOMAIN walk = Walkers
  BY DEF Init, OneWalk, NoWalk
<1>2. FilesTyped
  <2>1. disk \in [Paths -> [body : Content, stamp : Nat]]
    BY DEF Init, Content
  <2>2. QED
    BY <2>1 DEF Init, FilesTyped, NoApply
<1>3. Sound(index)
  <2>1. PICK read \in SUBSET {p \in Paths : disk[p].body # NoFile} : index = Built(read)
    BY DEF Init
  <2> DEFINE bare == WithTopics(WithGoals(EmptyIndex, rungs.goals), rungs.pages)
             ix == [bare EXCEPT !.stamps = [p \in Paths |-> disk[p].stamp]]
             new == [p \in read |-> Indexed(ix, disk[p].body)]
  <2>2. Sound(WithGoals(EmptyIndex, rungs.goals)) /\ Bare(WithGoals(EmptyIndex, rungs.goals))
    BY EmptySound, RungsSound
  <2>3. Sound(bare)
    BY <2>2, RungsSound
  <2> HIDE DEF bare
  <2>4. Sound(ix)
    BY <2>3, StampsSound
  <2>5. index = WithEntries(ix, new)
    BY <2>1 DEF Built, bare
  <2> HIDE DEF ix
  <2>6. \A p \in read : disk[p].body \in Content
    BY <1>2 DEF FilesTyped
  <2>7. \A p \in Paths \cap DOMAIN new : Agrees(ix, new[p])
    BY <2>6, IndexedAgrees
  <2>8. QED
    BY <2>4, <2>5, <2>7, WithEntriesSound
<1>4. \A w \in Walkers : WalkSound(walk[w])
  BY NoWalkSound DEF Init
<1>5. QED
  BY <1>1, <1>2, <1>3, <1>4 DEF IInv

-----------------------------------------------------------------------------
(* The vault and the applies *)

\* What an edit leaves under a path is a body or nothing.
LEMMA EditKeeps ==
  ASSUME IInv, NEW p \in Paths, NEW b \in Content, Edit(p, b) \/ HiddenEdit(p, b)
  PROVE  IInv'
<1>1. UNCHANGED <<index, token, apply, walk>>
  BY DEF Edit, HiddenEdit
<1>0. edits' \in Nat
  BY DEF Edit, HiddenEdit, IInv, FilesTyped
<1>2. disk' \in [Paths -> [body : Content, stamp : Nat]]
  <2>1. CASE Edit(p, b)
    <3>1. edits + 2 \in Nat
      BY DEF IInv, FilesTyped
    <3>2. QED
      BY <2>1, <3>1 DEF Edit, IInv, FilesTyped
  <2>2. CASE HiddenEdit(p, b)
    BY <2>2 DEF HiddenEdit, IInv, FilesTyped
  <2>3. QED
    BY <2>1, <2>2
<1>3. FilesTyped'
  BY <1>0, <1>1, <1>2 DEF IInv, FilesTyped
<1>4. QED
  BY <1>1, <1>3 DEF IInv, OneWalk

\* The loop's apply, up to its critical section.
LEMMA ApplyKeeps ==
  ASSUME IInv, UNCHANGED <<disk, edits, index, token, walk>>, FilesTyped'
  PROVE  IInv'
  BY DEF IInv, OneWalk

LEMMA BurstKeeps ==
  ASSUME IInv, NEW P, BurstStart(P) \/ StrayBurst(P) \/ BurstDropped
  PROVE  IInv'
<1>1. UNCHANGED <<disk, edits, index, token, walk>>
  BY DEF BurstStart, StrayBurst, BurstDropped, vault
<1>2. apply' \in {[NoApply EXCEPT !.pc = "stat", !.todo = P], NoApply}
  BY DEF BurstStart, StrayBurst, BurstDropped
<1>3. PICK pc \in {"idle", "stat"}, todo \in {P, {}} :
        apply' = [pc |-> pc, todo |-> todo, at |-> 0, stamp |-> 0, read |-> NoApply.read]
  BY <1>2 DEF NoApply
<1>4. DOMAIN NoApply.read = {}
  BY DEF NoApply
<1>5. FilesTyped'
  BY <1>1, <1>3, <1>4 DEF IInv, FilesTyped
<1>6. QED
  BY <1>1, <1>5, ApplyKeeps

LEMMA ApplyStatKeeps ==
  ASSUME IInv, NEW p \in Paths, ApplyStat(p)
  PROVE  IInv'
<1>1. UNCHANGED <<disk, edits, index, token, walk>>
  BY DEF ApplyStat, vault
<1>2. PICK stamp : apply' = [apply EXCEPT !.pc = "read", !.at = p, !.stamp = stamp]
  BY DEF ApplyStat
<1>3. apply' = [pc |-> "read", todo |-> apply.todo, at |-> p, stamp |-> stamp,
                read |-> apply.read]
  BY <1>2 DEF IInv, FilesTyped
<1>4. FilesTyped'
  BY <1>1, <1>3 DEF IInv, FilesTyped
<1>5. QED
  BY <1>1, <1>4, ApplyKeeps

LEMMA ApplyReadKeeps ==
  ASSUME IInv, ApplyRead
  PROVE  IInv'
<1>1. UNCHANGED <<disk, edits, index, token, walk>>
  BY DEF ApplyRead, vault
<1>2. apply.at \in Paths /\ apply.pc = "read"
  BY DEF ApplyRead, IInv, FilesTyped
<1>3. PICK body \in {disk[apply.at].body, NoFile} :
        apply' = [apply EXCEPT !.pc = "stat", !.todo = @ \ {apply.at},
                    !.at = 0, !.stamp = 0, !.read = WithRead(@, body)]
  BY DEF ApplyRead
<1>4. body \in Content
  BY <1>2 DEF IInv, FilesTyped, Content
<1> DEFINE read == WithRead(apply.read, body)
           todo == apply.todo \ {apply.at}
<1>5. \A p \in DOMAIN read : read[p].body \in Content
  BY <1>4 DEF WithRead, IInv, FilesTyped
<1> HIDE DEF read, todo
<1>6. apply' = [apply EXCEPT !.pc = "stat", !.todo = todo, !.at = 0, !.stamp = 0, !.read = read]
  BY <1>3 DEF read, todo
<1>7. apply' = [pc |-> "stat", todo |-> todo, at |-> 0, stamp |-> 0, read |-> read]
  BY <1>6 DEF IInv, FilesTyped
<1>8. FilesTyped'
  BY <1>1, <1>5, <1>7 DEF IInv, FilesTyped
<1>9. QED
  BY <1>1, <1>8, ApplyKeeps

\* The critical section indexes what was read by the rungs it serves.
LEMMA ApplyLockedKeeps ==
  ASSUME IInv, ApplyLocked
  PROVE  IInv'
<1> DEFINE ix == [index EXCEPT !.stamps = StampsApplied]
           new == [p \in DOMAIN apply.read |-> Indexed(index, apply.read[p].body)]
<1>1. /\ index' = WithEntries(ix, new)
      /\ apply' = NoApply
      /\ UNCHANGED <<disk, edits, token, walk>>
  BY DEF ApplyLocked, vault
<1>2. Sound(ix) /\ ix.goals = index.goals /\ ix.goalTopics = index.goalTopics
  BY StampsSound DEF IInv
<1> HIDE DEF ix
<1>3. ASSUME NEW p \in Paths \cap DOMAIN new PROVE Agrees(ix, new[p])
  <2>1. apply.read[p].body \in Content
    BY DEF IInv, FilesTyped
  <2>2. Agrees(index, Indexed(index, apply.read[p].body))
    BY <2>1, IndexedAgrees
  <2>3. QED
    BY <1>2, <2>2, AgreesSame
<1>4. Sound(index')
  BY <1>1, <1>2, <1>3, WithEntriesSound
<1>5. Sound(index)'
  BY <1>4 DEF Sound, Agrees
<1>6. FilesTyped'
  BY <1>1 DEF IInv, FilesTyped, NoApply
<1>7. QED
  BY <1>1, <1>5, <1>6 DEF IInv, OneWalk

-----------------------------------------------------------------------------
(* The walks *)

\* A step of a walk that is under way keeps the rest of what it leaves alone.
LEMMA GoesKeeps ==
  ASSUME IInv, NEW w \in Walkers, NEW to, Goes(w, to), WalkSound(to),
         token = w, token' = token, UNCHANGED <<disk, edits, apply>>, Sound(index)'
  PROVE  IInv'
<1>1. walk' = [walk EXCEPT ![w] = to]
  BY DEF Goes
<1>2. walk'[w] = to /\ \A u \in Walkers \ {w} : walk'[u] = walk[u]
  BY <1>1 DEF IInv
<1>3. DOMAIN walk' = Walkers
  BY <1>1 DEF IInv
<1>4. OneWalk'
  BY <1>2 DEF IInv, OneWalk
<1>5. FilesTyped'
  BY DEF IInv, FilesTyped
<1>6. ASSUME NEW u \in Walkers PROVE WalkSound(walk[u])'
  <2>1. WalkSound(walk'[u])
    BY <1>2 DEF IInv
  <2>2. QED
    BY <2>1 DEF WalkSound, IsWalk, Sound, Agrees, Bare
<1>7. QED
  BY <1>3, <1>4, <1>5, <1>6 DEF IInv

\* A walk under way holds the token.
LEMMA WalkerHolds ==
  ASSUME IInv, NEW w \in Walkers, walk[w].pc # "idle"
  PROVE  token = w
  BY DEF IInv, OneWalk

\* Past the rungs a walk stays sound while the index it builds does.
LEMMA FreshSound ==
  ASSUME NEW k, WalkSound(k), NEW to, Sound(to.fresh),
         to \in [pc : {"files", "restamp", "content"}, todo : {to.todo}, copy : {k.copy},
                 base : {k.base}, fresh : {to.fresh}]
  PROVE  WalkSound(to)
  BY DEF WalkSound, IsWalk

\* No walk is under way when the token is free.
LEMMA ClaimKeeps ==
  ASSUME IInv, NEW w \in Walkers, Claim(w)
  PROVE  IInv'
<1> DEFINE to == [walk[w] EXCEPT !.pc = "goals"]
<1>1. /\ token = NoFile /\ token' = w
      /\ walk[w].pc = "idle"
      /\ walk' = [walk EXCEPT ![w] = to]
      /\ UNCHANGED <<disk, edits, index, apply>>
  BY DEF Claim, MayClaim, vault, IInv
<1>2. \A u \in Walkers : walk[u].pc = "idle"
  BY <1>1, TaskIndexAssumption DEF IInv, OneWalk
<1>3. WalkSound(walk[w])
  BY DEF IInv
<1>4. IsWalk(walk[w])
  BY <1>3 DEF WalkSound
<1>5. to \in [pc : {"goals"}, todo : {walk[w].todo}, copy : {walk[w].copy},
            base : {walk[w].base}, fresh : {walk[w].fresh}]
  BY <1>4 DEF IsWalk
<1>6. WalkSound(to)
  BY <1>1, <1>3, <1>5 DEF WalkSound, IsWalk
<1> HIDE DEF to
<1>7. walk'[w] = to /\ \A u \in Walkers \ {w} : walk'[u] = walk[u]
  BY <1>1 DEF IInv
<1>8. DOMAIN walk' = Walkers
  BY <1>1 DEF IInv
<1>9. OneWalk'
  BY <1>1, <1>2, <1>7 DEF OneWalk
<1>10. ASSUME NEW u \in Walkers PROVE WalkSound(walk[u])'
  <2>1. WalkSound(walk'[u])
    BY <1>6, <1>7 DEF IInv
  <2>2. QED
    BY <2>1 DEF WalkSound, IsWalk, Sound, Agrees, Bare
<1>11. FilesTyped' /\ Sound(index)'
  BY <1>1 DEF IInv, FilesTyped, Sound, Agrees
<1>12. QED
  BY <1>8, <1>9, <1>10, <1>11 DEF IInv

\* The rungs are read into an index that holds nothing yet.
LEMMA RungsKeep ==
  ASSUME IInv, NEW w \in Walkers, ReadGoals(w) \/ ReadTopics(w)
  PROVE  IInv'
<1> DEFINE k == walk[w]
<1>1. /\ k.pc \in {"goals", "topics"}
      /\ UNCHANGED <<disk, edits, index, token, apply>>
  BY DEF ReadGoals, ReadTopics, walkOnly, vault
<1>2. WalkSound(k) /\ IsWalk(k) /\ Sound(k.fresh) /\ Bare(k.fresh)
  BY <1>1 DEF IInv, WalkSound
<1>a. PICK fresh : \E pc \in {"topics", "list"} :
        /\ Goes(w, [k EXCEPT !.pc = pc, !.fresh = fresh])
        /\ \/ fresh = k.fresh
           \/ \E goals : fresh = WithGoals(k.fresh, goals)
           \/ \E pages : fresh = WithTopics(k.fresh, pages)
  <2>1. [k EXCEPT !.pc = "topics"] = [k EXCEPT !.pc = "topics", !.fresh = k.fresh]
    BY <1>2 DEF IsWalk
  <2> HIDE DEF k
  <2>2. CASE ReadGoals(w)
    BY <2>1, <2>2 DEF ReadGoals, k
  <2>3. CASE ReadTopics(w)
    BY <2>3 DEF ReadTopics, k
  <2>4. QED
    BY <2>2, <2>3
<1>3. PICK pc \in {"topics", "list"} :
        /\ Goes(w, [k EXCEPT !.pc = pc, !.fresh = fresh])
        /\ \/ fresh = k.fresh
           \/ \E goals : fresh = WithGoals(k.fresh, goals)
           \/ \E pages : fresh = WithTopics(k.fresh, pages)
  BY <1>a
<1>4. Sound(fresh) /\ Bare(fresh)
  BY <1>2, <1>3, RungsSound
<1>5. [k EXCEPT !.pc = pc, !.fresh = fresh] \in
        [pc : {pc}, todo : {k.todo}, copy : {k.copy}, base : {k.base}, fresh : {fresh}]
  BY <1>2 DEF IsWalk
<1>6. WalkSound([k EXCEPT !.pc = pc, !.fresh = fresh])
  BY <1>2, <1>4, <1>5 DEF WalkSound, IsWalk
<1>7. Sound(index)'
  BY <1>1 DEF IInv, Sound, Agrees
<1>8. QED
  BY <1>1, <1>3, <1>6, <1>7, WalkerHolds, GoesKeeps

\* The listing and the copy leave the index being built alone.
LEMMA ListKeeps ==
  ASSUME IInv, NEW w \in Walkers, ListDir(w)
  PROVE  IInv'
<1> DEFINE k == walk[w]
           todo == {p \in Paths : disk[p].body # NoFile}
<1>1. /\ k.pc = "list"
      /\ Goes(w, [k EXCEPT !.pc = "copy", !.todo = todo])
      /\ UNCHANGED <<disk, edits, index, token, apply>>
  BY DEF ListDir, walkOnly, vault
<1>2. WalkSound(k) /\ IsWalk(k)
  BY DEF IInv, WalkSound
<1> HIDE DEF k, todo
<1>3. [k EXCEPT !.pc = "copy", !.todo = todo] \in
        [pc : {"copy"}, todo : {todo}, copy : {k.copy}, base : {k.base}, fresh : {k.fresh}]
  BY <1>2 DEF IsWalk
<1>4. WalkSound([k EXCEPT !.pc = "copy", !.todo = todo])
  BY <1>2, <1>3 DEF WalkSound, IsWalk
<1>5. Sound(index)'
  BY <1>1 DEF IInv, Sound, Agrees
<1>6. QED
  BY <1>1, <1>4, <1>5, WalkerHolds, GoesKeeps DEF k

LEMMA CopyKeeps ==
  ASSUME IInv, NEW w \in Walkers, CopyIndex(w)
  PROVE  IInv'
<1> DEFINE k == walk[w]
<1>1. /\ k.pc = "copy"
      /\ Goes(w, [k EXCEPT !.pc = "files", !.copy = index, !.base = applied])
      /\ UNCHANGED <<disk, edits, index, token, apply>>
  BY DEF CopyIndex, walkOnly, vault
<1>2. WalkSound(k) /\ IsWalk(k) /\ Sound(index)
  BY DEF IInv, WalkSound
<1> HIDE DEF k
<1>3. [k EXCEPT !.pc = "files", !.copy = index, !.base = applied] \in
        [pc : {"files"}, todo : {k.todo}, copy : {index}, base : {applied}, fresh : {k.fresh}]
  BY <1>2 DEF IsWalk
<1>4. WalkSound([k EXCEPT !.pc = "files", !.copy = index, !.base = applied])
  BY <1>2, <1>3 DEF WalkSound, IsWalk
<1>5. Sound(index)'
  BY <1>1, <1>2 DEF Sound, Agrees
<1>6. QED
  BY <1>1, <1>4, <1>5, WalkerHolds, GoesKeeps DEF k

\* Stamping and indexing a file in the index being built.
LEMMA StampedEntrySound ==
  ASSUME NEW ix, Sound(ix), NEW p, NEW stamp, NEW entry, p \in Paths => Agrees(ix, entry)
  PROVE  Sound(WithEntry(WithStamp(ix, p, stamp), p, entry))
<1> DEFINE jx == WithStamp(ix, p, stamp)
<1>1. Sound(jx) /\ jx.goals = ix.goals /\ jx.goalTopics = ix.goalTopics
  BY WithStampSound
<1> HIDE DEF jx
<1>2. p \in Paths => Agrees(jx, entry)
  BY <1>1, AgreesSame
<1>3. Sound(WithEntry(jx, p, entry))
  BY <1>1, <1>2, WithEntrySound
<1>4. QED
  BY <1>3 DEF jx

\* A file whose stamp is held keeps its entry, by the new rungs.
LEMMA ReuseSound ==
  ASSUME IInv, NEW w \in Walkers, NEW p
  PROVE  WalkSound(Reuse(w, p))
<1> DEFINE k == walk[w]
           old == k.copy.byPath[p]
           fresh == WithEntry(WithStamp(k.fresh, p, disk[p].stamp), p, Resolved(k.fresh, old))
           todo == k.todo \ {Next_(w)}
<1>1. WalkSound(k) /\ IsWalk(k) /\ Sound(k.fresh) /\ Sound(k.copy)
  BY DEF IInv, WalkSound
<1>2. p \in Paths => Agrees(k.fresh, Resolved(k.fresh, old))
  BY <1>1, ResolvedAgrees DEF Sound, Agrees
<1>3. Sound(fresh)
  BY <1>1, <1>2, StampedEntrySound
<1>4. /\ Walked(w).fresh = k.fresh
      /\ Walked(w) \in [pc : {"files"}, todo : {todo}, copy : {k.copy}, base : {k.base},
                        fresh : {k.fresh}]
  BY <1>1 DEF IsWalk, Walked
<1>5. Reuse(w, p) = [Walked(w) EXCEPT !.fresh = fresh]
  BY <1>4 DEF Reuse
<1> HIDE DEF k, fresh, todo
<1>6. Reuse(w, p) \in [pc : {"files"}, todo : {todo}, copy : {k.copy}, base : {k.base},
                       fresh : {fresh}]
  BY <1>4, <1>5
<1>7. QED
  BY <1>1, <1>3, <1>6, FreshSound

\* The comparison with the copy: the entry is reused, or the file is read again.
LEMMA CompareKeeps ==
  ASSUME IInv, NEW w \in Walkers, CompareFile(w)
  PROVE  IInv'
<1> DEFINE k == walk[w]
           p == Next_(w)
           again == [k EXCEPT !.pc = "restamp"]
           stamped == [again EXCEPT !.fresh = WithStamp(@, p, disk[p].stamp)]
<1>1. /\ k.pc = "files"
      /\ UNCHANGED <<disk, edits, index, token, apply>>
      /\ Goes(w, Reuse(w, p)) \/ Goes(w, again) \/ Goes(w, stamped)
  BY DEF CompareFile, walkOnly, vault
<1>2. WalkSound(k) /\ IsWalk(k) /\ Sound(k.fresh)
  BY DEF IInv, WalkSound
<1>3. WalkSound(Reuse(w, p))
  BY ReuseSound
<1>4. again \in [pc : {"restamp"}, todo : {k.todo}, copy : {k.copy}, base : {k.base},
                 fresh : {k.fresh}]
  BY <1>2 DEF IsWalk
<1>5. WalkSound(again)
  BY <1>2, <1>4, FreshSound
<1> DEFINE fresh == WithStamp(k.fresh, p, disk[p].stamp)
<1>6. Sound(fresh)
  BY <1>2, WithStampSound
<1>7. stamped = [again EXCEPT !.fresh = fresh]
  BY <1>4
<1> HIDE DEF k, again, fresh
<1>8. [again EXCEPT !.fresh = fresh] \in
        [pc : {"restamp"}, todo : {k.todo}, copy : {k.copy}, base : {k.base}, fresh : {fresh}]
  BY <1>4
<1>9. WalkSound([again EXCEPT !.fresh = fresh])
  BY <1>2, <1>6, <1>8, FreshSound
<1>10. Sound(index)'
  BY <1>1 DEF IInv, Sound, Agrees
<1>11. token = w
  BY <1>1, WalkerHolds DEF k
<1>12. PICK to : Goes(w, to) /\ WalkSound(to)
  BY <1>1, <1>3, <1>5, <1>7, <1>9
<1>13. QED
  BY <1>1, <1>10, <1>11, <1>12, GoesKeeps

LEMMA RestampKeeps ==
  ASSUME IInv, NEW w \in Walkers, RestampFile(w)
  PROVE  IInv'
<1> DEFINE k == walk[w]
           fresh == WithStamp(k.fresh, Next_(w), disk[Next_(w)].stamp)
           to == [k EXCEPT !.pc = "content", !.fresh = fresh]
<1>1. /\ k.pc = "restamp"
      /\ UNCHANGED <<disk, edits, index, token, apply>>
      /\ Goes(w, to)
  BY DEF RestampFile, walkOnly, vault
<1>2. WalkSound(k) /\ IsWalk(k) /\ Sound(fresh)
  BY WithStampSound DEF IInv, WalkSound
<1> HIDE DEF fresh
<1>3. to \in [pc : {"content"}, todo : {k.todo}, copy : {k.copy}, base : {k.base},
              fresh : {fresh}]
  BY <1>2 DEF IsWalk
<1> HIDE DEF to
<1>4. WalkSound(to)
  BY <1>2, <1>3, FreshSound
<1>5. Sound(index)'
  BY <1>1 DEF IInv, Sound, Agrees
<1>6. QED
  BY <1>1, <1>4, <1>5, WalkerHolds, GoesKeeps

\* The content that is read is indexed by the rungs the walk has read.
LEMMA ReadKeeps ==
  ASSUME IInv, NEW w \in Walkers, ReadFile(w)
  PROVE  IInv'
<1> DEFINE k == walk[w]
           p == Next_(w)
           todo == k.todo \ {p}
<1>1. PICK body \in {disk[p].body, NoFile} :
        Goes(w, [Walked(w) EXCEPT !.fresh = WithEntry(@, p, Indexed(@, body))])
  BY DEF ReadFile
<1>2. /\ k.pc = "content"
      /\ UNCHANGED <<disk, edits, index, token, apply>>
  BY DEF ReadFile, walkOnly, vault
<1>3. WalkSound(k) /\ IsWalk(k) /\ Sound(k.fresh)
  BY DEF IInv, WalkSound
<1>4. p \in Paths => body \in Content
  BY DEF IInv, FilesTyped, Content
<1> DEFINE fresh == WithEntry(k.fresh, p, Indexed(k.fresh, body))
           to == [Walked(w) EXCEPT !.fresh = fresh]
<1>5. Sound(fresh)
  BY <1>3, <1>4, IndexedAgrees, WithEntrySound
<1>6. /\ Walked(w).fresh = k.fresh
      /\ Walked(w) \in [pc : {"files"}, todo : {todo}, copy : {k.copy}, base : {k.base},
                        fresh : {k.fresh}]
  BY <1>3 DEF IsWalk, Walked
<1>7. Goes(w, to)
  BY <1>1, <1>6
<1> HIDE DEF k, fresh, todo
<1>8. to \in [pc : {"files"}, todo : {todo}, copy : {k.copy}, base : {k.base}, fresh : {fresh}]
  BY <1>6
<1> HIDE DEF to
<1>9. WalkSound(to)
  BY <1>3, <1>5, <1>8, FreshSound
<1>10. Sound(index)'
  BY <1>2 DEF IInv, Sound, Agrees
<1>11. token = w
  BY <1>2, WalkerHolds DEF k
<1>12. QED
  BY <1>2, <1>7, <1>9, <1>10, <1>11, GoesKeeps

LEMMA EndedSound == WalkSound([NoWalk EXCEPT !.pc = "finish"])
<1>1. [NoWalk EXCEPT !.pc = "finish"] \in
        [pc : {"finish"}, todo : {NoWalk.todo}, copy : {NoWalk.copy}, base : {NoWalk.base},
         fresh : {NoWalk.fresh}]
  BY DEF NoWalk
<1>2. QED
  BY <1>1, NoWalkSound DEF WalkSound, IsWalk

\* A walk that ends, its result installed or not.
LEMMA EndKeeps ==
  ASSUME IInv, NEW w \in Walkers, Install(w) \/ WalkFails(w)
  PROVE  IInv'
<1>1. /\ walk[w].pc # "idle"
      /\ Goes(w, [NoWalk EXCEPT !.pc = "finish"])
      /\ UNCHANGED <<disk, edits, token, apply>>
      /\ index' \in {walk[w].fresh, index}
  BY DEF Install, WalkFails, walkOnly, vault
<1>2. Sound(index')
  BY <1>1 DEF IInv, WalkSound
<1>3. Sound(index)'
  BY <1>2 DEF Sound, Agrees
<1>4. QED
  BY <1>1, <1>3, EndedSound, WalkerHolds, GoesKeeps

\* The walk that gives the token back was the only one.
LEMMA FinishKeeps ==
  ASSUME IInv, NEW w \in Walkers, Finish(w)
  PROVE  IInv'
<1>1. /\ walk[w].pc # "idle"
      /\ walk' = [walk EXCEPT ![w] = NoWalk]
      /\ UNCHANGED <<disk, edits, index, apply>>
  BY DEF Finish, Goes, vault
<1>2. walk'[w] = NoWalk /\ \A u \in Walkers \ {w} : walk'[u] = walk[u]
  BY <1>1 DEF IInv
<1>3. \A u \in Walkers : walk'[u].pc = "idle"
  BY <1>1, <1>2 DEF IInv, OneWalk, NoWalk
<1>4. DOMAIN walk' = Walkers
  BY <1>1 DEF IInv
<1>5. OneWalk'
  BY <1>3 DEF OneWalk
<1>6. ASSUME NEW u \in Walkers PROVE WalkSound(walk[u])'
  <2>1. WalkSound(walk'[u])
    BY <1>2, NoWalkSound DEF IInv
  <2>2. QED
    BY <2>1 DEF WalkSound, IsWalk, Sound, Agrees, Bare
<1>7. FilesTyped' /\ Sound(index)'
  BY <1>1 DEF IInv, FilesTyped, Sound, Agrees
<1>8. QED
  BY <1>4, <1>5, <1>6, <1>7 DEF IInv

-----------------------------------------------------------------------------
(* The theorems *)

\* A step of a walker keeps the invariant.
LEMMA WalkKeeps ==
  ASSUME IInv, NEW w \in Walkers, Walk(w)
  PROVE  IInv'
  BY RungsKeep, ListKeeps, CopyKeeps, CompareKeeps, RestampKeeps, ReadKeeps, EndKeeps,
     FinishKeeps DEF Walk

\* Every step keeps the invariant.
LEMMA NextKeeps == IInv /\ [Next]_vars => IInv'
<1> SUFFICES ASSUME IInv, [Next]_vars PROVE IInv'
  OBVIOUS
<1> USE DEF Walkers
<1>1. ASSUME NEW p \in Paths, NEW b \in Bodies \cup {NoFile}, Edit(p, b) \/ HiddenEdit(p, b)
      PROVE  IInv'
  BY <1>1, EditKeeps DEF Content
<1>2. ASSUME NEW r \in Rungs, RungEdit(r) PROVE IInv'
  <2>1. UNCHANGED <<disk, edits, index, token, apply, walk>>
    BY <1>2 DEF RungEdit
  <2>2. FilesTyped'
    BY <2>1 DEF IInv, FilesTyped
  <2>3. QED
    BY <2>1, <2>2, ApplyKeeps
<1>3. CASE LoopNext
  <2>1. CASE Claim(Loop)
    BY <2>1, ClaimKeeps
  <2>2. ASSUME NEW P, BurstStart(P) PROVE IInv'
    BY <2>2, BurstKeeps
  <2>3. CASE Walk(Loop)
    BY <2>3, WalkKeeps
  <2>4. CASE Applies
    BY <2>4, ApplyStatKeeps, ApplyReadKeeps, ApplyLockedKeeps DEF Applies
  <2>5. QED
    BY <1>3, <2>1, <2>2, <2>3, <2>4 DEF LoopNext
<1>4. ASSUME NEW P, StrayBurst(P) PROVE IInv'
  BY <1>4, BurstKeeps
<1>5. CASE BurstDropped
  BY <1>5, BurstKeeps
<1>6. ASSUME NEW r \in Renders, Claim(r) \/ Walk(r) PROVE IInv'
  BY <1>6, ClaimKeeps, WalkKeeps
<1>7. ASSUME NEW w \in Walkers, WalkFails(w) PROVE IInv'
  BY <1>7, EndKeeps
<1>8. CASE UNCHANGED vars
  <2>1. UNCHANGED <<disk, edits, index, token, apply, walk>>
    BY <1>8 DEF vars
  <2>2. FilesTyped'
    BY <2>1 DEF IInv, FilesTyped
  <2>3. QED
    BY <2>1, <2>2, ApplyKeeps
<1>9. QED
  BY <1>1, <1>2, <1>3, <1>4, <1>5, <1>6, <1>7, <1>8 DEF Next

\* The token, the files and every index stay as the invariant says.
THEOREM TaskIndexInvariance == Spec => []IInv
<1>1. Init => IInv
  BY InitSound
<1>2. IInv /\ [Next]_vars => IInv'
  BY NextKeeps
<1>3. QED
  BY <1>1, <1>2, PTL DEF Spec

\* claimRefresh and finishRefresh let one walk over the vault run at a time,
\* for any number of renders beside the loop.
THEOREM WalksStaySingle == Spec => []OneWalk
<1>1. IInv => OneWalk
  BY DEF IInv
<1>2. QED
  BY <1>1, TaskIndexInvariance, PTL

\* Every entry of the serving index has the goals and the topic its own rungs
\* give it, whatever was applied, reused or installed before.
THEOREM RungsAlwaysApplied == Spec => []RungsApplied
<1>1. IInv => RungsApplied
  BY DEF IInv, Sound, Agrees, RungsApplied
<1>2. QED
  BY <1>1, TaskIndexInvariance, PTL

-----------------------------------------------------------------------------
(* What the operators make of an index, and the walkers of their walks *)

LEMMA StampFields ==
  ASSUME NEW ix, Sound(ix), NEW p, NEW stamp
  PROVE  LET jx == WithStamp(ix, p, stamp)
         IN /\ DOMAIN jx.stamps = DOMAIN ix.stamps
            /\ \A q \in DOMAIN ix.stamps :
                 jx.stamps[q] = IF q = p /\ stamp # 0 THEN stamp ELSE ix.stamps[q]
            /\ \A T : stamp \in T /\ ix.stamps \in [Paths -> T] => jx.stamps \in [Paths -> T]
            /\ jx.byPath = ix.byPath /\ jx.winners = ix.winners
            /\ jx.goals = ix.goals /\ jx.topics = ix.topics /\ jx.goalTopics = ix.goalTopics
<1> DEFINE stamps == [ix.stamps EXCEPT ![p] = stamp]
<1>1. [ix EXCEPT !.stamps[p] = stamp] = [ix EXCEPT !.stamps = stamps]
  OBVIOUS
<1>2. /\ DOMAIN stamps = DOMAIN ix.stamps
      /\ \A q \in DOMAIN ix.stamps : stamps[q] = IF q = p THEN stamp ELSE ix.stamps[q]
      /\ \A T : stamp \in T /\ ix.stamps \in [Paths -> T] => stamps \in [Paths -> T]
  OBVIOUS
<1> HIDE DEF stamps
<1>3. [ix EXCEPT !.stamps = stamps] =
        [byPath |-> ix.byPath, winners |-> ix.winners, stamps |-> stamps,
         goals |-> ix.goals, topics |-> ix.topics, goalTopics |-> ix.goalTopics]
  BY DEF Sound
<1>4. CASE stamp = 0
  BY <1>4 DEF WithStamp
<1>5. CASE stamp # 0
  <2>1. WithStamp(ix, p, stamp) = [ix EXCEPT !.stamps = stamps]
    BY <1>1, <1>5 DEF WithStamp
  <2>2. QED
    BY <1>2, <1>3, <1>5, <2>1
<1>6. QED
  BY <1>4, <1>5

LEMMA EntriesFields ==
  ASSUME NEW ix, Sound(ix), NEW new
  PROVE  LET jx == WithEntries(ix, new)
         IN /\ DOMAIN jx.byPath = Paths
            /\ \A p \in Paths : jx.byPath[p] = IF p \in DOMAIN new THEN new[p] ELSE ix.byPath[p]
            /\ \A T : (\A p \in Paths : jx.byPath[p] \in T) => jx.byPath \in [Paths -> T]
            /\ DOMAIN jx.winners = Sessions
            /\ \A s \in Sessions :
                 jx.winners[s] = IF s \in Touched(ix, new) THEN Winner(jx.byPath, s)
                                 ELSE ix.winners[s]
            /\ \A T : (\A s \in Sessions : jx.winners[s] \in T) => jx.winners \in [Sessions -> T]
            /\ jx.stamps = ix.stamps
            /\ jx.goals = ix.goals /\ jx.topics = ix.topics /\ jx.goalTopics = ix.goalTopics
<1> DEFINE byPath == [p \in Paths |-> IF p \in DOMAIN new THEN new[p] ELSE ix.byPath[p]]
           touched == Touched(ix, new)
           winners == [s \in Sessions |->
                         IF s \in touched THEN Winner(byPath, s) ELSE ix.winners[s]]
<1>1. WithEntries(ix, new) = [ix EXCEPT !.byPath = byPath, !.winners = winners]
  BY DEF WithEntries
<1>2. /\ DOMAIN byPath = Paths
      /\ \A p \in Paths : byPath[p] = IF p \in DOMAIN new THEN new[p] ELSE ix.byPath[p]
      /\ \A T : (\A p \in Paths : byPath[p] \in T) => byPath \in [Paths -> T]
  OBVIOUS
<1> HIDE DEF byPath, touched
<1>3. /\ DOMAIN winners = Sessions
      /\ \A s \in Sessions :
           winners[s] = IF s \in touched THEN Winner(byPath, s) ELSE ix.winners[s]
      /\ \A T : (\A s \in Sessions : winners[s] \in T) => winners \in [Sessions -> T]
  OBVIOUS
<1> HIDE DEF winners
<1>4. WithEntries(ix, new) =
        [byPath |-> byPath, winners |-> winners, stamps |-> ix.stamps,
         goals |-> ix.goals, topics |-> ix.topics, goalTopics |-> ix.goalTopics]
  BY <1>1 DEF Sound
<1>5. QED
  BY <1>2, <1>3, <1>4 DEF touched

\* One file: the others keep their entries.
LEMMA EntryFields ==
  ASSUME NEW ix, Sound(ix), NEW p, NEW entry
  PROVE  LET jx == WithEntry(ix, p, entry)
         IN /\ DOMAIN jx.byPath = Paths
            /\ \A q \in Paths : jx.byPath[q] = IF q = p THEN entry ELSE ix.byPath[q]
            /\ jx.stamps = ix.stamps
            /\ jx.goals = ix.goals /\ jx.topics = ix.topics /\ jx.goalTopics = ix.goalTopics
<1> DEFINE new == [q \in {p} |-> entry]
           jx == WithEntries(ix, new)
<1>1. /\ DOMAIN jx.byPath = Paths
      /\ \A q \in Paths : jx.byPath[q] = IF q \in DOMAIN new THEN new[q] ELSE ix.byPath[q]
      /\ jx.stamps = ix.stamps
      /\ jx.goals = ix.goals /\ jx.topics = ix.topics /\ jx.goalTopics = ix.goalTopics
  BY EntriesFields
<1>2. DOMAIN new = {p} /\ new[p] = entry
  OBVIOUS
<1>3. WithEntry(ix, p, entry) = jx
  BY DEF WithEntry
<1> HIDE DEF new, jx
<1>4. QED
  BY <1>1, <1>2, <1>3

\* The walk of w becomes this, and no other walk moves.
Becomes(w, pc, todo, copy, base, fresh) ==
  /\ walk'[w].pc = pc /\ walk'[w].todo = todo /\ walk'[w].copy = copy
  /\ walk'[w].base = base /\ walk'[w].fresh = fresh
  /\ \A u \in Walkers \ {w} : walk'[u] = walk[u]

LEMMA GoesBecomes ==
  ASSUME IInv, NEW w \in Walkers, NEW to, Goes(w, to), NEW pc, NEW todo, NEW copy, NEW base,
         NEW fresh,
         to \in [pc : {pc}, todo : {todo}, copy : {copy}, base : {base}, fresh : {fresh}]
  PROVE  Becomes(w, pc, todo, copy, base, fresh)
  BY DEF Goes, IInv, Becomes

LEMMA RungsBecome ==
  ASSUME IInv, NEW w \in Walkers, ReadGoals(w) \/ ReadTopics(w)
  PROVE  /\ walk[w].pc \in {"goals", "topics"}
         /\ UNCHANGED <<walkOnly, vault>>
         /\ \E fresh :
              /\ \/ /\ ReadGoals(w)
                    /\ Becomes(w, "topics", walk[w].todo, walk[w].copy, walk[w].base, fresh)
                    /\ fresh = walk[w].fresh \/ fresh = WithGoals(walk[w].fresh, rungs.goals)
                 \/ /\ ReadTopics(w)
                    /\ Becomes(w, "list", walk[w].todo, walk[w].copy, walk[w].base, fresh)
                    /\ \/ fresh = WithTopics(walk[w].fresh, rungs.pages)
                       \/ fresh = WithTopics(walk[w].fresh, <<>>)
<1> DEFINE k == walk[w]
<1>1. IsWalk(k)
  BY DEF IInv, WalkSound
<1>2. /\ k.pc \in {"goals", "topics"}
      /\ UNCHANGED <<walkOnly, vault>>
  BY DEF ReadGoals, ReadTopics, walkOnly
<1>3. ASSUME NEW pc, NEW fresh, Goes(w, [k EXCEPT !.pc = pc, !.fresh = fresh])
      PROVE  Becomes(w, pc, k.todo, k.copy, k.base, fresh)
  <2>1. [k EXCEPT !.pc = pc, !.fresh = fresh] \in
          [pc : {pc}, todo : {k.todo}, copy : {k.copy}, base : {k.base}, fresh : {fresh}]
    BY <1>1 DEF IsWalk
  <2>2. QED
    BY <1>3, <2>1, GoesBecomes
<1>4. [k EXCEPT !.pc = "topics"] = [k EXCEPT !.pc = "topics", !.fresh = k.fresh]
  BY <1>1 DEF IsWalk
<1>5. CASE ReadGoals(w)
  <2>1. PICK fresh \in {k.fresh, WithGoals(k.fresh, rungs.goals)} :
          Goes(w, [k EXCEPT !.pc = "topics", !.fresh = fresh])
    BY <1>4, <1>5 DEF ReadGoals
  <2>2. QED
    BY <1>2, <1>3, <1>5, <2>1
<1>6. CASE ReadTopics(w)
  <2>1. PICK fresh \in {WithTopics(k.fresh, rungs.pages), WithTopics(k.fresh, <<>>)} :
          Goes(w, [k EXCEPT !.pc = "list", !.fresh = fresh])
    BY <1>6 DEF ReadTopics
  <2>2. QED
    BY <1>2, <1>3, <1>6, <2>1
<1>7. QED
  BY <1>5, <1>6

LEMMA ListBecomes ==
  ASSUME IInv, NEW w \in Walkers, ListDir(w)
  PROVE  /\ walk[w].pc = "list"
         /\ UNCHANGED <<walkOnly, vault>>
         /\ Becomes(w, "copy", {p \in Paths : disk[p].body # NoFile}, walk[w].copy, walk[w].base,
                    walk[w].fresh)
<1> DEFINE k == walk[w]
           todo == {p \in Paths : disk[p].body # NoFile}
<1>1. IsWalk(k)
  BY DEF IInv, WalkSound
<1>2. k.pc = "list" /\ UNCHANGED <<walkOnly, vault>>
  BY DEF ListDir, walkOnly
<1>3. Goes(w, [k EXCEPT !.pc = "copy", !.todo = todo])
  BY DEF ListDir
<1> HIDE DEF todo
<1>4. [k EXCEPT !.pc = "copy", !.todo = todo] \in
        [pc : {"copy"}, todo : {todo}, copy : {k.copy}, base : {k.base}, fresh : {k.fresh}]
  BY <1>1 DEF IsWalk
<1>5. Becomes(w, "copy", todo, k.copy, k.base, k.fresh)
  BY <1>3, <1>4, GoesBecomes
<1>6. QED
  BY <1>2, <1>5 DEF todo

LEMMA CopyBecomes ==
  ASSUME IInv, NEW w \in Walkers, CopyIndex(w)
  PROVE  /\ walk[w].pc = "copy"
         /\ UNCHANGED <<walkOnly, vault>>
         /\ Becomes(w, "files", walk[w].todo, index, applied, walk[w].fresh)
<1> DEFINE k == walk[w]
<1>1. IsWalk(k)
  BY DEF IInv, WalkSound
<1>2. /\ k.pc = "copy" /\ UNCHANGED <<walkOnly, vault>>
      /\ Goes(w, [k EXCEPT !.pc = "files", !.copy = index, !.base = applied])
  BY DEF CopyIndex, walkOnly
<1>3. [k EXCEPT !.pc = "files", !.copy = index, !.base = applied] \in
        [pc : {"files"}, todo : {k.todo}, copy : {index}, base : {applied}, fresh : {k.fresh}]
  BY <1>1 DEF IsWalk
<1>4. QED
  BY <1>2, <1>3, GoesBecomes

\* The file compared is settled by its held entry, or goes on to be read.
LEMMA CompareBecomes ==
  ASSUME IInv, NEW w \in Walkers, CompareFile(w)
  PROVE  LET k == walk[w]
             p == Next_(w)
         IN /\ k.pc = "files" /\ k.todo # {}
            /\ UNCHANGED <<walkOnly, vault>>
            /\ \/ /\ disk[p].stamp # 0 /\ Held(w, p)
                  /\ Becomes(w, "files", k.todo \ {p}, k.copy, k.base,
                             WithEntry(WithStamp(k.fresh, p, disk[p].stamp), p,
                                       Resolved(k.fresh, k.copy.byPath[p])))
               \/ Becomes(w, "restamp", k.todo, k.copy, k.base, k.fresh)
               \/ Becomes(w, "restamp", k.todo, k.copy, k.base,
                          WithStamp(k.fresh, p, disk[p].stamp))
<1> DEFINE k == walk[w]
           p == Next_(w)
           again == [k EXCEPT !.pc = "restamp"]
           stamped == WithStamp(k.fresh, p, disk[p].stamp)
           reused == WithEntry(stamped, p, Resolved(k.fresh, k.copy.byPath[p]))
           todo == k.todo \ {p}
<1>1. IsWalk(k)
  BY DEF IInv, WalkSound
<1>2. /\ k.pc = "files" /\ k.todo # {}
      /\ UNCHANGED <<walkOnly, vault>>
      /\ \/ disk[p].stamp # 0 /\ Held(w, p) /\ Goes(w, Reuse(w, p))
         \/ Goes(w, again)
         \/ Goes(w, [again EXCEPT !.fresh = WithStamp(@, p, disk[p].stamp)])
  BY DEF CompareFile, walkOnly
<1>3. again \in
        [pc : {"restamp"}, todo : {k.todo}, copy : {k.copy}, base : {k.base}, fresh : {k.fresh}]
  BY <1>1 DEF IsWalk
<1>4. [again EXCEPT !.fresh = WithStamp(@, p, disk[p].stamp)] = [again EXCEPT !.fresh = stamped]
  BY <1>3
<1>5. /\ Walked(w).fresh = k.fresh
      /\ Walked(w) \in [pc : {"files"}, todo : {todo}, copy : {k.copy}, base : {k.base},
                        fresh : {k.fresh}]
  BY <1>1 DEF IsWalk, Walked
<1>6. Reuse(w, p) = [Walked(w) EXCEPT !.fresh = reused]
  BY <1>5 DEF Reuse
<1> HIDE DEF k, again, stamped, reused, todo
<1>7. [again EXCEPT !.fresh = stamped] \in
        [pc : {"restamp"}, todo : {k.todo}, copy : {k.copy}, base : {k.base}, fresh : {stamped}]
  BY <1>3
<1>8. Reuse(w, p) \in
        [pc : {"files"}, todo : {todo}, copy : {k.copy}, base : {k.base}, fresh : {reused}]
  BY <1>5, <1>6
<1>9. CASE disk[p].stamp # 0 /\ Held(w, p) /\ Goes(w, Reuse(w, p))
  <2>1. Becomes(w, "files", todo, k.copy, k.base, reused)
    BY <1>8, <1>9, GoesBecomes
  <2>2. QED
    BY <1>2, <1>9, <2>1 DEF k, reused, todo, stamped
<1>10. CASE Goes(w, again)
  <2>1. Becomes(w, "restamp", k.todo, k.copy, k.base, k.fresh)
    BY <1>3, <1>10, GoesBecomes
  <2>2. QED
    BY <1>2, <2>1 DEF k
<1>11. CASE Goes(w, [again EXCEPT !.fresh = WithStamp(@, p, disk[p].stamp)])
  <2>1. Becomes(w, "restamp", k.todo, k.copy, k.base, stamped)
    BY <1>4, <1>7, <1>11, GoesBecomes
  <2>2. QED
    BY <1>2, <2>1 DEF k, stamped
<1>12. QED
  BY <1>2, <1>9, <1>10, <1>11

LEMMA RestampBecomes ==
  ASSUME IInv, NEW w \in Walkers, RestampFile(w)
  PROVE  /\ walk[w].pc = "restamp"
         /\ UNCHANGED <<walkOnly, vault>>
         /\ Becomes(w, "content", walk[w].todo, walk[w].copy, walk[w].base,
                    WithStamp(walk[w].fresh, Next_(w), disk[Next_(w)].stamp))
<1> DEFINE k == walk[w]
           fresh == WithStamp(k.fresh, Next_(w), disk[Next_(w)].stamp)
<1>1. IsWalk(k)
  BY DEF IInv, WalkSound
<1>2. k.pc = "restamp" /\ UNCHANGED <<walkOnly, vault>>
  BY DEF RestampFile, walkOnly
<1>3. Goes(w, [k EXCEPT !.pc = "content", !.fresh = fresh])
  BY DEF RestampFile
<1> HIDE DEF fresh
<1>4. [k EXCEPT !.pc = "content", !.fresh = fresh] \in
        [pc : {"content"}, todo : {k.todo}, copy : {k.copy}, base : {k.base}, fresh : {fresh}]
  BY <1>1 DEF IsWalk
<1>5. Becomes(w, "content", k.todo, k.copy, k.base, fresh)
  BY <1>3, <1>4, GoesBecomes
<1>6. QED
  BY <1>2, <1>5 DEF fresh

LEMMA ReadBecomes ==
  ASSUME IInv, NEW w \in Walkers, ReadFile(w)
  PROVE  LET k == walk[w]
             p == Next_(w)
         IN /\ k.pc = "content"
            /\ UNCHANGED <<walkOnly, vault>>
            /\ \E body \in {disk[p].body, NoFile} :
                 Becomes(w, "files", k.todo \ {p}, k.copy, k.base,
                         WithEntry(k.fresh, p, Indexed(k.fresh, body)))
<1> DEFINE k == walk[w]
           p == Next_(w)
           todo == k.todo \ {p}
<1>1. IsWalk(k)
  BY DEF IInv, WalkSound
<1>2. k.pc = "content" /\ UNCHANGED <<walkOnly, vault>>
  BY DEF ReadFile, walkOnly
<1>3. PICK body \in {disk[p].body, NoFile} :
        Goes(w, [Walked(w) EXCEPT !.fresh = WithEntry(@, p, Indexed(@, body))])
  BY DEF ReadFile
<1> DEFINE fresh == WithEntry(k.fresh, p, Indexed(k.fresh, body))
<1>4. /\ Walked(w).fresh = k.fresh
      /\ Walked(w) \in [pc : {"files"}, todo : {todo}, copy : {k.copy}, base : {k.base},
                        fresh : {k.fresh}]
  BY <1>1 DEF IsWalk, Walked
<1>5. Goes(w, [Walked(w) EXCEPT !.fresh = fresh])
  BY <1>3, <1>4
<1> HIDE DEF k, fresh, todo
<1>6. [Walked(w) EXCEPT !.fresh = fresh] \in
        [pc : {"files"}, todo : {todo}, copy : {k.copy}, base : {k.base}, fresh : {fresh}]
  BY <1>4
<1>7. Becomes(w, "files", todo, k.copy, k.base, fresh)
  BY <1>5, <1>6, GoesBecomes
<1>8. QED
  BY <1>2, <1>7 DEF k, fresh, todo

\* A claim and a return of the token build nothing.
LEMMA TokenBecomes ==
  ASSUME IInv, NEW w \in Walkers, Claim(w) \/ Finish(w)
  PROVE  /\ UNCHANGED <<index, applied, apply, vault>>
         /\ \/ /\ walk[w].pc = "idle"
               /\ Becomes(w, "goals", walk[w].todo, walk[w].copy, walk[w].base, walk[w].fresh)
            \/ Becomes(w, "idle", {}, EmptyIndex, 0, EmptyIndex)
<1> DEFINE k == walk[w]
<1>1. IsWalk(k)
  BY DEF IInv, WalkSound
<1>2. UNCHANGED <<index, applied, apply, vault>>
  BY DEF Claim, Finish
<1>3. CASE Claim(w)
  <2>1. k.pc = "idle" /\ Goes(w, [k EXCEPT !.pc = "goals"])
    BY <1>3 DEF Claim, MayClaim, Goes, IInv
  <2>2. [k EXCEPT !.pc = "goals"] \in
          [pc : {"goals"}, todo : {k.todo}, copy : {k.copy}, base : {k.base}, fresh : {k.fresh}]
    BY <1>1 DEF IsWalk
  <2>3. QED
    BY <1>2, <2>1, <2>2, GoesBecomes
<1>4. CASE Finish(w)
  BY <1>2, <1>4 DEF Finish, Goes, Becomes, IInv, NoWalk
<1>5. QED
  BY <1>3, <1>4

\* A walk that ends leaves its index, or nothing.
LEMMA EndBecomes ==
  ASSUME IInv, NEW w \in Walkers, Install(w) \/ WalkFails(w)
  PROVE  /\ UNCHANGED <<applied, apply, vault>>
         /\ \/ UNCHANGED index
            \/ Install(w) /\ MayInstall(w) /\ walk[w].pc = "files" /\ index' = walk[w].fresh
         /\ Becomes(w, "finish", {}, EmptyIndex, 0, EmptyIndex)
<1>1. /\ UNCHANGED <<applied, apply, vault>>
      /\ \/ UNCHANGED index
         \/ Install(w) /\ MayInstall(w) /\ walk[w].pc = "files" /\ index' = walk[w].fresh
      /\ Goes(w, [NoWalk EXCEPT !.pc = "finish"])
  BY DEF Install, WalkFails, walkOnly
<1>2. [NoWalk EXCEPT !.pc = "finish"] \in
        [pc : {"finish"}, todo : {{}}, copy : {EmptyIndex}, base : {0}, fresh : {EmptyIndex}]
  BY DEF NoWalk
<1>3. QED
  BY <1>1, <1>2, GoesBecomes

-----------------------------------------------------------------------------
(* What a stamp vouches for                                                  *)
(*                                                                         *)
(* An edit's stamp is one no index holds yet, so it parts the file from every *)
(* entry read before; and a walk stamps a file it has no entry of yet, or     *)
(* whose entry the stamp already vouches for.                               *)

Issued == 0 .. edits + 1

\* The entry e, held of p under this stamp, is what p says if p has the stamp.
Vouched(p, e, stamp) ==
  e # NoEntry /\ stamp = disk[p].stamp /\ stamp # 0 => p \in hidden \/ SameFile(e, disk[p].body)

Vouches(ix) ==
  /\ ix.stamps \in [Paths -> Issued]
  /\ DOMAIN ix.byPath = Paths
  /\ \A p \in Paths : Vouched(p, ix.byPath[p], ix.stamps[p])

\* What was read of p under this stamp is what p holds if p has the stamp.
ReadVouched(p, read) ==
  /\ read.stamp \in Issued
  /\ read.stamp = disk[p].stamp /\ read.stamp # 0 /\ read.body # NoFile =>
       p \in hidden \/ read.body = disk[p].body

ReadsVouched ==
  /\ apply.stamp \in Issued
  /\ DOMAIN apply.read \subseteq Paths
  /\ \A p \in DOMAIN apply.read : ReadVouched(p, apply.read[p])

\* No file still to walk has an entry in the index being built.
WalkVouches(k) ==
  /\ Vouches(k.copy)
  /\ Vouches(k.fresh)
  /\ k.todo \in SUBSET Paths
  /\ k.pc \in {"restamp", "content"} => k.todo # {}
  /\ k.pc \in {"idle", "goals", "topics", "list", "copy"} => Bare(k.fresh)
  /\ \A p \in k.todo : k.fresh.byPath[p] = NoEntry

Vouching ==
  /\ \A p \in Paths : disk[p].stamp \in Issued
  /\ Vouches(index)
  /\ ReadsVouched
  /\ \A w \in Walkers : WalkVouches(walk[w])

\* A set of paths has a least.
LEMMA LeastPath ==
  ASSUME NEW S \in SUBSET Nat, S # {}
  PROVE  Min(S) \in S /\ \A p \in S : Min(S) <= p
<1> DEFINE less == OpToRel(<, Nat)
<1>1. \E n \in S : \A m \in S : ~(<<m, n>> \in less)
  <2>1. IsWellFoundedOn(less, Nat)
    BY NatLessThanWellFounded
  <2> HIDE DEF less
  <2>2. QED
    BY <2>1, WFMin
<1>2. \A m, n \in Nat : <<m, n>> \in less <=> m < n
  BY DEF OpToRel
<1> HIDE DEF less
<1>3. PICK n \in S : \A m \in S : ~(<<m, n>> \in less)
  BY <1>1
<1>4. \A m \in S : ~(m < n)
  BY <1>2, <1>3
<1>5. \A m \in S : n <= m
  BY <1>4
<1>6. QED
  BY <1>5 DEF Min

\* What a file says does not depend on the rungs.
LEMMA ResolvedSame ==
  ASSUME NEW ix, NEW e, IsEntry(e), NEW body, SameFile(e, body)
  PROVE  SameFile(Resolved(ix, e), body)
<1> DEFINE g == ExistingGoals(e.declared, ix.goals)
           t == IF GoalOf(e.declared, ix.goals) = "" THEN 0
                ELSE ix.goalTopics[GoalOf(e.declared, ix.goals)]
<1>1. Resolved(ix, e) = [e EXCEPT !.goals = g, !.topic = t]
  BY DEF Resolved
<1> HIDE DEF g, t
<1>2. [[e EXCEPT !.goals = g, !.topic = t] EXCEPT !.goals = <<>>, !.topic = 0] =
        [e EXCEPT !.goals = <<>>, !.topic = 0]
  BY DEF IsEntry
<1>3. QED
  BY <1>1, <1>2 DEF SameFile

\* Writing what is there changes nothing.
LEMMA SameFields ==
  ASSUME NEW e, IsEntry(e)
  PROVE  [e EXCEPT !.goals = e.goals, !.topic = e.topic] = e
  BY DEF IsEntry

LEMMA EntryIsEntry ==
  ASSUME NEW body \in Content
  PROVE  IsEntry(Entry(body)) /\ SameFile(Entry(body), body)
<1> DEFINE f == Parsed(body)
           r == [session |-> f.session, terminal |-> f.terminal, touching |-> f.touching,
                 declared |-> f.declared, goals |-> <<>>, topic |-> 0]
<1>1. Entry(body) \in {NoEntry, r}
  <2> HIDE DEF f
  <2>1. CASE body = NoFile
    BY <2>1 DEF Entry
  <2>2. CASE body # NoFile
    <3>1. body \in Bodies /\ Entry(body) = Entries[body]
      BY <2>2 DEF Entry, Content
    <3>2. Entries[body] = IF f.session = "" THEN NoEntry ELSE r
      BY <3>1 DEF Entries, f
    <3>3. QED
      BY <3>1, <3>2
  <2>3. QED
    BY <2>1, <2>2
<1>2. IsEntry(NoEntry) /\ NoEntry.goals = <<>> /\ NoEntry.topic = 0
  BY DEF IsEntry, NoEntry
<1>3. IsEntry(r) /\ r.goals = <<>> /\ r.topic = 0
  BY DEF IsEntry
<1>4. IsEntry(Entry(body)) /\ Entry(body).goals = <<>> /\ Entry(body).topic = 0
  BY <1>1, <1>2, <1>3
<1>5. QED
  BY <1>4, SameFields DEF SameFile

\* What is indexed of a file is what it says.
LEMMA IndexedSame ==
  ASSUME NEW ix, NEW body \in Content
  PROVE  SameFile(Indexed(ix, body), body)
<1>1. CASE Entry(body) = NoEntry
  BY <1>1, EntryIsEntry DEF Indexed
<1>2. CASE Entry(body) # NoEntry
  BY <1>2, EntryIsEntry, ResolvedSame DEF Indexed
<1>3. QED
  BY <1>1, <1>2

LEMMA NoFileIndexed == \A ix : Indexed(ix, NoFile) = NoEntry
  BY DEF Indexed, Entry

\* A stamp may be set on a file that has no entry.
LEMMA StampKeepsVouching ==
  ASSUME NEW ix, Sound(ix), Vouches(ix), NEW p \in Paths, ix.byPath[p] = NoEntry,
         disk[p].stamp \in Issued
  PROVE  Vouches(WithStamp(ix, p, disk[p].stamp))
<1> DEFINE stamp == disk[p].stamp
           jx == WithStamp(ix, p, stamp)
<1>1. /\ \A q \in DOMAIN ix.stamps :
           jx.stamps[q] = IF q = p /\ stamp # 0 THEN stamp ELSE ix.stamps[q]
      /\ jx.stamps \in [Paths -> Issued]
      /\ jx.byPath = ix.byPath
  BY StampFields DEF Vouches
<1> HIDE DEF jx
<1>2. ASSUME NEW q \in Paths PROVE Vouched(q, jx.byPath[q], jx.stamps[q])
  BY <1>1 DEF Vouches, Vouched
<1>3. Vouches(jx)
  BY <1>1, <1>2 DEF Vouches
<1>4. QED
  BY <1>3 DEF jx

\* An entry may be set that the stamp vouches for.
LEMMA EntryKeepsVouching ==
  ASSUME NEW ix, Sound(ix), Vouches(ix), NEW p \in Paths, NEW entry,
         Vouched(p, entry, ix.stamps[p])
  PROVE  Vouches(WithEntry(ix, p, entry))
<1> DEFINE jx == WithEntry(ix, p, entry)
<1>1. /\ DOMAIN jx.byPath = Paths
      /\ \A q \in Paths : jx.byPath[q] = IF q = p THEN entry ELSE ix.byPath[q]
      /\ jx.stamps = ix.stamps
  BY EntryFields
<1> HIDE DEF jx
<1>2. Vouches(jx)
  BY <1>1 DEF Vouches
<1>3. QED
  BY <1>2 DEF jx

\* Rungs are no business of the stamps.
LEMMA RungsFields ==
  ASSUME NEW ix, Sound(ix), NEW goals, NEW pages
  PROVE  /\ LET jx == WithGoals(ix, goals)
            IN /\ jx.byPath = ix.byPath /\ jx.winners = ix.winners /\ jx.stamps = ix.stamps
               /\ jx.goals = goals /\ jx.topics = ix.topics /\ jx.goalTopics = ix.goalTopics
         /\ LET jx == WithTopics(ix, pages)
            IN /\ jx.byPath = ix.byPath /\ jx.winners = ix.winners /\ jx.stamps = ix.stamps
               /\ jx.goals = ix.goals /\ jx.topics = DOMAIN pages
               /\ jx.goalTopics = Tables[ix.goals][pages]
<1> DEFINE gt == Tables[ix.goals][pages]
<1>1. WithGoals(ix, goals) =
        [byPath |-> ix.byPath, winners |-> ix.winners, stamps |-> ix.stamps,
         goals |-> goals, topics |-> ix.topics, goalTopics |-> ix.goalTopics]
  BY DEF WithGoals, Sound
<1>2. WithTopics(ix, pages) = [ix EXCEPT !.topics = DOMAIN pages, !.goalTopics = gt]
  BY DEF WithTopics
<1> HIDE DEF gt
<1>3. WithTopics(ix, pages) =
        [byPath |-> ix.byPath, winners |-> ix.winners, stamps |-> ix.stamps,
         goals |-> ix.goals, topics |-> DOMAIN pages, goalTopics |-> gt]
  BY <1>2 DEF Sound
<1>4. QED
  BY <1>1, <1>3 DEF gt

LEMMA EmptyVouches ==
  ASSUME edits \in Nat
  PROVE  Vouches(EmptyIndex)
<1>1. /\ EmptyIndex.byPath = [p \in Paths |-> NoEntry]
      /\ EmptyIndex.stamps = [p \in Paths |-> 0]
  BY DEF EmptyIndex
<1>2. 0 \in Issued
  BY DEF Issued
<1>3. QED
  BY <1>1, <1>2 DEF Vouches, Vouched

LEMMA InitVouches == Init => Vouching
<1> SUFFICES ASSUME Init PROVE Vouching
  OBVIOUS
<1>1. edits = 0 /\ edits \in Nat
  BY DEF Init
<1>2. IInv
  BY InitSound
<1>3. \A p \in Paths : disk[p].stamp \in Issued
  BY <1>1 DEF Init, Issued
<1>4. Vouches(index)
  <2>1. PICK read \in SUBSET {p \in Paths : disk[p].body # NoFile} : index = Built(read)
    BY DEF Init
  <2> DEFINE bare == WithTopics(WithGoals(EmptyIndex, rungs.goals), rungs.pages)
             stamps == [p \in Paths |-> disk[p].stamp]
             ix == [bare EXCEPT !.stamps = stamps]
             new == [p \in read |-> Indexed(ix, disk[p].body)]
  <2>2. Sound(WithGoals(EmptyIndex, rungs.goals)) /\ Bare(WithGoals(EmptyIndex, rungs.goals))
    BY EmptySound, RungsSound
  <2>3. Sound(bare) /\ Bare(bare)
    BY <2>2, RungsSound
  <2> HIDE DEF bare
  <2>4. Sound(ix) /\ ix.byPath = bare.byPath
    BY <2>3, StampsSound
  <2>5. ix.stamps = stamps
    BY <2>3 DEF Sound
  <2>6. index = WithEntries(ix, new)
    BY <2>1 DEF Built, bare
  <2> HIDE DEF ix, new, stamps
  <2>7. /\ DOMAIN index.byPath = Paths
        /\ \A p \in Paths : index.byPath[p] = IF p \in DOMAIN new THEN new[p] ELSE ix.byPath[p]
        /\ index.stamps = stamps
    BY <2>4, <2>5, <2>6, EntriesFields
  <2> USE DEF new, stamps
  <2>8. ASSUME NEW p \in Paths PROVE Vouched(p, index.byPath[p], index.stamps[p])
    <3>1. CASE p \in read
      <4>1. index.byPath[p] = Indexed(ix, disk[p].body)
        BY <2>7, <3>1
      <4>2. disk[p].body \in Content
        BY <1>2 DEF IInv, FilesTyped
      <4>3. QED
        BY <4>1, <4>2, IndexedSame DEF Vouched
    <3>2. CASE p \notin read
      BY <2>3, <2>4, <2>7, <3>2 DEF Bare, Vouched
    <3>3. QED
      BY <3>1, <3>2
  <2>9. QED
    BY <1>3, <2>7, <2>8 DEF Vouches
<1>5. ReadsVouched
  BY <1>1 DEF Init, ReadsVouched, NoApply, Issued
<1>6. ASSUME NEW w \in Walkers PROVE WalkVouches(walk[w])
  <2>1. walk[w] = NoWalk
    BY DEF Init
  <2>2. WalkVouches(NoWalk)
    BY <1>1, EmptyVouches, EmptySound DEF WalkVouches, NoWalk
  <2>3. QED
    BY <2>1, <2>2
<1>7. QED
  BY <1>3, <1>4, <1>5, <1>6 DEF Vouching

\* An edit gives a stamp nothing holds, or makes the file one of the hidden.
LEMMA EditVouches ==
  ASSUME IInv, Vouching, NEW p \in Paths, NEW b \in Content, Edit(p, b) \/ HiddenEdit(p, b)
  PROVE  Vouching'
<1>1. edits \in Nat /\ edits' = edits + 1 /\ UNCHANGED <<index, apply, walk>>
  BY DEF Edit, HiddenEdit, IInv, FilesTyped
<1>2. ASSUME NEW q \in Paths
      PROVE  /\ disk'[q].stamp \in Issued'
             /\ \/ disk'[q] = disk[q] /\ (q \in hidden' <=> q \in hidden)
                \/ q \in hidden'
                \/ disk'[q].stamp \in {0, edits + 2}
  <2>1. CASE Edit(p, b)
    BY <1>1, <2>1 DEF Edit, IInv, FilesTyped, Vouching, Issued
  <2>2. CASE HiddenEdit(p, b)
    <3>1. disk' = [disk EXCEPT ![p].body = b]
      BY <2>2 DEF HiddenEdit
    <3>2. disk'[q].stamp = disk[q].stamp /\ (q # p => disk'[q] = disk[q])
      BY <3>1 DEF IInv, FilesTyped
    <3>3. QED
      BY <1>1, <2>2, <3>2 DEF HiddenEdit, Vouching, Issued
  <2>3. QED
    BY <2>1, <2>2
<1>3. ASSUME NEW q \in Paths, NEW e, NEW stamp \in Issued, Vouched(q, e, stamp)
      PROVE  Vouched(q, e, stamp)'
  BY <1>1, <1>2, <1>3 DEF Vouched, Issued, SameFile
<1>4. Issued \subseteq Issued'
  BY <1>1 DEF Issued
<1>5. ASSUME NEW ix, Vouches(ix) PROVE Vouches(ix)'
  BY <1>3, <1>4, <1>5 DEF Vouches
<1>6. Vouches(index)'
  BY <1>1, <1>5 DEF Vouching, Vouches, Vouched
<1>7. ReadsVouched'
  BY <1>1, <1>2, <1>4 DEF Vouching, ReadsVouched, ReadVouched, Issued, IInv, FilesTyped
<1>8. ASSUME NEW w \in Walkers PROVE WalkVouches(walk[w])'
  <2>1. WalkVouches(walk[w]) /\ walk' = walk
    BY <1>1 DEF Vouching
  <2>2. Vouches(walk[w].copy)'
    BY <1>5, <2>1 DEF WalkVouches, Vouches, Vouched
  <2>3. Vouches(walk[w].fresh)'
    BY <1>5, <2>1 DEF WalkVouches, Vouches, Vouched
  <2>4. QED
    BY <2>1, <2>2, <2>3 DEF WalkVouches, Bare
<1>9. QED
  BY <1>2, <1>6, <1>7, <1>8 DEF Vouching

\* The loop's apply, up to its critical section.
LEMMA ApplyingVouches ==
  ASSUME Vouching, UNCHANGED <<disk, hidden, edits, index, walk>>, ReadsVouched'
  PROVE  Vouching'
<1>1. Vouches(index)'
  BY DEF Vouching, Vouches, Vouched, SameFile, Issued
<1>2. ASSUME NEW w \in Walkers PROVE WalkVouches(walk[w])'
  <2>1. WalkVouches(walk[w])
    BY DEF Vouching
  <2>2. Vouches(walk[w].copy)'
    BY <2>1 DEF WalkVouches, Vouches, Vouched, SameFile, Issued
  <2>3. Vouches(walk[w].fresh)'
    BY <2>1 DEF WalkVouches, Vouches, Vouched, SameFile, Issued
  <2>4. QED
    BY <2>1, <2>2, <2>3 DEF WalkVouches, Bare
<1>3. QED
  BY <1>1, <1>2 DEF Vouching, Issued

LEMMA BurstVouches ==
  ASSUME IInv, Vouching, NEW P, BurstStart(P) \/ StrayBurst(P) \/ BurstDropped
  PROVE  Vouching'
<1>1. UNCHANGED <<disk, hidden, edits, index, walk>>
  BY DEF BurstStart, StrayBurst, BurstDropped, vault
<1>2. apply' \in {[NoApply EXCEPT !.pc = "stat", !.todo = P], NoApply}
  BY DEF BurstStart, StrayBurst, BurstDropped
<1>3. apply'.stamp = 0 /\ DOMAIN apply'.read = {}
  <2>1. PICK pc \in {"idle", "stat"}, todo \in {P, {}} :
          apply' = [pc |-> pc, todo |-> todo, at |-> 0, stamp |-> 0, read |-> NoApply.read]
    BY <1>2 DEF NoApply
  <2>2. DOMAIN NoApply.read = {}
    BY DEF NoApply
  <2>3. QED
    BY <2>1, <2>2
<1>4. ReadsVouched'
  BY <1>1, <1>3 DEF ReadsVouched, Issued, IInv, FilesTyped
<1>5. QED
  BY <1>1, <1>4, ApplyingVouches

\* The stamp is taken before the content is read.
LEMMA ApplyStatVouches ==
  ASSUME IInv, Vouching, NEW p \in Paths, ApplyStat(p)
  PROVE  Vouching'
<1>1. UNCHANGED <<disk, hidden, edits, index, walk>>
  BY DEF ApplyStat, vault
<1>2. PICK stamp \in {disk[p].stamp, 0} :
        apply' = [apply EXCEPT !.pc = "read", !.at = p, !.stamp = stamp]
  BY DEF ApplyStat
<1>3. apply'.stamp = stamp /\ apply'.read = apply.read
  BY <1>2 DEF IInv, FilesTyped
<1>4. stamp \in Issued
  BY DEF Vouching, Issued, IInv, FilesTyped
<1>5. ReadsVouched'
  BY <1>1, <1>3, <1>4 DEF Vouching, ReadsVouched, ReadVouched, Issued
<1>6. QED
  BY <1>1, <1>5, ApplyingVouches

LEMMA ApplyReadVouches ==
  ASSUME IInv, Vouching, ApplyRead
  PROVE  Vouching'
<1>1. UNCHANGED <<disk, hidden, edits, index, walk>>
  BY DEF ApplyRead, vault
<1>2. apply.at \in Paths /\ apply.pc = "read"
  BY DEF ApplyRead, IInv, FilesTyped
<1>3. PICK body \in {disk[apply.at].body, NoFile} :
        apply' = [apply EXCEPT !.pc = "stat", !.todo = @ \ {apply.at},
                    !.at = 0, !.stamp = 0, !.read = WithRead(@, body)]
  BY DEF ApplyRead
<1> DEFINE read == WithRead(apply.read, body)
<1>4. apply'.stamp = 0 /\ apply'.read = read
  BY <1>3 DEF IInv, FilesTyped
<1>5. /\ DOMAIN read = DOMAIN apply.read \cup {apply.at}
      /\ \A p \in DOMAIN read :
           read[p] = IF p = apply.at THEN [stamp |-> apply.stamp, body |-> body]
                     ELSE apply.read[p]
  BY DEF WithRead
<1> HIDE DEF read
<1>6. ASSUME NEW p \in DOMAIN read PROVE ReadVouched(p, read[p])
  BY <1>3, <1>5 DEF Vouching, ReadsVouched, ReadVouched
<1>7. ASSUME NEW p \in DOMAIN apply'.read PROVE ReadVouched(p, apply.read[p])'
  <2>1. ReadVouched(p, apply'.read[p])
    BY <1>4, <1>6
  <2>2. QED
    BY <1>1, <2>1 DEF ReadVouched, Issued
<1>8. apply'.stamp \in Issued' /\ DOMAIN apply'.read \subseteq Paths
  BY <1>1, <1>2, <1>4, <1>5 DEF Vouching, ReadsVouched, Issued, IInv, FilesTyped
<1>9. ReadsVouched'
  BY <1>7, <1>8 DEF ReadsVouched
<1>10. QED
  BY <1>1, <1>9, ApplyingVouches

\* What was read of a path and the stamp it was read under take its entry's place.
LEMMA ApplyLockedVouches ==
  ASSUME IInv, Vouching, ApplyLocked
  PROVE  Vouching'
<1> DEFINE stamps == StampsApplied
           ix == [index EXCEPT !.stamps = stamps]
           new == [p \in DOMAIN apply.read |-> Indexed(index, apply.read[p].body)]
           jx == WithEntries(ix, new)
<1>1. /\ index' = jx
      /\ apply' = NoApply
      /\ UNCHANGED <<disk, hidden, edits, walk>>
  BY DEF ApplyLocked, vault
<1>2. /\ \A p \in Paths :
           stamps[p] = IF p \notin DOMAIN apply.read THEN index.stamps[p]
                       ELSE IF apply.read[p].body = NoFile THEN 0 ELSE apply.read[p].stamp
      /\ stamps \in [Paths -> Issued]
  <2>1. \A p \in Paths :
          stamps[p] = IF p \notin DOMAIN apply.read THEN index.stamps[p]
                      ELSE IF apply.read[p].body = NoFile THEN 0 ELSE apply.read[p].stamp
    BY DEF StampsApplied, StampRead
  <2>2. 0 \in Issued
    BY DEF Issued, IInv, FilesTyped
  <2>3. \A p \in Paths : stamps[p] \in Issued
    BY <2>1, <2>2 DEF Vouching, Vouches, ReadsVouched, ReadVouched
  <2>4. QED
    BY <2>1, <2>3 DEF StampsApplied
<1> HIDE DEF stamps
<1>3. Sound(ix) /\ ix.byPath = index.byPath /\ ix.stamps = stamps
  <2>1. Sound(index)
    BY DEF IInv
  <2>2. QED
    BY <2>1, StampsSound DEF Sound
<1> HIDE DEF ix
<1>4. /\ DOMAIN new = DOMAIN apply.read
      /\ \A p \in DOMAIN apply.read : new[p] = Indexed(index, apply.read[p].body)
  OBVIOUS
<1> HIDE DEF new
<1>5. /\ DOMAIN jx.byPath = Paths
      /\ \A p \in Paths : jx.byPath[p] = IF p \in DOMAIN new THEN new[p] ELSE ix.byPath[p]
      /\ jx.stamps = stamps
  BY <1>3, EntriesFields
<1> HIDE DEF jx
<1>6. ASSUME NEW p \in Paths PROVE Vouched(p, jx.byPath[p], jx.stamps[p])
  <2>1. CASE p \in DOMAIN apply.read
    <3>1. jx.byPath[p] = Indexed(index, apply.read[p].body)
      BY <1>4, <1>5, <2>1
    <3>2. apply.read[p].body \in Content
      BY <2>1 DEF IInv, FilesTyped
    <3>3. SameFile(jx.byPath[p], apply.read[p].body)
      BY <3>1, <3>2, IndexedSame
    <3>4. CASE apply.read[p].body = NoFile
      BY <3>1, <3>4, NoFileIndexed DEF Vouched
    <3>5. CASE apply.read[p].body # NoFile
      <4>1. jx.stamps[p] = apply.read[p].stamp
        BY <1>2, <1>5, <2>1, <3>5
      <4>2. ReadVouched(p, apply.read[p])
        BY <2>1 DEF Vouching, ReadsVouched
      <4>3. QED
        BY <3>3, <3>5, <4>1, <4>2 DEF ReadVouched, Vouched
    <3>6. QED
      BY <3>4, <3>5
  <2>2. CASE p \notin DOMAIN apply.read
    BY <1>2, <1>3, <1>4, <1>5, <2>2 DEF Vouching, Vouches
  <2>3. QED
    BY <2>1, <2>2
<1>7. Vouches(jx)
  BY <1>2, <1>5, <1>6 DEF Vouches
<1>8. Vouches(index)'
  BY <1>1, <1>7 DEF Vouches, Vouched, SameFile, Issued
<1>9. ReadsVouched'
  BY <1>1 DEF ReadsVouched, NoApply, Issued, IInv, FilesTyped
<1>10. ASSUME NEW w \in Walkers PROVE WalkVouches(walk[w])'
  <2>1. WalkVouches(walk[w])
    BY DEF Vouching
  <2>2. Vouches(walk[w].copy)'
    BY <1>1, <2>1 DEF WalkVouches, Vouches, Vouched, SameFile, Issued
  <2>3. Vouches(walk[w].fresh)'
    BY <1>1, <2>1 DEF WalkVouches, Vouches, Vouched, SameFile, Issued
  <2>4. QED
    BY <1>1, <2>1, <2>2, <2>3 DEF WalkVouches, Bare
<1>11. QED
  BY <1>1, <1>8, <1>9, <1>10 DEF Vouching, Issued

\* A step of one walk, seen through its fields.
LEMMA BecomesVouches ==
  ASSUME IInv, Vouching, UNCHANGED <<disk, hidden, edits, apply>>, Vouches(index'),
         NEW w \in Walkers, NEW pc, NEW todo, NEW copy, NEW base, NEW fresh,
         Becomes(w, pc, todo, copy, base, fresh),
         Vouches(copy), Vouches(fresh), todo \in SUBSET Paths,
         pc \in {"restamp", "content"} => todo # {},
         pc \in {"idle", "goals", "topics", "list", "copy"} => Bare(fresh),
         \A p \in todo : fresh.byPath[p] = NoEntry
  PROVE  Vouching'
<1>1. Vouches(index)'
  BY DEF Vouches, Vouched, SameFile, Issued
<1>2. ReadsVouched'
  BY DEF Vouching, ReadsVouched, ReadVouched, Issued
<1>3. ASSUME NEW u \in Walkers PROVE WalkVouches(walk[u])'
  <2>1. WalkVouches(walk'[u])
    BY DEF Becomes, Vouching, WalkVouches
  <2>2. Vouches(walk[u].copy)'
    BY <2>1 DEF WalkVouches, Vouches, Vouched, SameFile, Issued
  <2>3. Vouches(walk[u].fresh)'
    BY <2>1 DEF WalkVouches, Vouches, Vouched, SameFile, Issued
  <2>4. QED
    BY <2>1, <2>2, <2>3 DEF WalkVouches, Bare
<1>4. QED
  BY <1>1, <1>2, <1>3 DEF Vouching, Issued

LEMMA WalkVouchesAll ==
  ASSUME IInv, Vouching, NEW w \in Walkers, Walk(w) \/ Claim(w) \/ WalkFails(w)
  PROVE  Vouching'
<1> DEFINE k == walk[w]
           p == Next_(w)
<1>1. WalkVouches(k) /\ Vouches(index) /\ Sound(k.fresh) /\ Sound(k.copy)
  BY DEF Vouching, IInv, WalkSound
<1>2. Vouches(EmptyIndex) /\ Bare(EmptyIndex)
  BY EmptyVouches, EmptySound DEF IInv, FilesTyped
<1>3. CASE Claim(w) \/ Finish(w)
  <2>1. /\ UNCHANGED <<disk, hidden, edits, apply>> /\ index' = index
        /\ \/ k.pc = "idle" /\ Becomes(w, "goals", k.todo, k.copy, k.base, k.fresh)
           \/ Becomes(w, "idle", {}, EmptyIndex, 0, EmptyIndex)
    BY <1>3, TokenBecomes DEF vault
  <2>2. CASE k.pc = "idle" /\ Becomes(w, "goals", k.todo, k.copy, k.base, k.fresh)
    BY <1>1, <2>1, <2>2, BecomesVouches DEF WalkVouches
  <2>3. CASE Becomes(w, "idle", {}, EmptyIndex, 0, EmptyIndex)
    BY <1>1, <1>2, <2>1, <2>3, BecomesVouches
  <2>4. QED
    BY <2>1, <2>2, <2>3
<1>4. CASE ReadGoals(w) \/ ReadTopics(w)
  <2>a. PICK fresh :
          \/ /\ Becomes(w, "topics", k.todo, k.copy, k.base, fresh)
             /\ fresh = k.fresh \/ fresh = WithGoals(k.fresh, rungs.goals)
          \/ /\ Becomes(w, "list", k.todo, k.copy, k.base, fresh)
             /\ \/ fresh = WithTopics(k.fresh, rungs.pages)
                \/ fresh = WithTopics(k.fresh, <<>>)
    BY <1>4, RungsBecome
  <2>b. PICK pc \in {"topics", "list"} : Becomes(w, pc, k.todo, k.copy, k.base, fresh)
    BY <2>a
  <2>1. /\ \/ fresh = k.fresh
           \/ \E goals : fresh = WithGoals(k.fresh, goals)
           \/ \E pages : fresh = WithTopics(k.fresh, pages)
        /\ k.pc \in {"goals", "topics"}
        /\ UNCHANGED <<disk, hidden, edits, apply>> /\ index' = index
    BY <1>4, <2>a, RungsBecome DEF walkOnly, vault
  <2>2. fresh.byPath = k.fresh.byPath /\ fresh.stamps = k.fresh.stamps
    BY <1>1, <2>1, RungsFields
  <2>3. Vouches(fresh) /\ Bare(fresh)
    BY <1>1, <2>1, <2>2 DEF WalkVouches, Vouches, Bare
  <2>4. QED
    BY <1>1, <2>b, <2>1, <2>2, <2>3, BecomesVouches DEF WalkVouches
<1>5. CASE ListDir(w)
  <2>1. /\ Becomes(w, "copy", {q \in Paths : disk[q].body # NoFile}, k.copy, k.base, k.fresh)
        /\ k.pc = "list"
        /\ UNCHANGED <<disk, hidden, edits, apply>> /\ index' = index
    BY <1>5, ListBecomes DEF walkOnly, vault
  <2> DEFINE todo == {q \in Paths : disk[q].body # NoFile}
  <2>2. todo \in SUBSET Paths /\ Bare(k.fresh) /\ \A q \in todo : k.fresh.byPath[q] = NoEntry
    BY <1>1, <2>1 DEF WalkVouches, Bare
  <2> HIDE DEF todo
  <2>3. Becomes(w, "copy", todo, k.copy, k.base, k.fresh)
    BY <2>1 DEF todo
  <2>4. QED
    BY <1>1, <2>1, <2>2, <2>3, BecomesVouches DEF WalkVouches
<1>6. CASE CopyIndex(w)
  <2>1. /\ Becomes(w, "files", k.todo, index, applied, k.fresh)
        /\ UNCHANGED <<disk, hidden, edits, apply>> /\ index' = index
    BY <1>6, CopyBecomes DEF walkOnly, vault
  <2>2. QED
    BY <1>1, <2>1, BecomesVouches DEF WalkVouches
<1>7. ASSUME k.todo # {} PROVE p \in k.todo /\ p \in Paths
  BY <1>1, <1>7, LeastPath, TaskIndexAssumption DEF WalkVouches, Next_
<1>8. ASSUME k.todo # {}
      PROVE  /\ Vouches(WithStamp(k.fresh, p, disk[p].stamp))
             /\ Sound(WithStamp(k.fresh, p, disk[p].stamp))
             /\ WithStamp(k.fresh, p, disk[p].stamp).byPath = k.fresh.byPath
  <2>1. p \in Paths /\ k.fresh.byPath[p] = NoEntry /\ disk[p].stamp \in Issued
    BY <1>1, <1>7, <1>8 DEF WalkVouches, Vouching
  <2>2. QED
    BY <1>1, <2>1, StampKeepsVouching, WithStampSound DEF WalkVouches
<1>9. ASSUME k.todo # {}, NEW ix, Sound(ix), Vouches(ix), ix.byPath = k.fresh.byPath, NEW entry,
             Vouched(p, entry, ix.stamps[p]),
             Becomes(w, "files", k.todo \ {p}, k.copy, k.base, WithEntry(ix, p, entry)),
             UNCHANGED <<disk, hidden, edits, apply, index>>
      PROVE  Vouching'
  <2> DEFINE fresh == WithEntry(ix, p, entry)
             todo == k.todo \ {p}
  <2>1. Vouches(fresh)
    BY <1>7, <1>9, EntryKeepsVouching
  <2>2. \A q \in todo : fresh.byPath[q] = NoEntry
    BY <1>1, <1>9, EntryFields DEF WalkVouches
  <2>3. todo \in SUBSET Paths
    BY <1>1 DEF WalkVouches
  <2> HIDE DEF fresh, todo
  <2>4. Becomes(w, "files", todo, k.copy, k.base, fresh)
    BY <1>9 DEF fresh, todo
  <2>5. QED
    BY <1>1, <1>9, <2>1, <2>2, <2>3, <2>4, BecomesVouches DEF WalkVouches
<1> DEFINE stamped == WithStamp(k.fresh, p, disk[p].stamp)
<1> HIDE DEF p
<1>10. CASE CompareFile(w)
  <2>1. /\ k.pc = "files" /\ k.todo # {}
        /\ UNCHANGED <<disk, hidden, edits, apply>> /\ index' = index
        /\ \/ /\ disk[p].stamp # 0 /\ Held(w, p)
              /\ Becomes(w, "files", k.todo \ {p}, k.copy, k.base,
                         WithEntry(stamped, p, Resolved(k.fresh, k.copy.byPath[p])))
           \/ Becomes(w, "restamp", k.todo, k.copy, k.base, k.fresh)
           \/ Becomes(w, "restamp", k.todo, k.copy, k.base, stamped)
    BY <1>10, CompareBecomes DEF walkOnly, vault, p
  <2>2. CASE /\ disk[p].stamp # 0 /\ Held(w, p)
             /\ Becomes(w, "files", k.todo \ {p}, k.copy, k.base,
                         WithEntry(stamped, p, Resolved(k.fresh, k.copy.byPath[p])))
    <3> DEFINE old == k.copy.byPath[p]
    <3>1. p \in Paths
      BY <1>7, <2>1
    <3>2. p \in hidden \/ SameFile(old, disk[p].body)
      BY <1>1, <2>2, <3>1 DEF Held, WalkVouches, Vouches, Vouched
    <3>3. IsEntry(old)
      BY <1>1, <3>1 DEF Sound, Agrees
    <3>4. p \in hidden \/ SameFile(Resolved(k.fresh, old), disk[p].body)
      BY <3>2, <3>3, ResolvedSame
    <3>5. Vouched(p, Resolved(k.fresh, old), stamped.stamps[p])
      BY <3>4 DEF Vouched
    <3> HIDE DEF stamped
    <3>6. Sound(stamped) /\ Vouches(stamped) /\ stamped.byPath = k.fresh.byPath
      BY <1>8, <2>1 DEF stamped
    <3>7. QED
      BY <1>9, <2>1, <2>2, <3>5, <3>6
  <2>3. CASE Becomes(w, "restamp", k.todo, k.copy, k.base, k.fresh)
    BY <1>1, <2>1, <2>3, BecomesVouches DEF WalkVouches
  <2>4. CASE Becomes(w, "restamp", k.todo, k.copy, k.base, stamped)
    <3> HIDE DEF stamped
    <3>1. Vouches(stamped) /\ stamped.byPath = k.fresh.byPath
      BY <1>8, <2>1 DEF stamped
    <3>2. QED
      BY <1>1, <2>1, <2>4, <3>1, BecomesVouches DEF WalkVouches
  <2>5. QED
    BY <2>1, <2>2, <2>3, <2>4
<1>11. CASE RestampFile(w)
  <2>1. /\ k.pc = "restamp"
        /\ UNCHANGED <<disk, hidden, edits, apply>> /\ index' = index
        /\ Becomes(w, "content", k.todo, k.copy, k.base, stamped)
    BY <1>11, RestampBecomes DEF walkOnly, vault, p
  <2>2. k.todo # {}
    BY <1>1, <2>1 DEF WalkVouches
  <2> HIDE DEF stamped
  <2>3. Vouches(stamped) /\ stamped.byPath = k.fresh.byPath
    BY <1>8, <2>2 DEF stamped
  <2>4. QED
    BY <1>1, <2>1, <2>2, <2>3, BecomesVouches DEF WalkVouches
<1>12. CASE ReadFile(w)
  <2>1. PICK body \in {disk[p].body, NoFile} :
          /\ k.pc = "content"
          /\ UNCHANGED <<disk, hidden, edits, apply>> /\ index' = index
          /\ Becomes(w, "files", k.todo \ {p}, k.copy, k.base,
                     WithEntry(k.fresh, p, Indexed(k.fresh, body)))
    BY <1>12, ReadBecomes DEF walkOnly, vault, p
  <2>2. k.todo # {}
    BY <1>1, <2>1 DEF WalkVouches
  <2>3. p \in Paths /\ disk[p].body \in Content
    BY <1>7, <2>2 DEF IInv, FilesTyped
  <2>4. Vouched(p, Indexed(k.fresh, body), k.fresh.stamps[p])
    <3>1. CASE body = NoFile
      BY <3>1, NoFileIndexed DEF Vouched
    <3>2. CASE body = disk[p].body
      BY <2>3, <3>2, IndexedSame DEF Vouched
    <3>3. QED
      BY <2>1, <3>1, <3>2
  <2>5. QED
    BY <1>1, <1>9, <2>1, <2>2, <2>4 DEF WalkVouches
<1>13. CASE Install(w) \/ WalkFails(w)
  <2>1. /\ UNCHANGED <<disk, hidden, edits, apply>>
        /\ index' = index \/ index' = k.fresh
        /\ Becomes(w, "finish", {}, EmptyIndex, 0, EmptyIndex)
    BY <1>13, EndBecomes DEF vault
  <2>2. Vouches(index')
    BY <1>1, <2>1 DEF WalkVouches
  <2>3. QED
    BY <1>2, <2>1, <2>2, BecomesVouches
<1>14. QED
  BY <1>3, <1>4, <1>5, <1>6, <1>10, <1>11, <1>12, <1>13 DEF Walk

LEMMA NextVouches == IInv /\ Vouching /\ [Next]_vars => Vouching'
<1> SUFFICES ASSUME IInv, Vouching, [Next]_vars PROVE Vouching'
  OBVIOUS
<1> USE DEF Walkers
<1>1. ASSUME NEW p \in Paths, NEW b \in Bodies \cup {NoFile}, Edit(p, b) \/ HiddenEdit(p, b)
      PROVE  Vouching'
  BY <1>1, EditVouches DEF Content
<1>2. CASE \/ \E r \in Rungs : RungEdit(r)
           \/ UNCHANGED vars
  <2>1. UNCHANGED <<disk, hidden, edits, index, walk, apply>>
    BY <1>2 DEF RungEdit, vars
  <2>2. ReadsVouched'
    BY <2>1 DEF Vouching, ReadsVouched, ReadVouched, Issued
  <2>3. QED
    BY <2>1, <2>2, ApplyingVouches
<1>3. ASSUME NEW P, BurstStart(P) \/ StrayBurst(P) \/ BurstDropped PROVE Vouching'
  BY <1>3, BurstVouches
<1>4. CASE Applies
  BY <1>4, ApplyStatVouches, ApplyReadVouches, ApplyLockedVouches DEF Applies
<1>5. ASSUME NEW w \in Walkers, Walk(w) \/ Claim(w) \/ WalkFails(w) PROVE Vouching'
  BY <1>5, WalkVouchesAll
<1>6. QED
  BY <1>1, <1>2, <1>3, <1>4, <1>5 DEF Next, LoopNext

\* An index that serves an entry under the stamp its file has serves what the
\* file says, whatever applies, walks and edits came before and between: stamps
\* are taken before the content is read and given once.
THEOREM StampsAlwaysVouch == Spec => []StampVouches
<1>1. Init => Vouching
  BY InitVouches
<1>2. IInv /\ Vouching /\ [Next]_vars => Vouching'
  BY NextVouches
<1>3. Vouching => StampVouches
  BY DEF Vouching, Vouches, Vouched, StampVouches
<1>4. QED
  BY <1>1, <1>2, <1>3, TaskIndexInvariance, PTL DEF Spec

-----------------------------------------------------------------------------
(* Winners                                                                   *)
(*                                                                         *)
(* recomputeSession visits a session's candidates one after the other; what   *)
(* it holds after each is the preferred one of those visited.  An index       *)
(* recomputes every session a change touches, and no other session's          *)
(* candidates change.                                                       *)

\* A set of paths has a greatest.
LEMMA GreatestPath ==
  ASSUME NEW S \in SUBSET Paths, S # {}
  PROVE  Max(S) \in S /\ \A p \in S : p <= Max(S)
<1> DEFINE Top(T) == \E m \in T : \A p \in T : p <= m
           bad == {T \in SUBSET S : T # {} /\ ~ Top(T)}
<1>1. IsFiniteSet(S) /\ S \subseteq Nat
  BY FS_Subset, TaskIndexAssumption
<1>2. ASSUME bad # {} PROVE FALSE
  <2>1. IsWellFoundedOn(StrictSubsetOrdering(S), FiniteSubsetsOf(S))
    BY FS_StrictSubsetOrderingWellFounded
  <2>2. bad \subseteq FiniteSubsetsOf(S)
    BY <1>1, FS_Subset DEF FiniteSubsetsOf
  <2>3. PICK T \in bad : \A U \in bad : ~ (<<U, T>> \in StrictSubsetOrdering(S))
    <3> HIDE DEF bad
    <3>1. QED
      BY <1>2, <2>1, <2>2, WFMin
  <2>4. T \in SUBSET S /\ T # {} /\ ~ Top(T)
    OBVIOUS
  <2>5. PICK x \in T : TRUE
    BY <2>4
  <2>6. <<T \ {x}, T>> \in StrictSubsetOrdering(S)
    BY <2>4, <2>5 DEF StrictSubsetOrdering
  <2>7. T \ {x} \notin bad
    BY <2>3, <2>6
  <2>8. T = {x} \/ Top(T \ {x})
    BY <2>4, <2>5, <2>7
  <2>9. Top(T)
    <3>1. CASE T = {x}
      BY <1>1, <2>4, <3>1
    <3>2. CASE Top(T \ {x})
      <4>1. PICK m \in T \ {x} : \A p \in T \ {x} : p <= m
        BY <3>2
      <4>2. m \in Nat /\ x \in Nat /\ T \subseteq Nat
        BY <1>1, <2>4, <2>5, <4>1
      <4>3. CASE x <= m
        BY <4>1, <4>3
      <4>4. CASE ~ (x <= m)
        <5>1. \A p \in T : p <= x
          BY <4>1, <4>2, <4>4
        <5>2. QED
          BY <2>5, <5>1
      <4>5. QED
        BY <4>3, <4>4
    <3>3. QED
      BY <2>8, <3>1, <3>2
  <2>10. QED
    BY <2>4, <2>9
<1>3. Top(S)
  BY <1>2
<1>4. \A m, p \in S : m >= p <=> p <= m
  BY <1>1
<1>5. QED
  BY <1>3, <1>4 DEF Max

LEMMA GreatestIs ==
  ASSUME NEW S \in SUBSET Paths, NEW m \in S, \A p \in S : p <= m
  PROVE  Max(S) = m
<1>1. Max(S) \in S /\ m <= Max(S) /\ Max(S) <= m
  BY GreatestPath
<1>2. Max(S) \in Nat /\ m \in Nat
  BY <1>1, TaskIndexAssumption
<1>3. QED
  BY <1>1, <1>2

\* The last candidate stands against the preferred one of those before it.
LEMMA PreferredStep ==
  ASSUME NEW byPath, NEW S \in SUBSET Paths, S # {}, NEW p \in Paths, \A q \in S : q < p
  PROVE  Preferred(byPath, S \cup {p}) = Better(Preferred(byPath, S), byPath[p])
<1> DEFINE all == S \cup {p}
           Live(T) == {q \in T : ~ byPath[q].terminal}
<1>1. all \in SUBSET Paths /\ all \subseteq Nat /\ all # {}
  BY TaskIndexAssumption
<1>2. \A T : T \in SUBSET Paths /\ p \in T /\ T \subseteq all => Max(T) = p
  <2> SUFFICES ASSUME NEW T \in SUBSET Paths, p \in T, T \subseteq all PROVE Max(T) = p
    OBVIOUS
  <2>1. \A q \in T : q <= p
    BY <1>1
  <2>2. QED
    BY <2>1, GreatestIs
<1>3. CASE ~ byPath[p].terminal
  <2>1. p \in Live(all) /\ Live(all) \in SUBSET Paths /\ Live(all) \subseteq all
    BY <1>1, <1>3
  <2>2. Preferred(byPath, all) = byPath[p]
    BY <1>2, <2>1 DEF Preferred
  <2>3. QED
    BY <1>3, <2>2 DEF Better
<1>4. CASE byPath[p].terminal
  <2>1. Live(all) = Live(S)
    BY <1>4
  <2>2. CASE Live(S) = {}
    <3>1. Preferred(byPath, all) = byPath[p]
      BY <1>1, <1>2, <2>1, <2>2 DEF Preferred
    <3>2. Preferred(byPath, S) = byPath[Max(S)] /\ Max(S) \in S
      BY <2>2, GreatestPath DEF Preferred
    <3>3. Preferred(byPath, S).terminal
      BY <2>2, <3>2
    <3>4. QED
      BY <3>1, <3>3 DEF Better
  <2>3. CASE Live(S) # {}
    <3>1. Preferred(byPath, all) = byPath[Max(Live(S))]
      BY <1>1, <2>1, <2>3 DEF Preferred
    <3>2. Preferred(byPath, S) = byPath[Max(Live(S))]
      BY <2>3 DEF Preferred
    <3>3. Max(Live(S)) \in Live(S)
      BY <2>3, GreatestPath
    <3>4. ~ Preferred(byPath, S).terminal
      BY <3>2, <3>3
    <3>5. QED
      BY <1>4, <3>1, <3>2, <3>4 DEF Better
  <2>4. QED
    BY <2>2, <2>3
<1>5. QED
  BY <1>3, <1>4

\* What the visits of a session's candidates end with.
LEMMA WinnerPreferred ==
  ASSUME NEW byPath, NEW s
  PROVE  Winner(byPath, s) = Preferred(byPath, Candidates(byPath, s))
<1> DEFINE paths == Candidates(byPath, s)
           Below(p) == {q \in paths : q < p}
           UpTo(p) == {q \in paths : q <= p}
           Visits(f) == [p \in paths |-> IF p = Min(paths) THEN byPath[p]
                                         ELSE Better(f[Max({q \in paths : q < p})], byPath[p])]
           best == CHOOSE f : f = Visits(f)
           kept == [p \in paths |-> Preferred(byPath, UpTo(p))]
<1>1. paths \in SUBSET Paths /\ paths \in SUBSET Nat /\ \A p \in paths : p \in Nat /\ p \in Paths
  BY TaskIndexAssumption DEF Candidates
<1>2. Winner(byPath, s) = IF paths = {} THEN NoEntry ELSE best[Max(paths)]
  BY DEF Winner
<1> HIDE DEF paths
<1>3. CASE paths = {}
  BY <1>2, <1>3 DEF Preferred, paths
<1>4. CASE paths # {}
  <2>1. Min(paths) \in paths /\ \A p \in paths : Min(paths) <= p
    BY <1>1, <1>4, LeastPath
  <2>2. ASSUME NEW p \in paths, p = Min(paths)
        PROVE  Preferred(byPath, UpTo(p)) = byPath[p]
    <3>1. UpTo(p) = {p}
      <4>1. \A q \in paths : q <= p => q = p
        BY <1>1, <2>1, <2>2
      <4>2. p <= p
        BY <1>1
      <4>3. QED
        BY <4>1, <4>2
    <3>2. {p} \in SUBSET Paths /\ \A T : T \subseteq {p} /\ T # {} => T = {p}
      BY <1>1
    <3>3. Max({p}) = p
      BY <1>1, <3>2, GreatestIs
    <3>4. QED
      BY <3>1, <3>2, <3>3 DEF Preferred
  <2>3. ASSUME NEW p \in paths, p # Min(paths)
        PROVE  /\ Max(Below(p)) \in paths /\ Max(Below(p)) < p
               /\ Preferred(byPath, UpTo(p)) =
                    Better(Preferred(byPath, UpTo(Max(Below(p)))), byPath[p])
    <3>1. Below(p) \in SUBSET Paths /\ Below(p) # {} /\ Below(p) \subseteq Nat
      <4>1. Min(paths) < p
        <5>1. Min(paths) \in Nat /\ p \in Nat /\ Min(paths) <= p
          BY <1>1, <2>1
        <5>2. QED
          BY <2>3, <5>1
      <4>2. QED
        BY <1>1, <2>1, <4>1
    <3>2. Max(Below(p)) \in Below(p) /\ \A q \in Below(p) : q <= Max(Below(p))
      BY <3>1, GreatestPath
    <3>3. UpTo(Max(Below(p))) = Below(p)
      <4> DEFINE m == Max(Below(p))
      <4>1. m \in Nat /\ m < p /\ \A q \in Below(p) : q <= m
        BY <1>1, <3>2
      <4> HIDE DEF m
      <4>2. \A q \in paths : q <= m => q < p
        BY <1>1, <4>1
      <4>3. \A q \in paths : q <= m <=> q < p
        BY <4>1, <4>2
      <4>4. UpTo(m) = Below(p)
        BY <4>3
      <4>5. QED
        BY <4>4 DEF m
    <3>4. UpTo(p) = Below(p) \cup {p}
      <4>1. \A q \in paths : q <= p <=> q < p \/ q = p
        BY <1>1, <2>3
      <4>2. QED
        BY <2>3, <4>1
    <3>5. Preferred(byPath, Below(p) \cup {p}) = Better(Preferred(byPath, Below(p)), byPath[p])
      BY <1>1, <3>1, PreferredStep
    <3>6. QED
      BY <3>2, <3>3, <3>4, <3>5
  <2>4. kept = Visits(kept)
    <3>1. ASSUME NEW p \in paths PROVE kept[p] = Visits(kept)[p]
      BY <2>2, <2>3
    <3>2. QED
      BY <3>1
  <2>5. best = Visits(best)
    BY <2>4
  <2>6. \A p \in paths : best[p] = kept[p]
    <3> DEFINE bad == {p \in paths : best[p] # kept[p]}
    <3>1. SUFFICES ASSUME bad # {} PROVE FALSE
      OBVIOUS
    <3>2. Min(bad) \in bad /\ \A p \in bad : Min(bad) <= p
      BY <1>1, <3>1, LeastPath
    <3> DEFINE p == Min(bad)
    <3> HIDE DEF best, kept
    <3>3. p \in paths /\ best[p] # kept[p]
      BY <3>2
    <3>4. best[p] = Visits(best)[p]
      BY <2>5
    <3>5. kept[p] = Visits(kept)[p]
      BY <2>4
    <3>6. CASE p = Min(paths)
      BY <3>3, <3>4, <3>5, <3>6
    <3>7. CASE p # Min(paths)
      <4>1. Max(Below(p)) \in paths /\ Max(Below(p)) < p
        BY <2>3, <3>3, <3>7
      <4> DEFINE m == Max(Below(p))
      <4> HIDE DEF m
      <4>2. m \notin bad
        <5>1. m \in Nat /\ p \in Nat /\ m < p
          BY <1>1, <3>3, <4>1 DEF m
        <5>2. m \in bad => p <= m
          BY <3>2
        <5>3. QED
          BY <5>1, <5>2
      <4>3. best[Max(Below(p))] = kept[Max(Below(p))]
        BY <4>1, <4>2 DEF m
      <4>4. QED
        BY <3>3, <3>4, <3>5, <3>7, <4>3
    <3>8. QED
      BY <3>6, <3>7
  <2>7. Max(paths) \in paths /\ UpTo(Max(paths)) = paths
    BY <1>1, <1>4, GreatestPath
  <2>8. kept[Max(paths)] = Preferred(byPath, paths)
    BY <2>7
  <2>9. QED
    BY <1>2, <1>4, <2>6, <2>7, <2>8 DEF paths
<1>5. QED
  BY <1>3, <1>4

\* The winners of an index are the preferred of their candidates.
Exact(ix) ==
  \A s \in Sessions : ix.winners[s] = Preferred(ix.byPath, Candidates(ix.byPath, s))

ExactEverywhere ==
  Exact(index) /\ \A w \in Walkers : Exact(walk[w].copy) /\ Exact(walk[w].fresh)

\* Only the entries of the candidates matter to their preferred one.
LEMMA PreferredSame ==
  ASSUME NEW b, NEW c, NEW S \in SUBSET Paths, \A p \in S : b[p] = c[p]
  PROVE  Preferred(b, S) = Preferred(c, S)
<1> DEFINE live == {p \in S : ~ b[p].terminal}
           best == IF live = {} THEN S ELSE live
<1>1. live = {p \in S : ~ c[p].terminal}
  OBVIOUS
<1>2. CASE S = {}
  BY <1>2 DEF Preferred
<1>3. CASE S # {}
  <2>1. best \in SUBSET Paths /\ best # {} /\ best \subseteq S
    BY <1>3
  <2>2. Max(best) \in S
    BY <2>1, GreatestPath
  <2>3. Preferred(b, S) = b[Max(best)]
    BY <1>3 DEF Preferred
  <2>4. Preferred(c, S) = c[Max(best)]
    BY <1>1, <1>3 DEF Preferred
  <2>5. QED
    BY <2>2, <2>3, <2>4
<1>4. QED
  BY <1>2, <1>3

\* A session no entry leaves or joins keeps its candidates.
LEMMA EntriesExact ==
  ASSUME NEW ix, Sound(ix), Exact(ix), NEW new
  PROVE  Exact(WithEntries(ix, new))
<1> DEFINE jx == WithEntries(ix, new)
<1>1. /\ \A p \in Paths : jx.byPath[p] = IF p \in DOMAIN new THEN new[p] ELSE ix.byPath[p]
      /\ \A s \in Sessions :
           jx.winners[s] = IF s \in Touched(ix, new) THEN Winner(jx.byPath, s) ELSE ix.winners[s]
  BY EntriesFields
<1> HIDE DEF jx
<1>2. ASSUME NEW s \in Sessions
      PROVE  jx.winners[s] = Preferred(jx.byPath, Candidates(jx.byPath, s))
  <2>1. CASE s \in Touched(ix, new)
    BY <1>1, <2>1, WinnerPreferred
  <2>2. CASE s \notin Touched(ix, new)
    <3>1. \A p \in DOMAIN new : ix.byPath[p].session # s /\ new[p].session # s
      BY <2>2 DEF Touched
    <3>2. Candidates(jx.byPath, s) = Candidates(ix.byPath, s)
      BY <1>1, <3>1 DEF Candidates
    <3>3. \A p \in Candidates(ix.byPath, s) : jx.byPath[p] = ix.byPath[p]
      BY <1>1, <3>1 DEF Candidates
    <3>4. Candidates(ix.byPath, s) \in SUBSET Paths
      BY DEF Candidates
    <3>5. Preferred(jx.byPath, Candidates(ix.byPath, s)) =
            Preferred(ix.byPath, Candidates(ix.byPath, s))
      BY <3>3, <3>4, PreferredSame
    <3>6. QED
      BY <1>1, <2>2, <3>2, <3>5 DEF Exact
  <2>3. QED
    BY <2>1, <2>2
<1>3. Exact(jx)
  BY <1>2 DEF Exact
<1>4. QED
  BY <1>3 DEF jx

LEMMA SameEntriesExact ==
  ASSUME NEW ix, Exact(ix), NEW jx, jx.byPath = ix.byPath, jx.winners = ix.winners
  PROVE  Exact(jx)
  BY DEF Exact

LEMMA EmptyExact == Exact(EmptyIndex)
<1>1. /\ EmptyIndex.byPath = [p \in Paths |-> NoEntry]
      /\ EmptyIndex.winners = [s \in Sessions |-> NoEntry]
      /\ NoEntry.session = ""
  BY DEF EmptyIndex, NoEntry
<1>2. \A s \in Sessions : Candidates(EmptyIndex.byPath, s) = {}
  BY <1>1, TaskIndexAssumption DEF Candidates
<1>3. QED
  BY <1>1, <1>2 DEF Exact, Preferred

LEMMA InitExact == Init => ExactEverywhere
<1> SUFFICES ASSUME Init PROVE ExactEverywhere
  OBVIOUS
<1>1. Exact(index)
  <2>1. PICK read \in SUBSET {p \in Paths : disk[p].body # NoFile} : index = Built(read)
    BY DEF Init
  <2> DEFINE titled == WithGoals(EmptyIndex, rungs.goals)
             bare == WithTopics(titled, rungs.pages)
             ix == [bare EXCEPT !.stamps = [p \in Paths |-> disk[p].stamp]]
  <2>2. Sound(titled) /\ Bare(titled)
    BY EmptySound, RungsSound
  <2>3. Exact(titled)
    BY EmptySound, EmptyExact, RungsFields, SameEntriesExact
  <2> HIDE DEF titled
  <2>4. Sound(bare) /\ Exact(bare)
    BY <2>2, <2>3, RungsSound, RungsFields, SameEntriesExact
  <2> HIDE DEF bare
  <2>5. Sound(ix) /\ ix.byPath = bare.byPath
    BY <2>4, StampsSound
  <2>6. ix.winners = bare.winners
    BY <2>4 DEF Sound
  <2>7. Exact(ix)
    BY <2>4, <2>5, <2>6, SameEntriesExact
  <2>8. \E new : index = WithEntries(ix, new)
    BY <2>1 DEF Built, bare, titled
  <2> HIDE DEF ix
  <2>9. QED
    BY <2>5, <2>7, <2>8, EntriesExact
<1>2. \A w \in Walkers : walk[w].copy = EmptyIndex /\ walk[w].fresh = EmptyIndex
  BY DEF Init, NoWalk
<1>3. QED
  BY <1>1, <1>2, EmptyExact DEF ExactEverywhere

\* A walk copies the serving index and builds its own from nothing.
LEMMA WalkExact ==
  ASSUME IInv, ExactEverywhere, NEW w \in Walkers, Walk(w) \/ Claim(w) \/ WalkFails(w)
  PROVE  ExactEverywhere'
<1> DEFINE k == walk[w]
           stamped == WithStamp(k.fresh, Next_(w), disk[Next_(w)].stamp)
<1>1. Exact(index) /\ Exact(k.copy) /\ Exact(k.fresh) /\ Sound(k.fresh)
  BY DEF ExactEverywhere, IInv, WalkSound
<1>2. ASSUME Exact(index'), NEW pc, NEW todo, NEW copy, NEW base, NEW fresh,
             Becomes(w, pc, todo, copy, base, fresh), Exact(copy), Exact(fresh)
      PROVE  ExactEverywhere'
  BY <1>2 DEF ExactEverywhere, Becomes, Exact
<1>3. Sound(stamped) /\ Exact(stamped)
  BY <1>1, WithStampSound, StampFields, SameEntriesExact
<1> HIDE DEF k, stamped
<1>4. CASE Claim(w) \/ Finish(w)
  <2>1. /\ index' = index
        /\ \/ Becomes(w, "goals", k.todo, k.copy, k.base, k.fresh)
           \/ Becomes(w, "idle", {}, EmptyIndex, 0, EmptyIndex)
    BY <1>4, TokenBecomes DEF k
  <2>2. QED
    BY <1>1, <1>2, <2>1, EmptyExact
<1>5. CASE ReadGoals(w) \/ ReadTopics(w)
  <2>1. PICK fresh :
          \/ /\ Becomes(w, "topics", k.todo, k.copy, k.base, fresh)
             /\ fresh = k.fresh \/ fresh = WithGoals(k.fresh, rungs.goals)
          \/ /\ Becomes(w, "list", k.todo, k.copy, k.base, fresh)
             /\ \/ fresh = WithTopics(k.fresh, rungs.pages)
                \/ fresh = WithTopics(k.fresh, <<>>)
    BY <1>5, RungsBecome DEF k
  <2>2. fresh.byPath = k.fresh.byPath /\ fresh.winners = k.fresh.winners
    BY <1>1, <2>1, RungsFields
  <2>3. Exact(fresh)
    BY <1>1, <2>2, SameEntriesExact
  <2>4. index' = index
    BY <1>5, RungsBecome DEF walkOnly
  <2>5. QED
    BY <1>1, <1>2, <2>1, <2>3, <2>4
<1>6. CASE ListDir(w)
  <2>1. index' = index /\ \E todo : Becomes(w, "copy", todo, k.copy, k.base, k.fresh)
    BY <1>6, ListBecomes DEF walkOnly, k
  <2>2. QED
    BY <1>1, <1>2, <2>1
<1>7. CASE CopyIndex(w)
  <2>1. index' = index /\ Becomes(w, "files", k.todo, index, applied, k.fresh)
    BY <1>7, CopyBecomes DEF walkOnly, k
  <2>2. QED
    BY <1>1, <1>2, <2>1
<1>8. CASE CompareFile(w)
  <2>1. /\ index' = index
        /\ \/ \E todo, new :
                Becomes(w, "files", todo, k.copy, k.base, WithEntries(stamped, new))
           \/ Becomes(w, "restamp", k.todo, k.copy, k.base, k.fresh)
           \/ Becomes(w, "restamp", k.todo, k.copy, k.base, stamped)
    BY <1>8, CompareBecomes DEF walkOnly, k, stamped, WithEntry
  <2>2. QED
    BY <1>1, <1>2, <1>3, <2>1, EntriesExact
<1>9. CASE RestampFile(w)
  <2>1. index' = index /\ Becomes(w, "content", k.todo, k.copy, k.base, stamped)
    BY <1>9, RestampBecomes DEF walkOnly, k, stamped
  <2>2. QED
    BY <1>1, <1>2, <1>3, <2>1
<1>10. CASE ReadFile(w)
  <2>1. /\ index' = index
        /\ \E todo, new : Becomes(w, "files", todo, k.copy, k.base, WithEntries(k.fresh, new))
    BY <1>10, ReadBecomes DEF walkOnly, k, WithEntry
  <2>2. QED
    BY <1>1, <1>2, <2>1, EntriesExact
<1>11. CASE Install(w) \/ WalkFails(w)
  <2>1. /\ index' = index \/ index' = k.fresh
        /\ Becomes(w, "finish", {}, EmptyIndex, 0, EmptyIndex)
    BY <1>11, EndBecomes DEF k
  <2>2. QED
    BY <1>1, <1>2, <2>1, EmptyExact
<1>12. QED
  BY <1>4, <1>5, <1>6, <1>7, <1>8, <1>9, <1>10, <1>11 DEF Walk

LEMMA NextExact == IInv /\ ExactEverywhere /\ [Next]_vars => ExactEverywhere'
<1> SUFFICES ASSUME IInv, ExactEverywhere, [Next]_vars PROVE ExactEverywhere'
  OBVIOUS
<1> USE DEF Walkers
<1>1. ASSUME NEW w \in Walkers, Walk(w) \/ Claim(w) \/ WalkFails(w) PROVE ExactEverywhere'
  BY <1>1, WalkExact
<1>2. CASE ApplyLocked
  <2> DEFINE stamps == StampsApplied
             ix == [index EXCEPT !.stamps = stamps]
             new == [p \in DOMAIN apply.read |-> Indexed(index, apply.read[p].body)]
  <2>1. walk' = walk /\ index' = WithEntries(ix, new)
    BY <1>2 DEF ApplyLocked
  <2> HIDE DEF stamps, new
  <2>2. Sound(ix) /\ ix.byPath = index.byPath /\ ix.winners = index.winners
    BY StampsSound DEF IInv, Sound
  <2> HIDE DEF ix
  <2>3. Exact(index')
    BY <2>1, <2>2, SameEntriesExact, EntriesExact DEF ExactEverywhere
  <2>4. QED
    BY <2>1, <2>3 DEF ExactEverywhere, Exact
<1>3. CASE UNCHANGED <<index, walk>>
  BY <1>3 DEF ExactEverywhere, Exact
<1>4. \/ \E w \in Walkers : Walk(w) \/ Claim(w) \/ WalkFails(w)
      \/ ApplyLocked
      \/ UNCHANGED <<index, walk>>
  BY DEF Next, LoopNext, Applies, Edit, HiddenEdit, RungEdit, BurstStart, StrayBurst,
         BurstDropped, ApplyStat, ApplyRead, vars
<1>5. QED
  BY <1>1, <1>2, <1>3, <1>4

\* Lookup's task for a session is the last of its candidates in flight, or the
\* last of all when none is, for any number of files and sessions: recomputing
\* only the sessions a change touches misses none.
THEOREM WinnersAlwaysExact == Spec => []WinnersExact
<1>1. Init => ExactEverywhere
  BY InitExact
<1>2. IInv /\ ExactEverywhere /\ [Next]_vars => ExactEverywhere'
  BY NextExact
<1>3. ExactEverywhere => WinnersExact
  BY DEF ExactEverywhere, Exact, WinnersExact
<1>4. QED
  BY <1>1, <1>2, <1>3, TaskIndexInvariance, PTL DEF Spec

-----------------------------------------------------------------------------
(* Types                                                                     *)
(*                                                                         *)
(* The stamps of an index are typed by what has been issued of them and its   *)
(* winners by its entries, which are resolved from goals with a topic each.   *)

Shaped(ix) ==
  /\ ix.byPath \in [Paths -> EntryType]
  /\ ix.winners \in [Sessions -> EntryType]
  /\ ix.goals \in GoalSets
  /\ ix.topics \in SUBSET Nat

Topical(ix) == ix.goalTopics \in [ix.goals -> Nat]

\* What a walk builds has its topics once they are read.
WalkShaped(k) ==
  /\ Shaped(k.copy)
  /\ Shaped(k.fresh)
  /\ k.pc \in {"list", "copy", "files", "restamp", "content"} => Topical(k.fresh)

Shapes ==
  /\ rungs \in Rungs
  /\ edits \in 0 .. MaxEdits
  /\ applied \in Nat
  /\ token \in Walkers \cup {NoFile}
  /\ events \in SUBSET Paths
  /\ apply.pc \in {"idle", "stat", "read"}
  /\ apply.todo \in SUBSET Paths
  /\ Shaped(index)
  /\ Topical(index)
  /\ \A w \in Walkers : WalkShaped(walk[w])

LEMMA PlacesAreNumbers ==
  ASSUME NEW T, NEW s \in Seq(T)
  PROVE  DOMAIN s \in SUBSET Nat
<1>1. DOMAIN s = 1 .. Len(s) /\ Len(s) \in Nat
  OBVIOUS
<1>2. QED
  BY <1>1

LEMMA PlacesTyped ==
  ASSUME NEW pages \in PageLists
  PROVE  DOMAIN pages \in SUBSET Nat
<1>1. CASE pages = <<>>
  BY <1>1
<1>2. CASE pages # <<>>
  <2>1. PICK r \in Rungs : pages = r.pages
    BY <1>2 DEF PageLists
  <2>2. pages \in Seq(File)
    BY <2>1, TaskIndexAssumption
  <2>3. QED
    BY <2>2, PlacesAreNumbers
<1>3. QED
  BY <1>1, <1>2

\* A page comes after 0 in the order of the directory.
LEMMA TopicTyped ==
  ASSUME NEW goal, NEW pages \in PageLists
  PROVE  TopicOf(goal, pages) \in Nat
<1> DEFINE listing == {t \in DOMAIN pages :
                         \E i \in DOMAIN SectionTitles(pages[t]) :
                            SectionTitles(pages[t])[i] = goal}
<1>1. DOMAIN pages \subseteq Nat
  BY PlacesTyped
<1>2. TopicOf(goal, pages) = IF listing = {} THEN 0 ELSE Min(listing)
  BY DEF TopicOf
<1>3. listing \in SUBSET Nat
  BY <1>1
<1> HIDE DEF listing
<1>4. CASE listing = {}
  BY <1>2, <1>4
<1>5. CASE listing # {}
  <2>1. Min(listing) \in listing
    BY <1>3, <1>5, LeastPath
  <2>2. QED
    BY <1>2, <1>3, <1>5, <2>1
<1>6. QED
  BY <1>4, <1>5

LEMMA TablesTyped ==
  ASSUME NEW goals \in GoalSets, NEW pages \in PageLists
  PROVE  Tables[goals][pages] \in [goals -> Nat] /\ DOMAIN pages \in SUBSET Nat
<1>1. Tables[goals][pages] = [g \in goals |-> TopicOf(g, pages)]
  BY DEF Tables, GoalTopics
<1>2. DOMAIN pages \in SUBSET Nat
  BY PlacesTyped
<1>3. QED
  BY <1>1, <1>2, TopicTyped

\* The task's goal is one the index has.
LEMMA GoalHeld ==
  ASSUME NEW declared \in Seq(STRING), NEW goals, GoalOf(declared, goals) # ""
  PROVE  GoalOf(declared, goals) \in goals
<1> DEFINE there == {i \in DOMAIN declared : declared[i] \in goals}
<1>1. there \in SUBSET Nat
  <2>1. DOMAIN declared \in SUBSET Nat
    BY PlacesAreNumbers
  <2> HIDE DEF there
  <2>2. there \subseteq DOMAIN declared
    BY DEF there
  <2>3. QED
    BY <2>1, <2>2
<1>2. there # {} /\ GoalOf(declared, goals) = declared[Min(there)]
  BY DEF GoalOf
<1>3. Min(there) \in there
  BY <1>1, <1>2, LeastPath
<1>4. QED
  BY <1>2, <1>3

\* An entry resolved by an index that has its topics is an entry.
LEMMA ResolvedTyped ==
  ASSUME NEW ix, ix.goals \in GoalSets, Topical(ix), NEW e, IsEntry(e),
         e.session \in Sessions, e.terminal \in BOOLEAN, e.touching \in BOOLEAN,
         e.declared \in {Parsed(b).declared : b \in Bodies}
  PROVE  Resolved(ix, e) \in EntryType
<1> DEFINE g == ExistingGoals(e.declared, ix.goals)
           goal == GoalOf(e.declared, ix.goals)
           t == IF goal = "" THEN 0 ELSE ix.goalTopics[goal]
<1>1. e.declared \in Seq(STRING)
  BY TaskIndexAssumption
<1>2. t \in Nat
  BY <1>1, GoalHeld DEF Topical
<1>3. g \in {ExistingGoals(Parsed(b).declared, gs) : b \in Bodies, gs \in GoalSets}
  OBVIOUS
<1>4. Resolved(ix, e) = [e EXCEPT !.goals = g, !.topic = t]
  BY DEF Resolved
<1> HIDE DEF g, t
<1>5. Resolved(ix, e) =
        [session |-> e.session, terminal |-> e.terminal, touching |-> e.touching,
         declared |-> e.declared, goals |-> g, topic |-> t]
  BY <1>4 DEF IsEntry
<1>6. QED
  BY <1>2, <1>3, <1>5 DEF EntryType

LEMMA IndexedTyped ==
  ASSUME NEW ix, ix.goals \in GoalSets, Topical(ix), NEW body \in Content
  PROVE  Indexed(ix, body) \in EntryType
<1>1. CASE Entry(body) = NoEntry
  BY <1>1 DEF Indexed, EntryType
<1>2. CASE Entry(body) # NoEntry
  <2>1. body \in Bodies /\ Entry(body) = Entries[body]
    BY <1>2 DEF Entry, Content
  <2> DEFINE f == Parsed(body)
             r == [session |-> f.session, terminal |-> f.terminal, touching |-> f.touching,
                   declared |-> f.declared, goals |-> <<>>, topic |-> 0]
  <2>2. f.terminal \in BOOLEAN /\ f.touching \in BOOLEAN
    BY DEF Parsed, IsTerminal, IsTouching
  <2>3. f.session \in Sessions \cup {""} /\ f.declared \in {Parsed(b).declared : b \in Bodies}
    BY <2>1, TaskIndexAssumption
  <2> HIDE DEF f
  <2>4. Entries[body] = IF f.session = "" THEN NoEntry ELSE r
    BY <2>1 DEF Entries, f
  <2>5. Entry(body) = r /\ f.session # ""
    BY <1>2, <2>1, <2>4
  <2>6. Indexed(ix, body) = Resolved(ix, Entry(body)) /\ IsEntry(Entry(body))
    BY <1>2, EntryIsEntry DEF Indexed
  <2>7. QED
    BY <2>2, <2>3, <2>5, <2>6, ResolvedTyped
<1>3. QED
  BY <1>1, <1>2

\* Indexing entries into an index keeps its shape.
LEMMA EntriesShaped ==
  ASSUME NEW ix, Sound(ix), Shaped(ix), Exact(ix), NEW new,
         \A p \in Paths \cap DOMAIN new : new[p] \in EntryType
  PROVE  /\ Shaped(WithEntries(ix, new))
         /\ WithEntries(ix, new).goals = ix.goals
         /\ WithEntries(ix, new).goalTopics = ix.goalTopics
<1> DEFINE jx == WithEntries(ix, new)
<1> HIDE DEF jx
<1>1. /\ \A p \in Paths : jx.byPath[p] = IF p \in DOMAIN new THEN new[p] ELSE ix.byPath[p]
      /\ \A T : (\A p \in Paths : jx.byPath[p] \in T) => jx.byPath \in [Paths -> T]
      /\ \A T : (\A s \in Sessions : jx.winners[s] \in T) => jx.winners \in [Sessions -> T]
      /\ jx.goals = ix.goals /\ jx.topics = ix.topics /\ jx.goalTopics = ix.goalTopics
  <2>1. jx = WithEntries(ix, new)
    BY DEF jx
  <2>2. QED
    BY <2>1, EntriesFields, SMTT(30)
<1>2. Exact(jx)
  BY EntriesExact DEF jx
<1>3. \A p \in Paths : jx.byPath[p] \in EntryType
  BY <1>1 DEF Shaped
<1>4. ASSUME NEW s \in Sessions PROVE jx.winners[s] \in EntryType
  <2> DEFINE all == Candidates(jx.byPath, s)
             live == {p \in all : ~ jx.byPath[p].terminal}
  <2>1. all \in SUBSET Paths
    BY DEF Candidates
  <2>2. jx.winners[s] = Preferred(jx.byPath, all)
    BY <1>2 DEF Exact
  <2>3. CASE all = {}
    BY <2>2, <2>3 DEF Preferred, EntryType
  <2>4. CASE all # {}
    <3>1. \E p \in all : Preferred(jx.byPath, all) = jx.byPath[p]
      <4> HIDE DEF all
      <4>1. CASE live = {}
        BY <2>1, <2>4, <4>1, GreatestPath DEF Preferred
      <4>2. CASE live # {}
        <5>1. Max(live) \in live
          BY <2>1, <4>2, GreatestPath
        <5>2. QED
          BY <2>4, <4>2, <5>1 DEF Preferred
      <4>3. QED
        BY <4>1, <4>2
    <3>2. QED
      BY <1>3, <2>1, <2>2, <3>1
  <2>5. QED
    BY <2>3, <2>4
<1>5. jx.byPath \in [Paths -> EntryType] /\ jx.winners \in [Sessions -> EntryType]
  <2> HIDE DEF EntryType
  <2>1. QED
    BY <1>1, <1>3, <1>4
<1>6. QED
  BY <1>1, <1>5 DEF Shaped, jx

LEMMA RungsShaped ==
  ASSUME NEW ix, Sound(ix), Shaped(ix), NEW goals \in GoalSets, NEW pages \in PageLists
  PROVE  /\ Shaped(WithGoals(ix, goals))
         /\ Shaped(WithTopics(ix, pages)) /\ Topical(WithTopics(ix, pages))
  BY RungsFields, TablesTyped DEF Shaped, Topical

LEMMA StampShaped ==
  ASSUME NEW ix, Sound(ix), Shaped(ix), NEW p, NEW stamp
  PROVE  /\ Shaped(WithStamp(ix, p, stamp))
         /\ Topical(ix) => Topical(WithStamp(ix, p, stamp))
  BY StampFields DEF Shaped, Topical

LEMMA EmptyShaped == Shaped(EmptyIndex)
<1>1. NoEntry \in EntryType /\ {} \in GoalSets
  BY DEF EntryType, GoalSets
<1>2. /\ EmptyIndex.byPath = [p \in Paths |-> NoEntry]
      /\ EmptyIndex.winners = [s \in Sessions |-> NoEntry]
      /\ EmptyIndex.goals = {} /\ EmptyIndex.topics = {}
  BY DEF EmptyIndex
<1> HIDE DEF EntryType
<1>3. QED
  BY <1>1, <1>2 DEF Shaped

LEMMA RungsKnown ==
  ASSUME NEW r \in Rungs
  PROVE  r.goals \in GoalSets /\ r.pages \in PageLists /\ {} \in GoalSets /\ <<>> \in PageLists
  BY DEF GoalSets, PageLists

LEMMA EditsBound == MaxEdits \in Nat
  BY TaskIndexAssumption

LEMMA InitShapes == Init => Shapes
<1> SUFFICES ASSUME Init PROVE Shapes
  OBVIOUS
<1>1. rungs \in Rungs
  BY TaskIndexAssumption DEF Init
<1>2. Shaped(index) /\ Topical(index)
  <2>1. PICK read \in SUBSET {p \in Paths : disk[p].body # NoFile} : index = Built(read)
    BY DEF Init
  <2> DEFINE titled == WithGoals(EmptyIndex, rungs.goals)
             bare == WithTopics(titled, rungs.pages)
             stamps == [p \in Paths |-> disk[p].stamp]
             ix == [bare EXCEPT !.stamps = stamps]
             new == [p \in read |-> Indexed(ix, disk[p].body)]
  <2>2. Sound(titled) /\ Bare(titled) /\ Exact(titled) /\ Shaped(titled)
    <3>1. Sound(titled) /\ Bare(titled)
      BY EmptySound, RungsSound
    <3>2. titled.byPath = EmptyIndex.byPath /\ titled.winners = EmptyIndex.winners
      BY EmptySound, RungsFields
    <3>3. Exact(titled)
      BY <3>2, EmptyExact, SameEntriesExact
    <3>4. Shaped(titled)
      BY <1>1, EmptySound, EmptyShaped, RungsShaped, RungsKnown
    <3>5. QED
      BY <3>1, <3>3, <3>4
  <2> HIDE DEF titled
  <2>3. Sound(bare) /\ Exact(bare) /\ Shaped(bare) /\ Topical(bare)
    <3>1. Sound(bare)
      BY <2>2, RungsSound
    <3>2. bare.byPath = titled.byPath /\ bare.winners = titled.winners
      BY <2>2, RungsFields
    <3>3. Exact(bare)
      BY <2>2, <3>2, SameEntriesExact
    <3>4. Shaped(bare) /\ Topical(bare)
      BY <1>1, <2>2, RungsShaped, RungsKnown
    <3>5. QED
      BY <3>1, <3>3, <3>4
  <2> HIDE DEF bare, stamps
  <2>4. /\ Sound(ix) /\ ix.byPath = bare.byPath /\ ix.winners = bare.winners
        /\ ix.goals = bare.goals /\ ix.topics = bare.topics /\ ix.goalTopics = bare.goalTopics
    BY <2>3, StampsSound DEF Sound
  <2>5. index = WithEntries(ix, new)
    BY <2>1 DEF Built, bare, titled, stamps
  <2> HIDE DEF ix
  <2>6. Exact(ix) /\ Shaped(ix) /\ Topical(ix)
    <3>1. Exact(ix)
      BY <2>3, <2>4, SameEntriesExact
    <3>2. Shaped(ix) /\ Topical(ix)
      BY <2>3, <2>4 DEF Shaped, Topical
    <3>3. QED
      BY <3>1, <3>2
  <2>7. \A p \in read : disk[p].body \in Content
    BY InitSound DEF IInv, FilesTyped
  <2>8. ASSUME NEW p \in Paths \cap DOMAIN new PROVE new[p] \in EntryType
    BY <2>6, <2>7, IndexedTyped DEF Shaped
  <2> HIDE DEF new
  <2>9. Shaped(index) /\ index.goals = ix.goals /\ index.goalTopics = ix.goalTopics
    BY <2>4, <2>5, <2>6, <2>8, EntriesShaped
  <2>10. QED
    BY <2>6, <2>9 DEF Topical
<1>3. ASSUME NEW w \in Walkers PROVE WalkShaped(walk[w])
  BY EmptyShaped DEF Init, NoWalk, WalkShaped
<1>4. 0 \in 0 .. MaxEdits
  BY EditsBound
<1>5. QED
  BY <1>1, <1>2, <1>3, <1>4 DEF Init, Shapes, NoApply

\* A walk builds an index of entries out of the rungs it has read.
LEMMA WalkShapes ==
  ASSUME IInv, ExactEverywhere, Shapes, NEW w \in Walkers, Walk(w) \/ Claim(w) \/ WalkFails(w)
  PROVE  /\ Shaped(index') /\ Topical(index')
         /\ \A u \in Walkers : WalkShaped(walk'[u])
<1> DEFINE k == walk[w]
           stamped == WithStamp(k.fresh, Next_(w), disk[Next_(w)].stamp)
<1>1. /\ Shaped(index) /\ Topical(index) /\ WalkShaped(k)
      /\ Exact(k.fresh) /\ Sound(k.fresh) /\ Sound(k.copy)
  BY DEF Shapes, ExactEverywhere, IInv, WalkSound
<1>2. ASSUME Shaped(index'), Topical(index'), NEW pc, NEW todo, NEW copy, NEW base, NEW fresh,
             Becomes(w, pc, todo, copy, base, fresh), Shaped(copy), Shaped(fresh),
             pc \in {"list", "copy", "files", "restamp", "content"} => Topical(fresh)
      PROVE  /\ Shaped(index') /\ Topical(index')
             /\ \A u \in Walkers : WalkShaped(walk'[u])
  BY <1>2 DEF Shapes, Becomes, WalkShaped
<1>3. /\ Sound(stamped) /\ Exact(stamped) /\ Shaped(stamped)
      /\ Topical(k.fresh) => Topical(stamped)
      /\ stamped.goals = k.fresh.goals /\ stamped.goalTopics = k.fresh.goalTopics
  <2>1. Sound(stamped)
    BY <1>1, WithStampSound
  <2>2. /\ stamped.byPath = k.fresh.byPath /\ stamped.winners = k.fresh.winners
        /\ stamped.goals = k.fresh.goals /\ stamped.goalTopics = k.fresh.goalTopics
    BY <1>1, StampFields
  <2>3. Exact(stamped)
    BY <1>1, <2>2, SameEntriesExact
  <2>4. Shaped(stamped) /\ (Topical(k.fresh) => Topical(stamped))
    BY <1>1, StampShaped DEF WalkShaped
  <2>5. QED
    BY <2>1, <2>2, <2>3, <2>4
<1>4. ASSUME NEW ix, Sound(ix), Exact(ix), Shaped(ix), Topical(ix), NEW p, NEW entry,
             p \in Paths => entry \in EntryType
      PROVE  Shaped(WithEntry(ix, p, entry)) /\ Topical(WithEntry(ix, p, entry))
  <2> DEFINE new == [q \in {p} |-> entry]
  <2>1. \A q \in Paths \cap DOMAIN new : new[q] \in EntryType
    BY <1>4
  <2>2. WithEntry(ix, p, entry) = WithEntries(ix, new)
    BY DEF WithEntry
  <2> HIDE DEF new
  <2>3. QED
    BY <1>4, <2>1, <2>2, EntriesShaped DEF Topical
<1> HIDE DEF k, stamped
<1>5. CASE Claim(w) \/ Finish(w)
  <2>1. /\ index' = index
        /\ \/ Becomes(w, "goals", k.todo, k.copy, k.base, k.fresh)
           \/ Becomes(w, "idle", {}, EmptyIndex, 0, EmptyIndex)
    BY <1>5, TokenBecomes DEF k
  <2>2. QED
    BY <1>1, <1>2, <2>1, EmptyShaped DEF WalkShaped
<1>6. CASE ReadGoals(w) \/ ReadTopics(w)
  <2>1. PICK fresh :
          \/ /\ Becomes(w, "topics", k.todo, k.copy, k.base, fresh)
             /\ fresh = k.fresh \/ fresh = WithGoals(k.fresh, rungs.goals)
          \/ /\ Becomes(w, "list", k.todo, k.copy, k.base, fresh)
             /\ \/ fresh = WithTopics(k.fresh, rungs.pages)
                \/ fresh = WithTopics(k.fresh, <<>>)
    BY <1>6, RungsBecome DEF k
  <2>2. index' = index
    BY <1>6, RungsBecome DEF walkOnly
  <2>3. /\ rungs.goals \in GoalSets /\ rungs.pages \in PageLists /\ <<>> \in PageLists
    BY RungsKnown DEF Shapes
  <2>4. CASE /\ Becomes(w, "topics", k.todo, k.copy, k.base, fresh)
             /\ fresh = k.fresh \/ fresh = WithGoals(k.fresh, rungs.goals)
    <3>1. Shaped(fresh)
      BY <1>1, <2>3, <2>4, RungsShaped DEF WalkShaped
    <3>2. QED
      BY <1>1, <1>2, <2>2, <2>4, <3>1 DEF WalkShaped
  <2>5. CASE /\ Becomes(w, "list", k.todo, k.copy, k.base, fresh)
             /\ \/ fresh = WithTopics(k.fresh, rungs.pages)
                \/ fresh = WithTopics(k.fresh, <<>>)
    <3>1. Shaped(fresh) /\ Topical(fresh)
      BY <1>1, <2>3, <2>5, RungsShaped DEF WalkShaped
    <3>2. QED
      BY <1>1, <1>2, <2>2, <2>5, <3>1 DEF WalkShaped
  <2>6. QED
    BY <2>1, <2>4, <2>5
<1>7. CASE ListDir(w)
  <2>1. k.pc = "list" /\ index' = index /\ \E todo : Becomes(w, "copy", todo, k.copy, k.base, k.fresh)
    BY <1>7, ListBecomes DEF walkOnly, k
  <2>2. QED
    BY <1>1, <1>2, <2>1 DEF WalkShaped
<1>8. CASE CopyIndex(w)
  <2>1. k.pc = "copy" /\ index' = index /\ Becomes(w, "files", k.todo, index, applied, k.fresh)
    BY <1>8, CopyBecomes DEF walkOnly, k
  <2>2. QED
    BY <1>1, <1>2, <2>1 DEF WalkShaped
<1>9. CASE CompareFile(w)
  <2> DEFINE p == Next_(w)
             old == k.copy.byPath[p]
  <2>1. /\ k.pc = "files" /\ index' = index
        /\ \/ /\ Held(w, p)
              /\ \E todo : Becomes(w, "files", todo, k.copy, k.base,
                                   WithEntry(stamped, p, Resolved(k.fresh, old)))
           \/ Becomes(w, "restamp", k.todo, k.copy, k.base, k.fresh)
           \/ Becomes(w, "restamp", k.todo, k.copy, k.base, stamped)
    BY <1>9, CompareBecomes DEF walkOnly, k, stamped
  <2>2. Topical(k.fresh) /\ Topical(stamped)
    BY <1>1, <1>3, <2>1 DEF WalkShaped
  <2>3. ASSUME Held(w, p), p \in Paths PROVE Resolved(k.fresh, old) \in EntryType
    <3>1. old \in EntryType /\ old # NoEntry
      BY <1>1, <2>3 DEF Held, WalkShaped, Shaped, k
    <3>2. /\ old.session \in Sessions /\ old.terminal \in BOOLEAN /\ old.touching \in BOOLEAN
          /\ old.declared \in {Parsed(b).declared : b \in Bodies}
          /\ IsEntry(old)
      BY <3>1 DEF EntryType, IsEntry
    <3> HIDE DEF old
    <3>3. QED
      BY <1>1, <2>2, <3>2, ResolvedTyped DEF WalkShaped, Shaped
  <2>4. CASE /\ Held(w, p)
             /\ \E todo : Becomes(w, "files", todo, k.copy, k.base,
                                  WithEntry(stamped, p, Resolved(k.fresh, old)))
    <3> DEFINE fresh == WithEntry(stamped, p, Resolved(k.fresh, old))
    <3>1. Shaped(fresh) /\ Topical(fresh)
      BY <1>3, <1>4, <2>2, <2>3, <2>4
    <3> HIDE DEF fresh
    <3>2. \E todo : Becomes(w, "files", todo, k.copy, k.base, fresh)
      BY <2>4 DEF fresh
    <3>3. QED
      BY <1>1, <1>2, <2>1, <3>1, <3>2 DEF WalkShaped
  <2>5. CASE \/ Becomes(w, "restamp", k.todo, k.copy, k.base, k.fresh)
             \/ Becomes(w, "restamp", k.todo, k.copy, k.base, stamped)
    BY <1>1, <1>2, <1>3, <2>1, <2>2, <2>5 DEF WalkShaped
  <2>6. QED
    BY <2>1, <2>4, <2>5
<1>10. CASE RestampFile(w)
  <2>1. /\ k.pc = "restamp" /\ index' = index
        /\ Becomes(w, "content", k.todo, k.copy, k.base, stamped)
    BY <1>10, RestampBecomes DEF walkOnly, k, stamped
  <2>2. QED
    BY <1>1, <1>2, <1>3, <2>1 DEF WalkShaped
<1>11. CASE ReadFile(w)
  <2> DEFINE p == Next_(w)
  <2>1. PICK body \in {disk[p].body, NoFile} :
          /\ k.pc = "content" /\ index' = index
          /\ \E todo : Becomes(w, "files", todo, k.copy, k.base,
                               WithEntry(k.fresh, p, Indexed(k.fresh, body)))
    BY <1>11, ReadBecomes DEF walkOnly, k
  <2> DEFINE fresh == WithEntry(k.fresh, p, Indexed(k.fresh, body))
  <2>2. Topical(k.fresh) /\ Shaped(k.fresh)
    BY <1>1, <2>1 DEF WalkShaped
  <2>3. p \in Paths => body \in Content
    BY <2>1 DEF IInv, FilesTyped, Content
  <2>4. p \in Paths => Indexed(k.fresh, body) \in EntryType
    BY <2>2, <2>3, IndexedTyped DEF Shaped
  <2>5. Shaped(fresh) /\ Topical(fresh)
    BY <1>1, <1>4, <2>2, <2>4
  <2> HIDE DEF fresh
  <2>6. \E todo : Becomes(w, "files", todo, k.copy, k.base, fresh)
    BY <2>1 DEF fresh
  <2>7. QED
    BY <1>1, <1>2, <2>1, <2>5, <2>6 DEF WalkShaped
<1>12. CASE Install(w) \/ WalkFails(w)
  <2>1. /\ index' = index \/ (index' = k.fresh /\ k.pc = "files")
        /\ Becomes(w, "finish", {}, EmptyIndex, 0, EmptyIndex)
    BY <1>12, EndBecomes DEF k
  <2>2. Shaped(index') /\ Topical(index')
    BY <1>1, <2>1 DEF WalkShaped
  <2>3. QED
    BY <1>2, <2>1, <2>2, EmptyShaped
<1>13. QED
  BY <1>5, <1>6, <1>7, <1>8, <1>9, <1>10, <1>11, <1>12 DEF Walk

\* An apply indexes what it read by the rungs of the serving index.
LEMMA ApplyShapes ==
  ASSUME IInv, ExactEverywhere, Shapes, ApplyLocked
  PROVE  Shaped(index') /\ Topical(index')
<1> DEFINE stamps == StampsApplied
           ix == [index EXCEPT !.stamps = stamps]
           new == [p \in DOMAIN apply.read |-> Indexed(index, apply.read[p].body)]
<1>1. index' = WithEntries(ix, new)
  BY DEF ApplyLocked
<1> HIDE DEF stamps
<1>2. /\ Sound(ix) /\ ix.byPath = index.byPath /\ ix.winners = index.winners
      /\ ix.goals = index.goals /\ ix.topics = index.topics /\ ix.goalTopics = index.goalTopics
  BY StampsSound DEF IInv, Sound
<1> HIDE DEF ix
<1>3. Exact(ix) /\ Shaped(ix) /\ Topical(index)
  <2>1. Exact(ix)
    BY <1>2, SameEntriesExact DEF ExactEverywhere
  <2>2. Shaped(ix) /\ Topical(index)
    BY <1>2 DEF Shapes, Shaped
  <2>3. QED
    BY <2>1, <2>2
<1>4. ASSUME NEW p \in Paths \cap DOMAIN new PROVE new[p] \in EntryType
  <2>1. apply.read[p].body \in Content
    BY DEF IInv, FilesTyped
  <2>2. QED
    BY <2>1, IndexedTyped DEF Shapes, Shaped
<1> HIDE DEF new
<1>5. Shaped(index') /\ index'.goals = ix.goals /\ index'.goalTopics = ix.goalTopics
  BY <1>1, <1>2, <1>3, <1>4, EntriesShaped
<1>6. QED
  BY <1>2, <1>3, <1>5 DEF Topical

LEMMA NextShapes == IInv /\ ExactEverywhere /\ Shapes /\ [Next]_vars => Shapes'
<1> SUFFICES ASSUME IInv, ExactEverywhere, Shapes, [Next]_vars PROVE Shapes'
  OBVIOUS
<1> USE DEF Walkers
<1>1. /\ Shaped(index') /\ Topical(index')
      /\ \A u \in Walkers : WalkShaped(walk'[u])
  <2>1. \/ \E w \in Walkers : Walk(w) \/ Claim(w) \/ WalkFails(w)
        \/ ApplyLocked /\ walk' = walk
        \/ UNCHANGED <<index, walk>>
    BY DEF Next, LoopNext, Applies, Edit, HiddenEdit, RungEdit, BurstStart, StrayBurst,
           BurstDropped, ApplyStat, ApplyRead, ApplyLocked, vars
  <2>2. QED
    BY <2>1, WalkShapes, ApplyShapes DEF Shapes
<1>2. rungs' \in Rungs /\ edits' \in 0 .. MaxEdits
  <2>1. \/ \E p \in Paths, b \in Bodies \cup {NoFile} : Edit(p, b) \/ HiddenEdit(p, b)
        \/ \E r \in Rungs : RungEdit(r)
        \/ UNCHANGED <<rungs, edits>>
    BY DEF Next, LoopNext, Applies, BurstStart, StrayBurst, BurstDropped, ApplyStat, ApplyRead,
           ApplyLocked, vars, vault, Claim, Walk, ReadGoals, ReadTopics, ListDir, CopyIndex,
           CompareFile, RestampFile, ReadFile, WalkFails, Install, Finish, walkOnly
  <2>2. CASE \E p \in Paths, b \in Bodies \cup {NoFile} : Edit(p, b) \/ HiddenEdit(p, b)
    BY <2>2, EditsBound DEF Shapes, Edit, HiddenEdit
  <2>3. CASE \E r \in Rungs : RungEdit(r)
    BY <2>3 DEF Shapes, RungEdit
  <2>4. QED
    BY <2>1, <2>2, <2>3 DEF Shapes
<1>3. applied' \in Nat
  <2>1. applied' = applied \/ applied' = applied + 1
    BY DEF Next, LoopNext, Applies, BurstStart, StrayBurst, BurstDropped, ApplyStat, ApplyRead,
           ApplyLocked, vars, vault, Claim, Walk, ReadGoals, ReadTopics, ListDir, CopyIndex,
           CompareFile, RestampFile, ReadFile, WalkFails, Install, Finish, walkOnly, Edit,
           HiddenEdit, RungEdit
  <2>2. QED
    BY <2>1 DEF Shapes
<1>4. token' \in Walkers \cup {NoFile}
  <2>1. token' \in {token, NoFile} \/ \E w \in Walkers : token' = w
    BY DEF Next, LoopNext, Applies, BurstStart, StrayBurst, BurstDropped, ApplyStat, ApplyRead,
           ApplyLocked, vars, vault, Claim, Walk, ReadGoals, ReadTopics, ListDir, CopyIndex,
           CompareFile, RestampFile, ReadFile, WalkFails, Install, Finish, walkOnly, Edit,
           HiddenEdit, RungEdit, Cleared
  <2>2. QED
    BY <2>1 DEF Shapes
<1>5. events' \in SUBSET Paths
  <2>1. \/ events' \subseteq events
        \/ \E p \in Paths : events' = events \cup {p}
    BY DEF Next, LoopNext, Applies, BurstStart, StrayBurst, BurstDropped, ApplyStat, ApplyRead,
           ApplyLocked, vars, vault, Claim, Walk, ReadGoals, ReadTopics, ListDir, CopyIndex,
           CompareFile, RestampFile, ReadFile, WalkFails, Install, Finish, walkOnly, Edit,
           HiddenEdit, RungEdit, Told
  <2>2. QED
    BY <2>1 DEF Shapes
<1>6. apply'.pc \in {"idle", "stat", "read"} /\ apply'.todo \in SUBSET Paths
  <2>1. \/ \E P \in SUBSET Paths : BurstStart(P) \/ StrayBurst(P)
        \/ BurstDropped \/ ApplyLocked
        \/ ApplyRead
        \/ \E p \in Paths : ApplyStat(p)
        \/ UNCHANGED apply
    <3>1. \A P \in SUBSET events : P \in SUBSET Paths
      BY DEF Shapes
    <3>2. \A P \in {{}} \cup {{p} : p \in Paths} : P \in SUBSET Paths
      OBVIOUS
    <3>3. QED
      BY <3>1, <3>2 DEF Next, LoopNext, Applies, vars, Claim, Walk, ReadGoals, ReadTopics,
         ListDir, CopyIndex, CompareFile, RestampFile, ReadFile, WalkFails, Install, Finish,
         walkOnly, Edit, HiddenEdit, RungEdit
  <2>2. ASSUME NEW P \in SUBSET Paths, BurstStart(P) \/ StrayBurst(P)
        PROVE  apply'.pc = "stat" /\ apply'.todo = P
    <3>1. apply' = [NoApply EXCEPT !.pc = "stat", !.todo = P]
      BY <2>2 DEF BurstStart, StrayBurst
    <3>2. apply' = [pc |-> "stat", todo |-> P, at |-> 0, stamp |-> 0, read |-> NoApply.read]
      BY <3>1 DEF NoApply
    <3>3. QED
      BY <3>2
  <2>3. CASE BurstDropped \/ ApplyLocked
    BY <2>3 DEF BurstDropped, ApplyLocked, NoApply
  <2>4. CASE ApplyRead
    <3>1. PICK read :
            apply' = [apply EXCEPT !.pc = "stat", !.todo = @ \ {apply.at},
                        !.at = 0, !.stamp = 0, !.read = read]
      BY <2>4 DEF ApplyRead
    <3>2. apply'.pc = "stat" /\ apply'.todo = apply.todo \ {apply.at}
      BY <3>1 DEF IInv, FilesTyped
    <3>3. QED
      BY <3>2 DEF Shapes
  <2>5. ASSUME NEW p \in Paths, ApplyStat(p) PROVE apply'.pc = "read" /\ apply'.todo = apply.todo
    <3>1. PICK stamp : apply' = [apply EXCEPT !.pc = "read", !.at = p, !.stamp = stamp]
      BY <2>5 DEF ApplyStat
    <3>2. QED
      BY <3>1 DEF IInv, FilesTyped
  <2>6. QED
    BY <2>1, <2>2, <2>3, <2>4, <2>5 DEF Shapes
<1>7. Shaped(index)' /\ Topical(index)' /\ \A u \in Walkers : WalkShaped(walk[u])'
  BY <1>1 DEF Shaped, Topical, WalkShaped
<1>8. QED
  BY <1>2, <1>3, <1>4, <1>5, <1>6, <1>7 DEF Shapes

\* The task index keeps its types: whatever is applied, walked and installed,
\* entries come from bodies and goals of the vault, stamps from its files, and
\* the serving index has a topic, or none, for each of its goals.
THEOREM TaskIndexTypes == Spec => []TypeOK
<1>1. Init => ExactEverywhere /\ Shapes /\ Vouching
  BY InitExact, InitShapes, InitVouches
<1>2. IInv /\ (ExactEverywhere /\ Shapes /\ Vouching) /\ [Next]_vars
        => (ExactEverywhere /\ Shapes /\ Vouching)'
  BY NextExact, NextShapes, NextVouches
<1>3. Shapes /\ Vouching => TypeOK
  <2> SUFFICES ASSUME Shapes, Vouching PROVE TypeOK
    OBVIOUS
  <2>1. Issued \subseteq Stamps
    BY EditsBound DEF Shapes, Issued, Stamps
  <2>2. ASSUME NEW ix, Shaped(ix), Vouches(ix) PROVE IsIndex(ix)
    <3>1. ix.stamps \in [Paths -> Stamps]
      BY <2>1, <2>2 DEF Vouches
    <3>2. QED
      BY <2>2, <3>1 DEF Shaped, IsIndex
  <2>3. IsIndex(index) /\ DOMAIN index.goalTopics = index.goals
    BY <2>2 DEF Shapes, Vouching, Topical
  <2>4. ASSUME NEW w \in Walkers
        PROVE  walk[w].todo \in SUBSET Paths /\ IsIndex(walk[w].copy) /\ IsIndex(walk[w].fresh)
    BY <2>2 DEF Shapes, Vouching, WalkShaped, WalkVouches
  <2>5. QED
    BY <2>3, <2>4 DEF Shapes, TypeOK
<1>4. QED
  BY <1>1, <1>2, <1>3, TaskIndexInvariance, PTL DEF Spec

-----------------------------------------------------------------------------
(* Installs                                                                  *)
(*                                                                         *)
(* A copy whose base is the present sequence is the serving index.  A file    *)
(* that has the stamp the copy holds has not changed since, so what the walk  *)
(* builds of it, reused or read again, is what the file says.               *)

Walking(k) == k.pc \in {"files", "restamp", "content"}

\* The index being built has of p what p holds, under the stamp p has.
Fits(k, p) ==
  p \notin hidden /\ k.copy.stamps[p] = disk[p].stamp /\ disk[p].stamp # 0 =>
    /\ k.fresh.byPath[p] # NoEntry =>
         SameFile(k.fresh.byPath[p], disk[p].body) /\ k.fresh.stamps[p] = disk[p].stamp
    /\ k.pc = "content" /\ p = Min(k.todo) => k.fresh.stamps[p] = disk[p].stamp

WalkFits(k) ==
  Walking(k) =>
    /\ k.base \in Nat /\ k.base <= applied
    /\ k.base = applied => k.copy = index
    /\ \A p \in Paths : Fits(k, p)

Fitting ==
  /\ \A p \in Paths : disk[p].stamp = 0 => disk[p].body = NoFile
  /\ \A w \in Walkers : WalkFits(walk[w])

\* Everything the steps of a walk are judged by.
Everything == IInv /\ Vouching /\ ExactEverywhere /\ Shapes

LEMMA InitFits == Init => Fitting
<1> SUFFICES ASSUME Init PROVE Fitting
  OBVIOUS
<1>1. \A p \in Paths : disk[p].stamp = 0 => disk[p].body = NoFile
  BY DEF Init
<1>2. \A w \in Walkers : ~ Walking(walk[w])
  BY DEF Init, NoWalk, Walking
<1>3. QED
  BY <1>1, <1>2 DEF Fitting, WalkFits

\* An edited file has a stamp no copy holds.
LEMMA EditFits ==
  ASSUME Everything, Fitting, NEW p \in Paths, NEW b \in Content, Edit(p, b) \/ HiddenEdit(p, b)
  PROVE  Fitting'
<1>1. edits \in Nat /\ edits' = edits + 1 /\ UNCHANGED <<index, applied, walk>>
  BY DEF Edit, HiddenEdit, Everything, IInv, FilesTyped
<1>2. ASSUME NEW q \in Paths
      PROVE  /\ disk'[q].stamp = 0 => disk'[q].body = NoFile
             /\ \/ disk'[q] = disk[q] /\ (q \in hidden' <=> q \in hidden)
                \/ q \in hidden'
                \/ disk'[q].stamp \in {0, edits + 2}
  <2>1. CASE Edit(p, b)
    BY <1>1, <2>1 DEF Edit, Everything, IInv, FilesTyped, Fitting
  <2>2. CASE HiddenEdit(p, b)
    <3>1. disk' = [disk EXCEPT ![p].body = b] /\ disk[p].body # NoFile
      BY <2>2 DEF HiddenEdit
    <3>2. disk'[q].stamp = disk[q].stamp /\ (q # p => disk'[q] = disk[q])
      BY <3>1 DEF Everything, IInv, FilesTyped
    <3>3. QED
      BY <1>1, <2>2, <3>1, <3>2 DEF HiddenEdit, Fitting
  <2>3. QED
    BY <2>1, <2>2
<1>3. ASSUME NEW w \in Walkers, NEW q \in Paths, Fits(walk[w], q) PROVE Fits(walk[w], q)'
  <2>1. walk[w].copy.stamps[q] \in 0 .. edits + 1
    BY DEF Everything, Vouching, WalkVouches, Vouches, Issued
  <2>2. CASE disk'[q] = disk[q] /\ (q \in hidden' <=> q \in hidden)
    BY <1>1, <1>3, <2>2 DEF Fits, SameFile
  <2>3. CASE q \in hidden' \/ disk'[q].stamp = 0
    BY <2>3 DEF Fits
  <2>4. CASE disk'[q].stamp = edits + 2
    <3>1. walk'[w].copy.stamps[q] # disk'[q].stamp
      BY <1>1, <2>1, <2>4
    <3>2. QED
      BY <3>1 DEF Fits
  <2>5. QED
    BY <1>2, <2>2, <2>3, <2>4
<1>4. ASSUME NEW w \in Walkers PROVE WalkFits(walk[w])'
  BY <1>1, <1>3 DEF Fitting, WalkFits, Walking
<1>5. QED
  BY <1>2, <1>4 DEF Fitting

\* A copy is older than the sequence an apply leaves.
LEMMA AppliesFit ==
  ASSUME Everything, Fitting, UNCHANGED <<disk, hidden, walk>>,
         UNCHANGED <<index, applied>> \/ applied' = applied + 1
  PROVE  Fitting'
<1>1. applied \in Nat
  BY DEF Everything, Shapes
<1>2. ASSUME NEW w \in Walkers PROVE WalkFits(walk[w])'
  <2>1. WalkFits(walk[w])
    BY DEF Fitting
  <2>2. ASSUME Walking(walk[w]) PROVE \A p \in Paths : Fits(walk[w], p)'
    BY <2>1, <2>2 DEF WalkFits, Fits, SameFile
  <2>3. CASE UNCHANGED <<index, applied>>
    BY <2>1, <2>2, <2>3 DEF WalkFits, Walking
  <2>4. CASE applied' = applied + 1
    BY <1>1, <2>1, <2>2, <2>4 DEF WalkFits, Walking
  <2>5. QED
    BY <2>3, <2>4
<1>3. QED
  BY <1>2 DEF Fitting

\* A step of one walk, seen through its fields.
LEMMA BecomesFits ==
  ASSUME Everything, Fitting, UNCHANGED <<disk, hidden, applied>>,
         NEW w \in Walkers, token = w,
         NEW pc, NEW todo, NEW copy, NEW base, NEW fresh,
         Becomes(w, pc, todo, copy, base, fresh),
         pc \in {"files", "restamp", "content"} =>
           /\ base \in Nat /\ base <= applied
           /\ base = applied => copy = index'
           /\ \A p \in Paths :
                p \notin hidden /\ copy.stamps[p] = disk[p].stamp /\ disk[p].stamp # 0 =>
                  /\ fresh.byPath[p] # NoEntry =>
                       SameFile(fresh.byPath[p], disk[p].body) /\ fresh.stamps[p] = disk[p].stamp
                  /\ pc = "content" /\ p = Min(todo) => fresh.stamps[p] = disk[p].stamp
  PROVE  Fitting'
<1>1. ASSUME NEW u \in Walkers PROVE WalkFits(walk[u])'
  <2>1. CASE u = w
    BY <2>1 DEF Becomes, WalkFits, Walking, Fits, SameFile
  <2>2. CASE u # w
    <3>1. walk'[u] = walk[u] /\ walk[u].pc = "idle"
      BY <2>2 DEF Becomes, Everything, IInv, OneWalk
    <3>2. QED
      BY <3>1 DEF WalkFits, Walking
  <2>3. QED
    BY <2>1, <2>2
<1>2. QED
  BY <1>1 DEF Fitting

LEMMA WalkFitsOn ==
  ASSUME Everything, Fitting, NEW w \in Walkers, Walk(w) \/ WalkFails(w)
  PROVE  Fitting'
<1> DEFINE k == walk[w]
           p == Next_(w)
           stamped == WithStamp(k.fresh, p, disk[p].stamp)
<1>1. /\ WalkFits(k) /\ WalkVouches(k) /\ Sound(k.fresh) /\ Sound(k.copy)
      /\ applied \in Nat
  BY DEF Fitting, Everything, Vouching, Shapes, IInv, WalkSound
<1>2. token = w
  BY WalkerHolds DEF Everything, Walk, WalkFails, ReadGoals, ReadTopics, ListDir, CopyIndex,
                     CompareFile, RestampFile, ReadFile, Install, Finish
<1>3. IInv
  BY DEF Everything
<1>4. ASSUME k.todo # {} PROVE p \in k.todo /\ p \in Paths
  BY <1>1, <1>4, LeastPath, TaskIndexAssumption DEF WalkVouches, Next_
<1>5. /\ DOMAIN stamped.stamps = Paths
      /\ \A q \in Paths :
           stamped.stamps[q] = IF q = p /\ disk[p].stamp # 0 THEN disk[p].stamp
                               ELSE k.fresh.stamps[q]
      /\ stamped.byPath = k.fresh.byPath
      /\ Sound(stamped)
  <2>1. DOMAIN k.fresh.stamps = Paths
    BY <1>1 DEF WalkVouches, Vouches
  <2>2. QED
    BY <1>1, <2>1, StampFields, WithStampSound
<1>6. CASE Finish(w)
  <2>1. UNCHANGED <<disk, hidden, applied>>
    BY <1>6 DEF Finish, vault
  <2>2. Becomes(w, "idle", {}, EmptyIndex, 0, EmptyIndex)
    BY <1>6, <1>3, TokenBecomes DEF Finish, Becomes, Goes, NoWalk, IInv
  <2>3. QED
    BY <1>2, <2>1, <2>2, BecomesFits
<1>7. CASE ReadGoals(w) \/ ReadTopics(w)
  <2>1. UNCHANGED <<disk, hidden, applied>>
    BY <1>7, <1>3, RungsBecome DEF walkOnly, vault
  <2>2. PICK fresh :
          \/ Becomes(w, "topics", k.todo, k.copy, k.base, fresh)
          \/ Becomes(w, "list", k.todo, k.copy, k.base, fresh)
    BY <1>7, <1>3, RungsBecome
  <2>3. QED
    BY <1>2, <2>1, <2>2, BecomesFits
<1>8. CASE ListDir(w)
  <2>1. UNCHANGED <<disk, hidden, applied>>
    BY <1>8, <1>3, ListBecomes DEF walkOnly, vault
  <2>2. PICK todo : Becomes(w, "copy", todo, k.copy, k.base, k.fresh)
    BY <1>8, <1>3, ListBecomes
  <2>3. QED
    BY <1>2, <2>1, <2>2, BecomesFits
<1>9. CASE CopyIndex(w)
  <2>1. /\ k.pc = "copy"
        /\ UNCHANGED <<disk, hidden, applied>> /\ index' = index
        /\ Becomes(w, "files", k.todo, index, applied, k.fresh)
    BY <1>9, <1>3, CopyBecomes DEF walkOnly, vault
  <2>2. Bare(k.fresh)
    BY <1>1, <2>1 DEF WalkVouches
  <2>3. QED
    BY <1>1, <1>2, <2>1, <2>2, BecomesFits DEF Bare
<1> HIDE DEF p, stamped
<1>10. CASE CompareFile(w)
  <2>1. /\ k.pc = "files" /\ k.todo # {}
        /\ UNCHANGED <<disk, hidden, applied>> /\ index' = index
        /\ \/ /\ disk[p].stamp # 0 /\ Held(w, p)
              /\ Becomes(w, "files", k.todo \ {p}, k.copy, k.base,
                         WithEntry(stamped, p, Resolved(k.fresh, k.copy.byPath[p])))
           \/ Becomes(w, "restamp", k.todo, k.copy, k.base, k.fresh)
           \/ Becomes(w, "restamp", k.todo, k.copy, k.base, stamped)
    BY <1>10, <1>3, CompareBecomes DEF walkOnly, vault, p, stamped
  <2>2. /\ k.base \in Nat /\ k.base <= applied
        /\ k.base = applied => k.copy = index'
        /\ \A q \in Paths : Fits(k, q)
    BY <1>1, <2>1 DEF WalkFits, Walking
  <2>3. p \in Paths /\ k.fresh.byPath[p] = NoEntry
    BY <1>1, <1>4, <2>1 DEF WalkVouches
  <2>4. CASE /\ disk[p].stamp # 0 /\ Held(w, p)
             /\ Becomes(w, "files", k.todo \ {p}, k.copy, k.base,
                        WithEntry(stamped, p, Resolved(k.fresh, k.copy.byPath[p])))
    <3> DEFINE old == k.copy.byPath[p]
               fresh == WithEntry(stamped, p, Resolved(k.fresh, old))
               todo == k.todo \ {p}
    <3>1. p \in hidden \/ SameFile(old, disk[p].body)
      BY <1>1, <2>3, <2>4 DEF Held, WalkVouches, Vouches, Vouched
    <3>2. IsEntry(old)
      BY <1>1, <2>3 DEF Sound, Agrees
    <3>3. p \in hidden \/ SameFile(Resolved(k.fresh, old), disk[p].body)
      BY <3>1, <3>2, ResolvedSame
    <3>4. /\ \A q \in Paths :
               fresh.byPath[q] = IF q = p THEN Resolved(k.fresh, old) ELSE stamped.byPath[q]
          /\ fresh.stamps = stamped.stamps
      BY <1>5, EntryFields
    <3> HIDE DEF fresh, old, todo
    <3>5. ASSUME NEW q \in Paths, q \notin hidden, k.copy.stamps[q] = disk[q].stamp,
                 disk[q].stamp # 0, fresh.byPath[q] # NoEntry
          PROVE  SameFile(fresh.byPath[q], disk[q].body) /\ fresh.stamps[q] = disk[q].stamp
      <4>1. CASE q = p
        BY <1>5, <3>3, <3>4, <3>5, <4>1
      <4>2. CASE q # p
        BY <1>5, <2>2, <3>4, <3>5, <4>2 DEF Fits
      <4>3. QED
        BY <4>1, <4>2
    <3>6. Becomes(w, "files", todo, k.copy, k.base, fresh)
      BY <2>4 DEF fresh, old, todo
    <3>7. QED
      BY <1>2, <2>1, <2>2, <3>5, <3>6, BecomesFits
  <2>5. CASE Becomes(w, "restamp", k.todo, k.copy, k.base, k.fresh)
    BY <1>2, <2>1, <2>2, <2>5, BecomesFits DEF Fits
  <2>6. CASE Becomes(w, "restamp", k.todo, k.copy, k.base, stamped)
    <3>1. ASSUME NEW q \in Paths, q \notin hidden, k.copy.stamps[q] = disk[q].stamp,
                 disk[q].stamp # 0, stamped.byPath[q] # NoEntry
          PROVE  SameFile(stamped.byPath[q], disk[q].body) /\ stamped.stamps[q] = disk[q].stamp
      BY <1>5, <2>2, <2>3, <3>1 DEF Fits
    <3>2. QED
      BY <1>2, <2>1, <2>2, <2>6, <3>1, BecomesFits
  <2>7. QED
    BY <2>1, <2>4, <2>5, <2>6
<1>11. CASE RestampFile(w)
  <2>1. /\ k.pc = "restamp"
        /\ UNCHANGED <<disk, hidden, applied>> /\ index' = index
        /\ Becomes(w, "content", k.todo, k.copy, k.base, stamped)
    BY <1>11, <1>3, RestampBecomes DEF walkOnly, vault, p, stamped
  <2>2. /\ k.base \in Nat /\ k.base <= applied
        /\ k.base = applied => k.copy = index'
        /\ \A q \in Paths : Fits(k, q)
    BY <1>1, <2>1 DEF WalkFits, Walking
  <2>3. p \in Paths /\ k.fresh.byPath[p] = NoEntry /\ p = Min(k.todo)
    BY <1>1, <1>4, <2>1 DEF WalkVouches, Next_, p
  <2>4. ASSUME NEW q \in Paths, q \notin hidden, k.copy.stamps[q] = disk[q].stamp,
               disk[q].stamp # 0
        PROVE  /\ stamped.byPath[q] # NoEntry =>
                    SameFile(stamped.byPath[q], disk[q].body)
                    /\ stamped.stamps[q] = disk[q].stamp
               /\ q = Min(k.todo) => stamped.stamps[q] = disk[q].stamp
    BY <1>5, <2>2, <2>3, <2>4 DEF Fits
  <2>5. QED
    BY <1>2, <2>1, <2>2, <2>4, BecomesFits
<1>12. CASE ReadFile(w)
  <2>1. PICK body \in {disk[p].body, NoFile} :
          /\ k.pc = "content"
          /\ UNCHANGED <<disk, hidden, applied>> /\ index' = index
          /\ Becomes(w, "files", k.todo \ {p}, k.copy, k.base,
                     WithEntry(k.fresh, p, Indexed(k.fresh, body)))
    BY <1>12, <1>3, ReadBecomes DEF walkOnly, vault, p
  <2>2. /\ k.base \in Nat /\ k.base <= applied
        /\ k.base = applied => k.copy = index'
        /\ \A q \in Paths : Fits(k, q)
    BY <1>1, <2>1 DEF WalkFits, Walking
  <2>3. p \in Paths /\ p = Min(k.todo) /\ disk[p].body \in Content
    BY <1>1, <1>3, <1>4, <2>1 DEF WalkVouches, Next_, p, IInv, FilesTyped
  <2> DEFINE entry == Indexed(k.fresh, body)
             fresh == WithEntry(k.fresh, p, entry)
             todo == k.todo \ {p}
  <2>4. entry = NoEntry \/ SameFile(entry, disk[p].body)
    <3>1. CASE body = NoFile
      BY <3>1, NoFileIndexed
    <3>2. CASE body = disk[p].body
      BY <2>3, <3>2, IndexedSame
    <3>3. QED
      BY <2>1, <3>1, <3>2
  <2> HIDE DEF entry
  <2>5. /\ \A q \in Paths : fresh.byPath[q] = IF q = p THEN entry ELSE k.fresh.byPath[q]
        /\ fresh.stamps = k.fresh.stamps
    BY <1>1, EntryFields
  <2> HIDE DEF fresh, todo
  <2>6. ASSUME NEW q \in Paths, q \notin hidden, k.copy.stamps[q] = disk[q].stamp,
               disk[q].stamp # 0, fresh.byPath[q] # NoEntry
        PROVE  SameFile(fresh.byPath[q], disk[q].body) /\ fresh.stamps[q] = disk[q].stamp
    <3>1. CASE q = p
      BY <2>1, <2>2, <2>3, <2>4, <2>5, <2>6, <3>1 DEF Fits
    <3>2. CASE q # p
      BY <2>2, <2>5, <2>6, <3>2 DEF Fits
    <3>3. QED
      BY <3>1, <3>2
  <2>7. Becomes(w, "files", todo, k.copy, k.base, fresh)
    BY <2>1 DEF fresh, entry, todo
  <2>8. QED
    BY <1>2, <2>1, <2>2, <2>6, <2>7, BecomesFits
<1>13. CASE Install(w) \/ WalkFails(w)
  <2>1. /\ UNCHANGED <<disk, hidden, applied>>
        /\ Becomes(w, "finish", {}, EmptyIndex, 0, EmptyIndex)
    BY <1>13, <1>3, EndBecomes DEF vault
  <2>2. QED
    BY <1>2, <2>1, BecomesFits
<1>14. QED
  BY <1>6, <1>7, <1>8, <1>9, <1>10, <1>11, <1>12, <1>13 DEF Walk

\* A claimed walk copies later.
LEMMA ClaimFits ==
  ASSUME Everything, Fitting, NEW w \in Walkers, Claim(w)
  PROVE  Fitting'
<1>1. /\ token = NoFile /\ walk[w].pc = "idle"
      /\ UNCHANGED <<disk, hidden, applied, index>>
  BY DEF Claim, MayClaim, vault
<1>2. \A u \in Walkers : walk[u].pc = "idle"
  BY <1>1, TaskIndexAssumption DEF Everything, IInv, OneWalk
<1>3. Becomes(w, "goals", walk[w].todo, walk[w].copy, walk[w].base, walk[w].fresh)
      \/ Becomes(w, "idle", {}, EmptyIndex, 0, EmptyIndex)
  BY TokenBecomes DEF Everything
<1>4. \A u \in Walkers : ~ Walking(walk'[u])
  BY <1>2, <1>3 DEF Becomes, Walking
<1>5. QED
  BY <1>1, <1>4 DEF Fitting, WalkFits, Walking

LEMMA NextFits == Everything /\ Fitting /\ [Next]_vars => Fitting'
<1> SUFFICES ASSUME Everything, Fitting, [Next]_vars PROVE Fitting'
  OBVIOUS
<1> USE DEF Walkers
<1>1. ASSUME NEW p \in Paths, NEW b \in Bodies \cup {NoFile}, Edit(p, b) \/ HiddenEdit(p, b)
      PROVE  Fitting'
  BY <1>1, EditFits DEF Content
<1>2. ASSUME NEW w \in Walkers, Walk(w) \/ WalkFails(w) PROVE Fitting'
  BY <1>2, WalkFitsOn
<1>3. ASSUME NEW w \in Walkers, Claim(w) PROVE Fitting'
  BY <1>3, ClaimFits
<1>4. \/ \E p \in Paths, b \in Bodies \cup {NoFile} : Edit(p, b) \/ HiddenEdit(p, b)
      \/ \E w \in Walkers : Walk(w) \/ WalkFails(w) \/ Claim(w)
      \/ /\ UNCHANGED <<disk, hidden, walk>>
         /\ UNCHANGED <<index, applied>> \/ applied' = applied + 1
  BY DEF Next, LoopNext, Applies, RungEdit, BurstStart, StrayBurst, BurstDropped, ApplyStat,
         ApplyRead, ApplyLocked, vars, vault
<1>5. QED
  BY <1>1, <1>2, <1>3, <1>4, AppliesFit

\* An install that takes place swaps the copied index for one that fits.
LEMMA InstallKeeps ==
  ASSUME Everything, Fitting, NEW w \in Walkers, NEW p \in Paths \ hidden,
         Install(w), walk[w].fresh.byPath[p] # NoEntry, index.byPath[p] # NoEntry, Current(p)
  PROVE  Current(p)'
<1> DEFINE k == walk[w]
<1>1. UNCHANGED disk
  BY DEF Install, vault
<1>2. CASE ~ MayInstall(w)
  <2>1. index' = index
    BY <1>2 DEF Install
  <2>2. QED
    BY <1>1, <2>1 DEF Current, SameFile
<1>3. CASE MayInstall(w)
  <2>1. index' = k.fresh /\ k.base = applied /\ Walking(k)
    BY <1>3 DEF Install, MayInstall, Walking
  <2>2. k.copy = index /\ Fits(k, p)
    BY <2>1 DEF Fitting, WalkFits
  <2>3. index.stamps[p] = disk[p].stamp /\ SameFile(index.byPath[p], disk[p].body)
    BY DEF Current
  <2>4. disk[p].stamp # 0
    <3> DEFINE e == index.byPath[p]
    <3>1. e.session # "" /\ IsEntry(e)
      <4>1. e \in EntryType
        BY DEF Everything, Shapes, Shaped
      <4>2. e.session \in Sessions
        BY <4>1 DEF EntryType
      <4>3. QED
        BY <4>2, TaskIndexAssumption DEF Everything, IInv, Sound, Agrees
    <3>2. SameFile(e, disk[p].body)
      BY <2>3
    <3> HIDE DEF e
    <3>3. Entry(disk[p].body).session = e.session
      BY <3>1, <3>2 DEF SameFile, IsEntry
    <3>4. disk[p].body # NoFile
      BY <3>1, <3>3 DEF Entry, NoEntry
    <3>5. QED
      BY <3>4 DEF Fitting
  <2>5. /\ SameFile(k.fresh.byPath[p], disk[p].body)
        /\ k.fresh.stamps[p] = disk[p].stamp
    BY <2>2, <2>3, <2>4 DEF Fits
  <2>6. QED
    BY <1>1, <2>1, <2>5 DEF Current, SameFile
<1>4. QED
  BY <1>2, <1>3

\* A walk's result is installed over nothing newer: a file that the walk has
\* read, and that the serving index holds as it is on disk, is held so after the
\* install, for any number of files, renders, edits, applies and faults.
THEOREM InstallTakesNothingBack == Spec => InstallKeepsListed
<1>1. Init => Vouching /\ ExactEverywhere /\ Shapes /\ Fitting
  BY InitVouches, InitExact, InitShapes, InitFits
<1>2. IInv /\ (Vouching /\ ExactEverywhere /\ Shapes /\ Fitting) /\ [Next]_vars
        => (Vouching /\ ExactEverywhere /\ Shapes /\ Fitting)'
  BY NextVouches, NextExact, NextShapes, NextFits DEF Everything
<1>3. IInv /\ Vouching /\ ExactEverywhere /\ Shapes /\ Fitting /\ [Next]_vars
        => [\A w \in Walkers, p \in Paths \ hidden :
              Install(w) /\ walk[w].fresh.byPath[p] # NoEntry /\ index.byPath[p] # NoEntry
                /\ Current(p) => Current(p)']_vars
  BY InstallKeeps DEF Everything
<1>4. QED
  BY <1>1, <1>2, <1>3, TaskIndexInvariance, PTL DEF Spec, InstallKeepsListed
=============================================================================

-------------------------- MODULE SessionLiveness --------------------------
(***************************************************************************)
(* The session liveness checker and the registry it lists.                  *)
(*                                                                         *)
(* A listing skips an entry it cannot read, so a session with such an entry *)
(* is missing from it.  The checker keeps two listings: `cached`, served to  *)
(* whoever asks first, and `fresh`, served to whoever missed the first while *)
(* the directory's stamp has not moved and the listing is young.  A session  *)
(* that takes over another's file in place (a process id used again) does    *)
(* not move the stamp.  Windows are not timed: a listing lapses as a step.   *)
(***************************************************************************)
EXTENDS AttentionItem

\* A liveness ref names its model, so no ref is both.
ASSUME RefsAssumption == SessionRefs \cap HeartbeatRefs = {}

VARIABLES
  alive,      \* registered sessions and fresh heartbeats
  readable,   \* whether the session registry can be listed
  torn,       \* registered sessions whose entry cannot be read now
  cached,     \* the listing LiveSessions reuses
  fresh,      \* the listing LiveSessionsFresh reuses
  quiet       \* sessions registered in place since the fresh listing was taken

registryVars == <<alive, readable, torn>>
checkerVars == <<cached, fresh, quiet>>
livenessVars == <<registryVars, checkerVars>>

Listings == [held : BOOLEAN, ids : SUBSET SessionRefs]

NotHeld == [held |-> FALSE, ids |-> {}]

Holding(ids) == [held |-> TRUE, ids |-> ids]

-----------------------------------------------------------------------------
(* Listings. *)

\* An unreadable directory proves nothing, so it answers for every session.
Listed == IF readable THEN (alive \cap SessionRefs) \ torn ELSE SessionRefs

\* The cached listing, whatever has changed since it was taken.
LiveSessions == IF cached.held THEN cached.ids ELSE Listed

\* A registry without a session to speak of answers the same held or not.
TakeListing == cached' = IF SessionRefs = {} THEN NotHeld ELSE Holding(LiveSessions)

\* Defect: a listing that skipped an entry is reused like a whole one.
RelistedIncomplete == [held |-> readable, ids |-> Listed]

\* A new listing is kept only when every entry could be read.
Relisted == [held |-> readable /\ alive \cap torn = {}, ids |-> Listed]

\* What LiveSessionsFresh answers: the listing it holds, or a new one.  A
\* directory that cannot be listed may still have a stamp to compare.
FreshAnswers ==
  IF ~fresh.held THEN {Relisted}
  ELSE IF readable THEN {fresh} ELSE {fresh, Relisted}

KeepFresh(answer) ==
  /\ fresh' = IF answer.held THEN answer ELSE NotHeld
  /\ quiet' = IF answer = fresh THEN quiet ELSE {}

-----------------------------------------------------------------------------
(* One caller's lookups of the producers of some rows. *)

SessionRows(rows) == { x \in rows : x.ref \in SessionRefs }

HeartbeatStale(x) == x.ref \in HeartbeatRefs \ alive

\* Defect: a miss is believed without listing again.
LookupsTrustingFirst(rows, first) ==
  { [gone |-> { x \in SessionRows(rows) : x.ref \notin first }, answer |-> fresh] }

\* The first miss asks for a fresh listing, and every later lookup of the same
\* caller is answered from that one; so a session only the first listing held
\* is gone or not by its row's place in the batch.
Lookups(rows, first) ==
  IF \A x \in SessionRows(rows) : x.ref \in first
  THEN { [gone |-> {}, answer |-> fresh] }
  ELSE { [gone |-> { x \in SessionRows(rows) :
                       x.ref \notin answer.ids /\ (x.ref \notin first \/ x \in later) },
          answer |-> answer] : answer \in FreshAnswers, later \in SUBSET SessionRows(rows) }

\* The rows whose producer a caller found gone.
GoneRows(rows, lookup) == lookup.gone \cup { x \in rows : HeartbeatStale(x) }

\* Producers no listing has to show: not registered or stale, with an entry
\* that cannot be read, or registered in place within the fresh listing's window.
Unseen == ((SessionRefs \cup HeartbeatRefs) \ alive) \cup torn \cup quiet

-----------------------------------------------------------------------------
(* The registry's own steps. *)

\* Defect: only age retires the fresh listing, not the directory's stamp.
FreshByAgeAlone == fresh

\* A file created or deleted moves the directory's stamp.
AfterStampMoves == NotHeld

\* A session starts, exits or is resumed, in a file of its own or in place.
SessionChanges(ref, inPlace) ==
  /\ alive' = IF ref \in alive THEN alive \ {ref} ELSE alive \cup {ref}
  /\ torn' = torn \ {ref}
  /\ fresh' = IF inPlace THEN fresh ELSE AfterStampMoves
  /\ quiet' = IF ~inPlace THEN {}
              ELSE IF ref \notin alive /\ fresh.held THEN quiet \cup {ref}
              ELSE quiet \ {ref}
  /\ UNCHANGED <<readable, cached>>

\* A heartbeat goes stale or is renewed.
HeartbeatChanges(ref) ==
  /\ alive' = IF ref \in alive THEN alive \ {ref} ELSE alive \cup {ref}
  /\ UNCHANGED <<readable, torn, checkerVars>>

\* An entry is caught half written, or can be read again.
EntryChanges(ref) ==
  /\ ref \in alive
  /\ torn' = IF ref \in torn THEN torn \ {ref} ELSE torn \cup {ref}
  /\ UNCHANGED <<alive, readable, checkerVars>>

\* A second has passed since the listing was taken.
CachedLapses ==
  /\ cached.held
  /\ cached' = NotHeld
  /\ UNCHANGED <<registryVars, fresh, quiet>>

FreshLapses ==
  /\ fresh.held
  /\ fresh' = NotHeld
  /\ quiet' = {}
  /\ UNCHANGED <<registryVars, cached>>

ForgetListings == cached' = NotHeld /\ fresh' = NotHeld /\ quiet' = {}

InitLiveness ==
  /\ alive = SessionRefs \cup HeartbeatRefs
  /\ readable = TRUE
  /\ torn = {}
  /\ cached = NotHeld
  /\ fresh = NotHeld
  /\ quiet = {}

=============================================================================

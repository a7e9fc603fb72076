----------------------------- MODULE Federation -----------------------------
(***************************************************************************)
(* Two hosts, one board.  The local host serves its own asks and, through  *)
(* the federating store, those of a peer: a read appends the peer's open   *)
(* asks, taken from a short cache, and a call that names an ask the local   *)
(* store does not hold crosses HTTP to the peer, whose refusal comes back  *)
(* as a code and is turned into the store's own error again.               *)
(*                                                                         *)
(* Each store's operation is one transaction (AttentionStore has the       *)
(* detail).  What is interleaved here is everything between them: choosing *)
(* the host, the request, the peer's answer, the reply, and the peer's own *)
(* callers.  Times are ages in ticks that saturate at Horizon.             *)
(***************************************************************************)
EXTENDS Naturals

CONSTANTS
  Ids,          \* ask ids; a store draws fresh ones, so no two hosts share one
  Gates,        \* whether a push may be a permission gate
  Sessions,     \* sessions that escalate or resolve
  Arms,         \* answering arms
  Decisions,    \* verdicts of a permission gate
  Ratings,      \* operator ratings
  Ops,          \* the calls made on a board
  Callers,      \* concurrent callers of the local board
  Readers,      \* concurrent readers of the local board
  None,         \* the empty string
  NoRow,        \* the value under an id a store does not hold
  NoReader,     \* the value of a free mutex
  Window,       \* ticks a read of the peer is reused
  Timeout,      \* ticks one call to the peer may take
  MaxFaults     \* bound on lost, late, refused and unreadable calls

\* After this long a change at the peer has reached every board.
Horizon == Window + Timeout

Kinds == {"get", "answer", "close", "escalate", "flag", "unflag", "rate"}

\* resolver is resolved_by of an answer, the session of an escalation; valid
\* says whether the store's own validation of the arguments passes.
Op ==
  [ kind : Kinds, id : Ids, arm : Arms \cup {None},
    resolver : Sessions \cup {None}, decision : Decisions \cup {None},
    rating : Ratings \cup {None}, valid : BOOLEAN ]

Row ==
  [ gate : BOOLEAN, state : {"open", "answered", "closed"},
    arm : Arms \cup {None}, resolver : Sessions \cup {None}, decision : Decisions \cup {None},
    carrier : Sessions \cup {None}, flagged : BOOLEAN,
    rating : Ratings \cup {None} ]

ASSUME FederationAssumption ==
  /\ Ops \subseteq Op
  /\ Gates \subseteq BOOLEAN
  /\ NoRow \notin Row
  /\ NoReader \notin Readers
  /\ Window \in Nat
  /\ Timeout \in Nat
  /\ MaxFaults \in Nat

VARIABLES
  home,      \* the host that drew each id
  local,     \* the local store's rows
  peer,      \* the peer store's rows
  doomed,    \* ids whose asker is gone or whose deadline has passed
  call,      \* each caller's current or last call
  late,      \* calls the client gave up that the peer may still serve
  reader,    \* each reader's next step and the local rows it read
  mu,        \* the reader that holds the federating store's mutex
  reply,     \* what the peer answered the outstanding read
  cached,    \* the last read of the peer
  have,      \* whether there has been one
  cacheAge,  \* ticks since it was taken
  callAge,   \* ticks the outstanding read has been under way
  since,     \* ticks since each peer row entered or left the queue
  shown,     \* the ids each reader's last board showed
  faults     \* faults so far

storeVars == <<home, local, peer, doomed, since>>
callVars == <<call, late>>
readVars == <<reader, mu, reply, cached, have, cacheAge, callAge, shown>>
vars == <<storeVars, callVars, readVars, faults>>

-----------------------------------------------------------------------------
(* One store's operation: the error it ends in, and the row it leaves. *)

NewRow(gate) ==
  [ gate |-> gate, state |-> "open", arm |-> None, resolver |-> None, decision |-> None,
    carrier |-> None, flagged |-> FALSE, rating |-> None ]

Open(row) == row # NoRow /\ row.state = "open"

\* Defect: an answer is recorded whatever state the row is in.
AnswerUnchecked(op, row) == IF op.valid THEN "ok" ELSE "Invalid"

AnswerVerdict(op, row) ==
  CASE row.state = "closed" -> "IllegalTransition"
    [] row.state = "answered" /\ (~row.gate \/ op.resolver = None) ->
         "AlreadyAnswered"
    [] OTHER -> IF op.valid THEN "ok" ELSE "Invalid"

CloseVerdict(op, row) ==
  CASE row.state = "closed" -> "IllegalTransition"
    [] row.state = "open" /\ row.gate /\ op.arm # None -> "PermissionClose"
    [] OTHER -> "ok"

EscalateVerdict(op, row) ==
  CASE row.state # "open" -> "NotOpen"
    [] row.carrier \notin {None, op.resolver} -> "AlreadyEscalated"
    [] OTHER -> "ok"

\* Arguments that are refused before the row is looked up.
BadArgument(op) ==
  /\ ~op.valid
  /\ op.kind \in {"escalate", "rate"}

Verdict(op, row) ==
  CASE BadArgument(op) /\ op.kind = "escalate" -> "InvalidSession"
    [] BadArgument(op) /\ op.kind = "rate" -> "RatingInvalid"
    [] ~BadArgument(op) /\ row = NoRow -> "NotFound"
    [] OTHER ->
         CASE op.kind = "answer" -> AnswerVerdict(op, row)
           [] op.kind = "close" -> CloseVerdict(op, row)
           [] op.kind = "escalate" -> EscalateVerdict(op, row)
           [] op.kind = "flag" -> IF row.state = "open" THEN "ok" ELSE "NotOpen"
           [] op.kind \in {"get", "unflag", "rate"} -> "ok"

\* A verdict already on the row is never replaced.
Answered(op, row) ==
  [row EXCEPT !.state = "answered", !.arm = op.arm, !.resolver = op.resolver,
              !.decision = IF @ = None THEN op.decision ELSE @]

Closed(op, row) ==
  [row EXCEPT !.state = "closed",
              !.arm = IF row.state = "open" THEN op.arm ELSE @]

\* The row an operation whose verdict is "ok" leaves.
Applied(op, row) ==
  CASE op.kind = "answer" -> Answered(op, row)
    [] op.kind = "close" -> Closed(op, row)
    [] op.kind = "escalate" -> [row EXCEPT !.carrier = op.resolver]
    [] op.kind = "flag" -> [row EXCEPT !.flagged = TRUE]
    [] op.kind = "unflag" -> [row EXCEPT !.flagged = FALSE]
    [] op.kind = "rate" -> [row EXCEPT !.rating = op.rating]
    [] op.kind = "get" -> row

\* The store after one operation on it.
After(op, rows) ==
  IF Verdict(op, rows[op.id]) = "ok"
  THEN [rows EXCEPT ![op.id] = Applied(op, @)]
  ELSE rows

-----------------------------------------------------------------------------
(* A refusal on the wire. *)

Errors ==
  {"NotFound", "AlreadyAnswered", "IllegalTransition", "PermissionClose",
   "AlreadyEscalated", "NotOpen", "Invalid", "InvalidSession",
   "ReasonRequired", "RatingInvalid", "PeerUnavailable"}

\* The code a handler gives each error it names.
CodeOf ==
  [ NotFound |-> "NOT_FOUND", AlreadyAnswered |-> "ALREADY_ANSWERED",
    IllegalTransition |-> "ITEM_CLOSED",
    PermissionClose |-> "PERMISSION_CLOSE_WITHOUT_DECISION",
    AlreadyEscalated |-> "ALREADY_ESCALATED", NotOpen |-> "ITEM_NOT_OPEN",
    InvalidSession |-> "VALIDATION_ERROR",
    ReasonRequired |-> "FLAG_REASON_REQUIRED",
    RatingInvalid |-> "RATING_INVALID",
    PeerUnavailable |-> "PEER_UNAVAILABLE" ]

\* The errors each route's handler names; the rest share its default.
Named ==
  [ get |-> {"NotFound", "PeerUnavailable", "PermissionClose"},
    close |-> {"NotFound", "PeerUnavailable", "PermissionClose"},
    answer |-> {"NotFound", "AlreadyAnswered", "IllegalTransition",
                "PeerUnavailable"},
    escalate |-> {"InvalidSession", "NotFound", "AlreadyEscalated", "NotOpen",
                  "PeerUnavailable"},
    flag |-> {"ReasonRequired", "NotFound", "NotOpen", "PeerUnavailable"},
    unflag |-> {"ReasonRequired", "NotFound", "NotOpen", "PeerUnavailable"},
    rate |-> {"RatingInvalid", "NotFound", "PeerUnavailable"} ]

\* What a route's handler answers.
Coded(kind, err) ==
  IF err = "ok" THEN "OK"
  ELSE IF err \in Named[kind] THEN CodeOf[err]
  ELSE IF kind = "rate" THEN "INTERNAL_ERROR" ELSE "VALIDATION_ERROR"

Codes ==
  {"OK", "VALIDATION_ERROR", "INTERNAL_ERROR"} \cup {CodeOf[e] : e \in DOMAIN CodeOf}

\* What a call may come back with instead of a handler's code: nothing, or
\* nothing readable (lost); nothing yet, the request being under way (late); or
\* a bare 404 of whatever stands in front of the handlers, a proxy or an older
\* peer's router that does not know the route.
Cuts == {"lost", "late", "404"}

\* The empty string is none of them.
ASSUME EmptyAssumption == None \notin Errors \cup Codes \cup Cuts \cup {"ok"}

\* The codes the client turns back into the error they stand for.
Restored ==
  [ ALREADY_ANSWERED |-> "AlreadyAnswered", ITEM_CLOSED |-> "IllegalTransition",
    ALREADY_ESCALATED |-> "AlreadyEscalated", ITEM_NOT_OPEN |-> "NotOpen",
    PERMISSION_CLOSE_WITHOUT_DECISION |-> "PermissionClose",
    FLAG_REASON_REQUIRED |-> "ReasonRequired",
    RATING_INVALID |-> "RatingInvalid", NOT_FOUND |-> "NotFound" ]

\* Defect: the status decides, and every 409 reads as a lost race.
DecodedByStatus(code) ==
  CASE code = "OK" -> "ok"
    [] code \in {"NOT_FOUND", "404"} -> "NotFound"
    [] code \in {"FLAG_REASON_REQUIRED", "RATING_INVALID"} -> Restored[code]
    [] code \in {"lost", "late"} -> "PeerUnavailable"
    [] OTHER -> "AlreadyAnswered"

\* The body's code decides, and without one the status 404 reads as a missing
\* ask.  Anything else, a rejected token among it, reads as an absent peer.
Decoded(code) ==
  IF code = "OK" THEN "ok"
  ELSE IF code \in DOMAIN Restored THEN Restored[code]
  ELSE IF code = "404" THEN "NotFound" ELSE "PeerUnavailable"

\* The local board's answer to a call the peer answered with this error.
Relayed(kind, err) == Coded(kind, Decoded(Coded(kind, err)))

-----------------------------------------------------------------------------
(* The stores. *)

OpenIds(rows) == {i \in Ids : Open(rows[i])}

LiveIds(rows) == {i \in Ids : rows[i] # NoRow /\ rows[i].state # "closed"}

\* What a read leaves: open rows whose asker is gone are removed.
Pruned(rows) == [i \in Ids |-> IF Open(rows[i]) /\ i \in doomed THEN NoRow ELSE rows[i]]

\* A peer row that enters or leaves the queue is news again.
Touch(before, after) ==
  since' = [i \in Ids |-> IF Open(before[i]) # Open(after[i]) THEN 0 ELSE since[i]]

\* cut is what came back instead of a handler's answer; verdict is the store's.
Call ==
  [ step : {"idle", "route", "local", "sent", "served"}, op : Ops \cup {None},
    remote : BOOLEAN, verdict : Errors \cup {"ok", None}, cut : Cuts \cup {None},
    outcome : Codes \cup {None} ]

TypeOK ==
  /\ home \in [Ids -> {"none", "local", "peer"}]
  /\ local \in [Ids -> Row \cup {NoRow}]
  /\ peer \in [Ids -> Row \cup {NoRow}]
  /\ doomed \subseteq Ids
  /\ call \in [Callers -> Call]
  /\ late \subseteq Ops
  /\ reader \in [Readers ->
       [step : {"idle", "merge", "asked", "answered"}, rows : SUBSET Ids]]
  /\ mu \in Readers \cup {NoReader}
  /\ reply \subseteq Ids
  /\ cached \subseteq Ids
  /\ have \in BOOLEAN
  /\ cacheAge \in 0 .. Window
  /\ callAge \in 0 .. Timeout
  /\ since \in [Ids -> 0 .. Horizon]
  /\ shown \in [Readers -> SUBSET Ids]
  /\ faults \in 0 .. MaxFaults

\* A caller that has called nothing yet.
Quiet ==
  [ step |-> "idle", op |-> None, remote |-> FALSE, verdict |-> None,
    cut |-> None, outcome |-> None ]

Init ==
  /\ home = [i \in Ids |-> "none"]
  /\ local = [i \in Ids |-> NoRow]
  /\ peer = [i \in Ids |-> NoRow]
  /\ doomed = {}
  /\ call = [c \in Callers |-> Quiet]
  /\ late = {}
  /\ reader = [r \in Readers |-> [step |-> "idle", rows |-> {}]]
  /\ mu = NoReader
  /\ reply = {}
  /\ cached = {}
  /\ have = FALSE
  /\ cacheAge = 0
  /\ callAge = 0
  /\ since = [i \in Ids |-> 0]
  /\ shown = [r \in Readers |-> {}]
  /\ faults = 0

Fault == faults < MaxFaults /\ faults' = faults + 1

PushLocal(i, gate) ==
  /\ home[i] = "none"
  /\ home' = [home EXCEPT ![i] = "local"]
  /\ local' = [local EXCEPT ![i] = NewRow(gate)]
  /\ UNCHANGED <<peer, doomed, since, callVars, readVars, faults>>

PushPeer(i, gate) ==
  /\ home[i] = "none"
  /\ home' = [home EXCEPT ![i] = "peer"]
  /\ peer' = [peer EXCEPT ![i] = NewRow(gate)]
  /\ Touch(peer, peer')
  /\ UNCHANGED <<local, doomed, callVars, readVars, faults>>

\* The asker of i exits, or its deadline passes.
Doom(i) ==
  /\ home[i] # "none"
  /\ i \notin doomed
  /\ doomed' = doomed \cup {i}
  /\ UNCHANGED <<home, local, peer, since, callVars, readVars, faults>>

\* A caller of the peer's own board.
PeerDirect(op) ==
  /\ peer' = After(op, peer)
  /\ Touch(peer, peer')
  /\ UNCHANGED <<home, local, doomed, callVars, readVars, faults>>

\* A reader of the peer's own board.
PeerRead ==
  /\ peer # Pruned(peer)
  /\ peer' = Pruned(peer)
  /\ Touch(peer, peer')
  /\ UNCHANGED <<home, local, doomed, callVars, readVars, faults>>

\* The peer serves a call its client gave up on.
PeerLate(op) ==
  /\ op \in late
  /\ late' = late \ {op}
  /\ peer' = After(op, peer)
  /\ Touch(peer, peer')
  /\ UNCHANGED <<home, local, doomed, call, readVars, faults>>

-----------------------------------------------------------------------------
(* A call on the local board. *)

\* The handler itself refuses a blank flag reason.
Admitted(op) == op.kind = "flag" => op.valid

Submit(c, op) ==
  /\ call[c].step = "idle"
  /\ Admitted(op)
  /\ call' = [call EXCEPT ![c] = [Quiet EXCEPT !.step = "route", !.op = op]]
  /\ UNCHANGED <<storeVars, late, readVars, faults>>

\* The peer owns what the local store does not hold.
IsRemote(op) == local[op.id] = NoRow

Route(c) ==
  /\ call[c].step = "route"
  /\ call' = [call EXCEPT ![c].step = IF IsRemote(call[c].op) THEN "sent" ELSE "local",
                          ![c].remote = IsRemote(call[c].op)]
  /\ UNCHANGED <<storeVars, late, readVars, faults>>

\* A local read that fails any other way sends the call to the local store.
RouteBlind(c) ==
  /\ call[c].step = "route"
  /\ Fault
  /\ call' = [call EXCEPT ![c].step = "local"]
  /\ UNCHANGED <<storeVars, late, readVars>>

ActLocally(c) ==
  LET op == call[c].op
      v == Verdict(op, local[op.id])
  IN  /\ call[c].step = "local"
      /\ local' = After(op, local)
      /\ call' = [call EXCEPT ![c].step = "idle", ![c].verdict = v,
                              ![c].outcome = Coded(op.kind, v)]
      /\ UNCHANGED <<home, peer, doomed, since, late, readVars, faults>>

PeerServes(c) ==
  LET op == call[c].op
  IN  /\ call[c].step = "sent"
      /\ peer' = After(op, peer)
      /\ Touch(peer, peer')
      /\ call' = [call EXCEPT ![c].step = "served",
                              ![c].verdict = Verdict(op, peer[op.id])]
      /\ UNCHANGED <<home, local, doomed, late, readVars, faults>>

ReplyArrives(c) ==
  /\ call[c].step = "served"
  /\ call' = [call EXCEPT ![c].step = "idle",
                          ![c].outcome = Relayed(call[c].op.kind, call[c].verdict)]
  /\ UNCHANGED <<storeVars, late, readVars, faults>>

\* Defect: a call without an answer reads as a malformed request.
CutCodeUnclassified(kind, answer) == "VALIDATION_ERROR"

\* What the caller is told of a call no handler of the peer answered readably.
CutCode(kind, answer) == Coded(kind, Decoded(answer))

\* Whoever answers 404 in front of the handlers has not passed the call on.
CallCut(c, answer) ==
  /\ call[c].step \in {"sent", "served"}
  /\ answer # "lost" => call[c].step = "sent"
  /\ Fault
  /\ late' = IF answer = "late" THEN late \cup {call[c].op} ELSE late
  /\ call' = [call EXCEPT ![c].step = "idle", ![c].cut = answer,
                          ![c].outcome = CutCode(call[c].op.kind, answer)]
  /\ UNCHANGED <<storeVars, readVars>>

-----------------------------------------------------------------------------
(* A read of the local board. *)

\* A board read keeps the local answered rows, a plain read does not.
ReadLocal(r, answeredToo) ==
  /\ reader[r].step = "idle"
  /\ local' = Pruned(local)
  /\ reader' = [reader EXCEPT ![r] =
       [ step |-> "merge",
         rows |-> IF answeredToo THEN LiveIds(local') ELSE OpenIds(local') ]]
  /\ UNCHANGED <<home, peer, doomed, since, callVars, mu, reply, cached, have,
                 cacheAge, callAge, shown, faults>>

\* The peer's ids the local read does not hold are appended.
Merged(rows, remote) == rows \cup (remote \ rows)

Render(r, remote) ==
  /\ shown' = [shown EXCEPT ![r] = Merged(reader[r].rows, remote)]
  /\ reader' = [reader EXCEPT ![r] = [step |-> "idle", rows |-> {}]]

Fresh == have /\ cacheAge < Window

ServeCached(r) ==
  /\ reader[r].step = "merge"
  /\ mu = NoReader
  /\ Fresh
  /\ Render(r, cached)
  /\ UNCHANGED <<storeVars, callVars, mu, reply, cached, have, cacheAge,
                 callAge, faults>>

\* The mutex is held across the call.
AskPeer(r) ==
  /\ reader[r].step = "merge"
  /\ mu = NoReader
  /\ ~Fresh
  /\ mu' = r
  /\ callAge' = 0
  /\ reader' = [reader EXCEPT ![r].step = "asked"]
  /\ UNCHANGED <<storeVars, callVars, reply, cached, have, cacheAge, shown, faults>>

\* The peer's read removes what it leaves out.
PeerReads(r) ==
  /\ reader[r].step = "asked"
  /\ peer' = Pruned(peer)
  /\ Touch(peer, peer')
  /\ reply' = OpenIds(peer')
  /\ reader' = [reader EXCEPT ![r].step = "answered"]
  /\ UNCHANGED <<home, local, doomed, callVars, mu, cached, have, cacheAge,
                 callAge, shown, faults>>

PeerListed(r) ==
  /\ reader[r].step = "answered"
  /\ cached' = reply
  /\ have' = TRUE
  /\ cacheAge' = 0
  /\ mu' = NoReader
  /\ reply' = {}
  /\ callAge' = 0
  /\ Render(r, reply)
  /\ UNCHANGED <<storeVars, callVars, faults>>

\* Defect: the failed read is kept as one that listed nothing.
OutageCached ==
  /\ cached' = {}
  /\ have' = TRUE
  /\ cacheAge' = 0

\* Defect: the failed read leaves the mutex locked.
KeptLocked == UNCHANGED mu

\* The mutex is released whichever way the call ends.
Unlocked == mu' = NoReader

\* A failed read leaves the cache as it is.
OutageForgotten == UNCHANGED <<cached, have, cacheAge>>

PeerSilent(r) ==
  /\ reader[r].step \in {"asked", "answered"}
  /\ Fault
  /\ OutageForgotten
  /\ Unlocked
  /\ reply' = {}
  /\ callAge' = 0
  /\ Render(r, {})
  /\ UNCHANGED <<storeVars, callVars>>

-----------------------------------------------------------------------------
(* Time: the client cuts a call off before it is older than Timeout. *)

Saturated(n, bound) == IF n < bound THEN n + 1 ELSE bound

Tick ==
  /\ mu # NoReader => callAge < Timeout
  /\ callAge' = IF mu = NoReader THEN 0 ELSE callAge + 1
  /\ cacheAge' = Saturated(cacheAge, Window)
  /\ since' = [i \in Ids |-> Saturated(since[i], Horizon)]
  /\ UNCHANGED <<home, local, peer, doomed, callVars, reader, mu, reply, cached,
                 have, shown, faults>>

Read(r) ==
  \/ \E answeredToo \in BOOLEAN : ReadLocal(r, answeredToo)
  \/ ServeCached(r)
  \/ AskPeer(r)
  \/ PeerReads(r)
  \/ PeerListed(r)

Next ==
  \/ \E i \in Ids, gate \in Gates : PushLocal(i, gate) \/ PushPeer(i, gate)
  \/ \E i \in Ids : Doom(i)
  \/ \E op \in Ops : PeerDirect(op) \/ PeerLate(op)
  \/ PeerRead
  \/ \E c \in Callers, op \in Ops : Submit(c, op)
  \/ \E c \in Callers :
       \/ Route(c)
       \/ RouteBlind(c)
       \/ ActLocally(c)
       \/ PeerServes(c)
       \/ ReplyArrives(c)
       \/ \E answer \in Cuts : CallCut(c, answer)
  \/ \E r \in Readers : Read(r) \/ PeerSilent(r)
  \/ Tick

Spec == Init /\ [][Next]_vars

\* Boards are read for as long as pages and pollers are there, clocks move, and
\* Go's mutex passes over no one who waits for ever.
Fairness ==
  /\ \A r \in Readers : WF_vars(Read(r)) /\ SF_vars(ServeCached(r) \/ AskPeer(r))
  /\ WF_vars(Tick)

FairSpec == Spec /\ Fairness

-----------------------------------------------------------------------------
(* Properties. *)

Refusals == Codes \ {"OK", "PEER_UNAVAILABLE"}

\* What a caller is told is what happened: OK only when a store accepted the
\* call, a refusal only when the asked store refused it - or "not found" when
\* a bare 404 answered in the peer's place and no store was asked.  A lost or
\* late answer is never told as a refusal, which would invite no retry for a
\* call that may be, or may yet be, written.
ToldTheTruth ==
  \A c \in Callers : call[c].step = "idle" =>
    /\ call[c].outcome = "OK" => call[c].verdict = "ok"
    /\ call[c].outcome \in Refusals =>
         \/ call[c].verdict \in Errors
         \/ call[c].outcome = "NOT_FOUND" /\ call[c].cut = "404" /\ call[c].verdict = None

\* A refusal the peer's route names reaches the caller under the code the
\* peer's own callers get: losing a race, an ask that left the queue and a row
\* that is gone stay apart across the wire.
RefusalKeepsItsName ==
  \A c \in Callers :
    (/\ call[c].step = "idle"
     /\ call[c].outcome # None
     /\ call[c].cut = None
     /\ call[c].verdict \in Named[call[c].op.kind] \ {"InvalidSession"})
    => call[c].outcome = CodeOf[call[c].verdict]

Phase ==
  [i \in Ids |->
    LET row == IF home[i] = "local" THEN local[i] ELSE peer[i]
    IN  IF home[i] = "none" THEN "unused" ELSE IF row = NoRow THEN "gone" ELSE row.state]

VerdictOf ==
  [i \in Ids |->
    LET row == IF home[i] = "local" THEN local[i] ELSE peer[i]
    IN  IF row = NoRow THEN None ELSE row.decision]

Promise == INSTANCE AskLifecycle WITH phase <- Phase, verdict <- VerdictOf

\* Each ask has one life, at the host that drew it, whichever board its calls
\* come through: an answer is recorded once and its verdict is never replaced.
OneLife == Promise!Spec

\* A board whose read of the peer did not fail shows exactly the peer rows that
\* are in the queue, but for those that entered or left it within one cache
\* window and one call.
BoardWithinHorizon ==
  [][\A r \in Readers :
       (reader[r].step # "idle" /\ reader'[r].step = "idle" /\ faults' = faults) =>
         \A i \in Ids :
           (home[i] = "peer" /\ since[i] >= Horizon) =>
             (i \in shown'[r] <=> Open(peer[i]))]_vars

\* Once calls, askers and faults settle, every board shows the open rows of both
\* hosts and nothing that has left.
BoardConverges ==
  <>[](\A r \in Readers :
         /\ OpenIds(local) \cup OpenIds(peer) \subseteq shown[r]
         /\ shown[r] \subseteq LiveIds(local) \cup OpenIds(peer))

=============================================================================

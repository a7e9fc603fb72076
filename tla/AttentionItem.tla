--------------------------- MODULE AttentionItem ---------------------------
(***************************************************************************)
(* The attention item: the record the store keeps, the request a producer  *)
(* pushes, and the tests the store makes of one item.  Text is abstracted   *)
(* to members of small sets; the (producer_id, dedup_key) pair, which the  *)
(* store only ever uses together, is one member of Keys.                   *)
(***************************************************************************)
EXTENDS Integers

CONSTANTS
  Ids,            \* item ids the generator may draw
  Keys,           \* (producer_id, dedup_key) pairs
  Payloads,       \* what an item asks
  SessionRefs,    \* liveness refs probed in the session registry
  OwnerRefs,      \* liveness refs that are never probed
  HeartbeatRefs,  \* liveness refs probed by a file's modification time
  Arms,           \* answering arms (answered_by)
  Resolvers,      \* sessions that resolve (resolved_by) or escalate
  Decisions,      \* verdicts (allow, deny)
  Reasons,        \* flag texts
  Ratings,        \* operator ratings
  None,           \* the empty string
  NoItem,         \* the value under a key a bucket does not hold
  MaxTime         \* bound on the store's clock

Refs == SessionRefs \cup OwnerRefs \cup HeartbeatRefs

Times == 0 .. MaxTime

\* A nil timestamp pointer.
Never == -1

Stamps == Times \cup {Never}

Mechanisms == {"permission", "message", "ack"}

States == {"open", "answered", "closed"}

\* Transitions of the schema's table.
AvailableTransitions ==
  { <<"open", "answered">>, <<"open", "closed">>, <<"answered", "closed">> }

\* options says whether the item offers a choice; the labels do not matter here.
Item ==
  [ id : Ids, key : Keys, payload : Payloads, mechanism : Mechanisms,
    options : BOOLEAN, ref : Refs, createdAt : Times, expiresAt : Stamps,
    state : States, answeredAt : Stamps, answeredBy : Arms \cup {None},
    resolvedBy : Resolvers \cup {None}, decision : Decisions \cup {None},
    escalatedBy : Resolvers \cup {None}, escalatedAt : Stamps,
    flagReason : Reasons \cup {None}, rating : Ratings \cup {None} ]

Slot == Item \cup {NoItem}

PushRequest ==
  [ key : Keys, payload : Payloads, mechanism : Mechanisms,
    options : BOOLEAN, ref : Refs, expiresAt : Stamps ]

\* Options are a message item's alone.
ValidOptions(r) == r.options => r.mechanism = "message"

\* A fresh row; the store owns the id, the state, the times and the answer.
NewItem(id, q, t) ==
  [ id |-> id, key |-> q.key, payload |-> q.payload, mechanism |-> q.mechanism,
    options |-> q.options, ref |-> q.ref, createdAt |-> t,
    expiresAt |-> q.expiresAt, state |-> "open", answeredAt |-> Never,
    answeredBy |-> None, resolvedBy |-> None, decision |-> None,
    escalatedBy |-> None, escalatedAt |-> Never, flagReason |-> None,
    rating |-> None ]

IsOpen(s) == s # NoItem /\ s.state = "open"

IsAnswered(s) == s # NoItem /\ s.state = "answered"

\* Membership in the live index: anything the store holds that is not closed.
LiveWorthy(s) == s # NoItem /\ s.state # "closed"

\* A deadline that is exactly now has passed.
IsExpired(item, t) == item.expiresAt # Never /\ t >= item.expiresAt

\* A question, as opposed to a condition report.
IsAsked(item) == item.mechanism # "ack"

\* Two rows are one ask when producer, key and payload agree.
AskIdentity(item) == <<item.key, item.payload>>

=============================================================================

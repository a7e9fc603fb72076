------------------------------ MODULE VaultFile ------------------------------
(***************************************************************************)
(* What the task index reads out of a vault file.  A file is a sequence of   *)
(* lines, each reduced to what the hand-written reader tells apart:          *)
(*   fence    exactly ---                                                   *)
(*   key      key: value                                                    *)
(*   item     a line that starts with a dash; value is the title of its      *)
(*            wikilink, empty when it has none; key marks a                  *)
(*            production-touching checkbox                                   *)
(*   section  ## Goals          heading  any other line that starts with #   *)
(*   text     anything else                                                 *)
(***************************************************************************)
EXTENDS Sequences, FiniteSetsExt

LineKind == {"fence", "key", "item", "section", "heading", "text"}

SessionKey == "claude_session_id"
StatusKey == "status"
GoalsKey == "goals"

Line(kind, key, value) == [kind |-> kind, key |-> key, value |-> value]

File == Seq([kind : LineKind, key : STRING, value : STRING])

\* The places of the lines of f that are of one of these kinds.
Places(f, kinds) == {i \in DOMAIN f : f[i].kind \in kinds}

\* A dash starts an item and a fence alike.
StartsList(line) == line.kind \in {"item", "fence"}

\* The titles of the items among these lines.
Titles(lines) ==
  LET named == SelectSeq(lines, LAMBDA l : l.kind = "item" /\ l.value # "")
  IN [i \in DOMAIN named |-> named[i].value]

-----------------------------------------------------------------------------
(* Frontmatter *)

\* The lines between the first two fences; none when the block is not closed.
Block(f) ==
  LET fences == Places(f, {"fence"})
  IN IF Cardinality(fences) < 2 THEN <<>>
     ELSE SubSeq(f, Min(fences) + 1, Min(fences \ {Min(fences)}) - 1)

KeyPlaces(block, key) == {i \in Places(block, {"key"}) : block[i].key = key}

\* The first line with the key gives the value.
Value(f, key) ==
  LET block == Block(f)
      at == KeyPlaces(block, key)
  IN IF at = {} THEN "" ELSE block[Min(at)].value

\* The items that follow the key's line without a gap.
ListOf(f, key) ==
  LET block == Block(f)
      at == KeyPlaces(block, key)
      from == Min(at) + 1
      ends == {i \in from .. Len(block) : ~ StartsList(block[i])}
      to == IF ends = {} THEN Len(block) ELSE Min(ends) - 1
  IN IF at = {} \/ block[Min(at)].value = "[]" THEN <<>> ELSE SubSeq(block, from, to)

DeclaredGoals(f) == Titles(ListOf(f, GoalsKey))

IsTerminal(status) == status \in {"completed", "aborted"}

IsTouching(f) == \E i \in Places(f, {"item"}) : f[i].key = "production-touching"

\* What a task file says of itself.  Without a session it contributes nothing.
Parsed(f) ==
  [session |-> Value(f, SessionKey),
   terminal |-> IsTerminal(Value(f, StatusKey)),
   touching |-> IsTouching(f),
   declared |-> DeclaredGoals(f)]

-----------------------------------------------------------------------------
(* Topic pages *)

\* The section runs to the next heading of any depth.
SectionTitles(page) ==
  LET at == Places(page, {"section"})
      from == Min(at) + 1
      ends == {i \in Places(page, {"section", "heading"}) : i >= from}
      to == IF ends = {} THEN Len(page) ELSE Min(ends) - 1
  IN IF at = {} THEN <<>> ELSE Titles(SubSeq(page, from, to))

-----------------------------------------------------------------------------
(* Goals and topics of a task *)

ExistingGoals(declared, goals) == SelectSeq(declared, LAMBDA g : g \in goals)

\* The first declared goal that exists is the task's goal.
GoalOf(declared, goals) ==
  LET there == {i \in DOMAIN declared : declared[i] \in goals}
  IN IF there = {} THEN "" ELSE declared[Min(there)]

\* The first page, in the order of the directory, that lists the goal.
TopicOf(goal, pages) ==
  LET listing == {t \in DOMAIN pages :
                    \E i \in DOMAIN SectionTitles(pages[t]) : SectionTitles(pages[t])[i] = goal}
  IN IF listing = {} THEN 0 ELSE Min(listing)

\* Only a title that is a goal file gets a topic.
GoalTopics(goals, pages) == [g \in goals |-> TopicOf(g, pages)]

=============================================================================

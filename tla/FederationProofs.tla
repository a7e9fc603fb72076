-------------------------- MODULE FederationProofs --------------------------
(***************************************************************************)
(* What a caller of the local board is told, proved for any number of      *)
(* callers, readers, asks and faults.  The wire is a finite vocabulary, so *)
(* its lemmas are case analyses; the invariant says what a call's record   *)
(* holds at each step between being submitted and being answered.          *)
(*                                                                         *)
(* Then that the two hosts together implement AskLifecycle, row by row, and *)
(* that a rendered board is the peer's queue but for what changed within   *)
(* the window and a call.                                                  *)
(***************************************************************************)
EXTENDS Federation, TLAPS

Endings == (Errors \cup {"ok"}) \ {"PeerUnavailable"}

\* What a caller's record holds, step by step.
CallInv(c) ==
  LET k == call[c]
  IN  /\ k.step # "idle" => k.op \in Ops /\ k.outcome = None /\ k.cut = None
      /\ k.step \in {"route", "local", "sent"} => k.verdict = None
      /\ k.step = "served" => k.verdict \in Endings
      /\ (k.step = "idle" /\ k.outcome # None) =>
           /\ k.op \in Ops
           /\ k.cut \in {"lost", "late"} => k.outcome = "PEER_UNAVAILABLE"
           /\ k.cut = "404" => k.outcome = "NOT_FOUND" /\ k.verdict = None
           /\ k.cut = None =>
                /\ k.verdict \in Endings
                /\ \/ k.outcome = Coded(k.op.kind, k.verdict)
                   \/ k.outcome = Relayed(k.op.kind, k.verdict)

Inv == TypeOK /\ \A c \in Callers : CallInv(c)

-----------------------------------------------------------------------------
(* The wire. *)

\* A store's operation ends in one of its own errors or none.
LEMMA VerdictEnds ==
  ASSUME NEW op \in Op, NEW row \in Row \cup {NoRow}
  PROVE  Verdict(op, row) \in Endings
<1>1. CASE BadArgument(op)
  BY <1>1 DEF BadArgument, Verdict, Endings, Errors
<1>2. CASE ~BadArgument(op) /\ row = NoRow
  BY <1>2 DEF Verdict, Endings, Errors
<1>3. CASE ~BadArgument(op) /\ row # NoRow
  <2>1. row \in Row
    BY <1>3
  <2>2. AnswerVerdict(op, row) \in Endings
    BY <2>1 DEF AnswerVerdict, Endings, Errors, Row
  <2>3. CloseVerdict(op, row) \in Endings
    BY <2>1 DEF CloseVerdict, Endings, Errors, Row
  <2>4. EscalateVerdict(op, row) \in Endings
    BY <2>1 DEF EscalateVerdict, Endings, Errors, Row
  <2>5. op.kind \in Kinds
    BY DEF Op
  <2> QED
    BY <1>3, <2>2, <2>3, <2>4, <2>5 DEF Verdict, Kinds, Endings, Errors
<1> QED
  BY <1>1, <1>2, <1>3

\* A handler answers with a code, and with OK only when there was no error.
LEMMA CodedTypes ==
  ASSUME NEW kind \in Kinds, NEW err \in Errors \cup {"ok"}
  PROVE  /\ Coded(kind, err) \in Codes
         /\ Coded(kind, err) = "OK" <=> err = "ok"
         /\ err \in Named[kind] => Coded(kind, err) = CodeOf[err]
<1>1. \A e \in Named[kind] : e \in DOMAIN CodeOf /\ CodeOf[e] # "OK"
  BY DEF Named, Kinds, CodeOf
<1>2. "ok" \notin Named[kind]
  BY DEF Named, Kinds
<1> QED
  BY <1>1, <1>2 DEF Coded, Codes

\* Every route names an absent peer and a missing ask.
LEMMA CutsAlwaysNamed ==
  ASSUME NEW kind \in Kinds, NEW answer \in Cuts
  PROVE  /\ answer # "404" => CutCode(kind, answer) = "PEER_UNAVAILABLE"
         /\ answer = "404" => CutCode(kind, answer) = "NOT_FOUND"
<1>1. Decoded(answer) = IF answer = "404" THEN "NotFound" ELSE "PeerUnavailable"
  BY DEF Decoded, Restored, Cuts
<1> QED
  BY <1>1 DEF CutCode, Coded, Named, Kinds, CodeOf

\* A refusal a route names survives the way there and back.
LEMMA NamedSurvives ==
  ASSUME NEW kind \in Kinds, NEW err \in Named[kind] \ {"PeerUnavailable", "InvalidSession"}
  PROVE  Decoded(Coded(kind, err)) = err
<1>1. err \in {"NotFound", "AlreadyAnswered", "IllegalTransition", "PermissionClose",
              "AlreadyEscalated", "NotOpen", "ReasonRequired", "RatingInvalid"}
  BY DEF Named, Kinds
<1>2. Coded(kind, err) = CodeOf[err]
  BY <1>1 DEF Coded
<1>3. CodeOf[err] \in DOMAIN Restored /\ CodeOf[err] # "OK" /\ Restored[CodeOf[err]] = err
  BY <1>1 DEF CodeOf, Restored
<1> QED
  BY <1>2, <1>3 DEF Decoded

\* What is turned back is an error again, and OK stays OK.
LEMMA DecodedTypes ==
  ASSUME NEW code \in Codes
  PROVE  /\ Decoded(code) \in Errors \cup {"ok"}
         /\ Decoded(code) = "ok" <=> code = "OK"
<1>1. \A d \in DOMAIN Restored : Restored[d] \in Errors
  BY DEF Restored, Errors
<1>2. "ok" \notin Errors
  BY DEF Errors
<1> QED
  BY <1>1, <1>2 DEF Decoded, Errors

LEMMA RelayedTypes ==
  ASSUME NEW kind \in Kinds, NEW err \in Endings
  PROVE  /\ Relayed(kind, err) \in Codes
         /\ Relayed(kind, err) = "OK" <=> err = "ok"
         /\ err \in Named[kind] \ {"InvalidSession"} => Relayed(kind, err) = CodeOf[err]
<1>1. err \in Errors \cup {"ok"} /\ err # "PeerUnavailable"
  BY DEF Endings
<1>2. Coded(kind, err) \in Codes /\ (Coded(kind, err) = "OK" <=> err = "ok")
  BY <1>1, CodedTypes
<1>3. /\ Decoded(Coded(kind, err)) \in Errors \cup {"ok"}
      /\ Decoded(Coded(kind, err)) = "ok" <=> err = "ok"
  BY <1>2, DecodedTypes
<1>4. /\ Relayed(kind, err) \in Codes
      /\ Relayed(kind, err) = "OK" <=> err = "ok"
  BY <1>3, CodedTypes DEF Relayed
<1>5. ASSUME err \in Named[kind] \ {"InvalidSession"}
      PROVE  Relayed(kind, err) = CodeOf[err]
  <2>1. Decoded(Coded(kind, err)) = err
    BY <1>1, <1>5, NamedSurvives
  <2> QED
    BY <1>1, <1>5, <2>1, CodedTypes DEF Relayed
<1> QED
  BY <1>4, <1>5

-----------------------------------------------------------------------------
(* The stores. *)

LEMMA AppliedTypes ==
  ASSUME NEW op \in Op, NEW row \in Row
  PROVE  Applied(op, row) \in Row
<1>1. Answered(op, row) \in Row
  BY ZenonT(30) DEF Answered, Op, Row
<1>2. Closed(op, row) \in Row
  <2>1. CASE row.state = "open"
    BY <2>1 DEF Closed, Op, Row
  <2>2. CASE row.state # "open"
    BY <2>2, ZenonT(30) DEF Closed, Op, Row
  <2> QED
    BY <2>1, <2>2
<1>3. [row EXCEPT !.carrier = op.resolver] \in Row
  BY DEF Op, Row
<1>4. /\ [row EXCEPT !.flagged = TRUE] \in Row
      /\ [row EXCEPT !.flagged = FALSE] \in Row
  BY DEF Row
<1>5. [row EXCEPT !.rating = op.rating] \in Row
  BY DEF Op, Row
<1>6. op.kind \in Kinds
  BY DEF Op
<1> QED
  BY <1>1, <1>2, <1>3, <1>4, <1>5, <1>6 DEF Applied, Kinds

LEMMA AfterTypes ==
  ASSUME NEW op \in Op, NEW rows \in [Ids -> Row \cup {NoRow}]
  PROVE  After(op, rows) \in [Ids -> Row \cup {NoRow}]
<1>1. op.id \in Ids
  BY DEF Op
<1>2. CASE rows[op.id] = NoRow
  <2>1. Verdict(op, rows[op.id]) # "ok"
    BY <1>2 DEF Verdict, BadArgument
  <2> QED
    BY <2>1 DEF After
<1>3. CASE rows[op.id] # NoRow
  <2>1. Applied(op, rows[op.id]) \in Row
    BY <1>1, <1>3, AppliedTypes
  <2> QED
    BY <2>1 DEF After
<1> QED
  BY <1>2, <1>3

LEMMA PrunedTypes ==
  ASSUME NEW rows \in [Ids -> Row \cup {NoRow}]
  PROVE  /\ Pruned(rows) \in [Ids -> Row \cup {NoRow}]
         /\ OpenIds(rows) \subseteq Ids
         /\ LiveIds(rows) \subseteq Ids
BY DEF Pruned, OpenIds, LiveIds

LEMMA TouchTypes ==
  ASSUME NEW before, NEW after, since \in [Ids -> 0 .. Horizon], Touch(before, after)
  PROVE  since' \in [Ids -> 0 .. Horizon]
BY FederationAssumption DEF Touch, Horizon

LEMMA NewRowTypes ==
  ASSUME NEW gate \in Gates
  PROVE  NewRow(gate) \in Row
BY FederationAssumption DEF NewRow, Row

-----------------------------------------------------------------------------
(* The invariant. *)

LEMMA InitInv == Init => Inv
<1> SUFFICES ASSUME Init PROVE Inv
  OBVIOUS
<1>1. TypeOK
  <2>1. Quiet \in Call
    BY DEF Quiet, Call
  <2>2. call \in [Callers -> Call]
    BY <2>1 DEF Init
  <2>3. Horizon \in Nat
    BY FederationAssumption DEF Horizon
  <2>4. /\ cacheAge \in 0 .. Window
        /\ callAge \in 0 .. Timeout
        /\ since \in [Ids -> 0 .. Horizon]
        /\ faults \in 0 .. MaxFaults
    BY <2>3, FederationAssumption DEF Init
  <2> QED
    BY <2>2, <2>4 DEF Init, TypeOK
<1>2. \A c \in Callers : CallInv(c)
  BY DEF Init, Quiet, CallInv
<1> QED
  BY <1>1, <1>2 DEF Inv

\* The fields of an accepted call are what the store's lemmas ask for.
LEMMA OpTypes ==
  ASSUME NEW op \in Ops
  PROVE  op \in Op /\ op.kind \in Kinds /\ op.id \in Ids
BY FederationAssumption DEF Op

LEMMA EndingTypes ==
  /\ Endings \subseteq Errors \cup {"ok"}
  /\ None \notin Endings
  /\ None \notin Codes
BY EmptyAssumption DEF Endings

\* A store's step moves no caller.
LEMMA StoreSteps ==
  ASSUME Inv,
         \/ \E i \in Ids, gate \in Gates : PushLocal(i, gate) \/ PushPeer(i, gate)
         \/ \E i \in Ids : Doom(i)
         \/ \E op \in Ops : PeerDirect(op) \/ PeerLate(op)
         \/ PeerRead
  PROVE  TypeOK' /\ call' = call
<1> USE DEF Inv
<1>1. CASE \E i \in Ids, gate \in Gates : PushLocal(i, gate)
  BY <1>1, NewRowTypes DEF PushLocal, TypeOK, callVars, readVars
<1>2. CASE \E i \in Ids, gate \in Gates : PushPeer(i, gate)
  <2>1. /\ peer' \in [Ids -> Row \cup {NoRow}]
        /\ home' \in [Ids -> {"none", "local", "peer"}]
    BY <1>2, NewRowTypes DEF PushPeer, TypeOK
  <2>2. since' \in [Ids -> 0 .. Horizon]
    BY <1>2, TouchTypes DEF PushPeer, TypeOK
  <2> QED
    BY <1>2, <2>1, <2>2 DEF PushPeer, TypeOK, callVars, readVars
<1>3. CASE \E i \in Ids : Doom(i)
  BY <1>3 DEF Doom, TypeOK, callVars, readVars
<1>4. CASE \E op \in Ops : PeerDirect(op)
  <2>1. peer' \in [Ids -> Row \cup {NoRow}] /\ since' \in [Ids -> 0 .. Horizon]
    BY <1>4, AfterTypes, OpTypes, TouchTypes DEF PeerDirect, TypeOK
  <2> QED
    BY <1>4, <2>1 DEF PeerDirect, TypeOK, callVars, readVars
<1>5. CASE \E op \in Ops : PeerLate(op)
  <2>1. peer' \in [Ids -> Row \cup {NoRow}] /\ since' \in [Ids -> 0 .. Horizon]
    BY <1>5, AfterTypes, OpTypes, TouchTypes DEF PeerLate, TypeOK
  <2> QED
    BY <1>5, <2>1 DEF PeerLate, TypeOK, readVars
<1>6. CASE PeerRead
  <2>1. peer' \in [Ids -> Row \cup {NoRow}] /\ since' \in [Ids -> 0 .. Horizon]
    BY <1>6, PrunedTypes, TouchTypes DEF PeerRead, TypeOK
  <2> QED
    BY <1>6, <2>1 DEF PeerRead, TypeOK, callVars, readVars
<1> QED
  BY <1>1, <1>2, <1>3, <1>4, <1>5, <1>6

\* A reader's step moves no caller.
LEMMA ReadSteps ==
  ASSUME Inv, NEW r \in Readers, Read(r) \/ PeerSilent(r)
  PROVE  TypeOK' /\ call' = call
<1> USE DEF Inv
<1>t. /\ reader[r].rows \subseteq Ids
      /\ \A remote \in SUBSET Ids : Merged(reader[r].rows, remote) \subseteq Ids
  BY DEF TypeOK, Merged
<1>1. ASSUME NEW answeredToo \in BOOLEAN, ReadLocal(r, answeredToo)
      PROVE  TypeOK' /\ call' = call
  <2>1. local' \in [Ids -> Row \cup {NoRow}]
    BY <1>1, PrunedTypes DEF ReadLocal, TypeOK
  <2>2. LiveIds(local') \subseteq Ids /\ OpenIds(local') \subseteq Ids
    BY DEF LiveIds, OpenIds
  <2>3. reader' \in [Readers ->
          [step : {"idle", "merge", "asked", "answered"}, rows : SUBSET Ids]]
    BY <1>1, <2>2 DEF ReadLocal, TypeOK
  <2> QED
    BY <1>1, <2>1, <2>3 DEF ReadLocal, TypeOK, callVars
<1>2. CASE ServeCached(r)
  BY <1>2, <1>t DEF ServeCached, Render, TypeOK, storeVars, callVars
<1>3. CASE AskPeer(r)
  BY <1>3, FederationAssumption DEF AskPeer, TypeOK, storeVars, callVars
<1>4. CASE PeerReads(r)
  <2>1. peer' \in [Ids -> Row \cup {NoRow}] /\ since' \in [Ids -> 0 .. Horizon]
    BY <1>4, PrunedTypes, TouchTypes DEF PeerReads, TypeOK
  <2>2. reply' \subseteq Ids
    BY <1>4 DEF PeerReads, OpenIds
  <2> QED
    BY <1>4, <2>1, <2>2, SMTT(30) DEF PeerReads, TypeOK, callVars
<1>5. CASE PeerListed(r)
  BY <1>5, <1>t, FederationAssumption DEF PeerListed, Render, TypeOK, storeVars, callVars
<1>6. CASE PeerSilent(r)
  BY <1>6, <1>t, FederationAssumption
  DEF PeerSilent, Fault, OutageForgotten, Unlocked, Render, TypeOK, storeVars, callVars
<1> QED
  BY <1>1, <1>2, <1>3, <1>4, <1>5, <1>6 DEF Read

LEMMA TickStep ==
  ASSUME Inv, Tick
  PROVE  TypeOK' /\ call' = call
<1>1. /\ callAge' \in 0 .. Timeout
      /\ cacheAge' \in 0 .. Window
      /\ since' \in [Ids -> 0 .. Horizon]
  BY FederationAssumption DEF Inv, Tick, TypeOK, Saturated, Horizon
<1> QED
  BY <1>1 DEF Inv, Tick, TypeOK, callVars

-----------------------------------------------------------------------------
(* A caller's own steps. *)

LEMMA CallTypes ==
  ASSUME Inv, NEW c \in Callers,
         \/ \E op \in Ops : Submit(c, op)
         \/ Route(c)
         \/ RouteBlind(c)
         \/ ActLocally(c)
         \/ PeerServes(c)
         \/ ReplyArrives(c)
         \/ \E answer \in Cuts : CallCut(c, answer)
  PROVE  TypeOK'
<1> USE DEF Inv
<1>o. call[c].step # "idle" =>
        call[c].op \in Ops /\ call[c].op \in Op /\ call[c].op.kind \in Kinds
        /\ call[c].op.id \in Ids
  BY OpTypes DEF CallInv
<1>c. call \in [Callers -> Call] /\ call[c] \in Call
  BY DEF TypeOK
<1>1. CASE \E op \in Ops : Submit(c, op)
  <2>1. \A op \in Ops : [Quiet EXCEPT !.step = "route", !.op = op] \in Call
    BY DEF Quiet, Call
  <2>2. call' \in [Callers -> Call]
    BY <1>1, <1>c, <2>1 DEF Submit
  <2> QED
    BY <1>1, <2>2 DEF Submit, TypeOK, storeVars, readVars
<1>2. CASE Route(c)
  <2>1. IsRemote(call[c].op) \in BOOLEAN
    BY DEF IsRemote
  <2>2. call' \in [Callers -> Call]
    BY <1>2, <1>c, <2>1 DEF Route, Call
  <2> QED
    BY <1>2, <2>2 DEF Route, TypeOK, storeVars, readVars
<1>3. CASE RouteBlind(c)
  <2>1. call' \in [Callers -> Call]
    BY <1>3, <1>c DEF RouteBlind, Call
  <2> QED
    BY <1>3, <2>1, FederationAssumption
    DEF RouteBlind, Fault, TypeOK, storeVars, readVars
<1>4. CASE ActLocally(c)
  <2>1. call[c].op \in Op /\ call[c].op.kind \in Kinds /\ call[c].op.id \in Ids
    BY <1>4, <1>o DEF ActLocally
  <2>2. local' \in [Ids -> Row \cup {NoRow}]
    BY <1>4, <2>1, AfterTypes DEF ActLocally, TypeOK
  <2>3. Verdict(call[c].op, local[call[c].op.id]) \in Errors \cup {"ok"}
    BY <2>1, VerdictEnds, EndingTypes DEF TypeOK
  <2>4. Coded(call[c].op.kind, Verdict(call[c].op, local[call[c].op.id])) \in Codes
    BY <2>1, <2>3, CodedTypes
  <2>5. call' \in [Callers -> Call]
    BY <1>4, <1>c, <2>3, <2>4 DEF ActLocally, Call
  <2> QED
    BY <1>4, <2>2, <2>5 DEF ActLocally, TypeOK, readVars
<1>5. CASE PeerServes(c)
  <2>1. call[c].op \in Op /\ call[c].op.kind \in Kinds /\ call[c].op.id \in Ids
    BY <1>5, <1>o DEF PeerServes
  <2>2. peer' \in [Ids -> Row \cup {NoRow}] /\ since' \in [Ids -> 0 .. Horizon]
    BY <1>5, <2>1, AfterTypes, TouchTypes DEF PeerServes, TypeOK
  <2>3. Verdict(call[c].op, peer[call[c].op.id]) \in Errors \cup {"ok"}
    BY <2>1, VerdictEnds, EndingTypes DEF TypeOK
  <2>4. call' \in [Callers -> Call]
    BY <1>5, <1>c, <2>3 DEF PeerServes, Call
  <2> QED
    BY <1>5, <2>2, <2>4 DEF PeerServes, TypeOK, readVars
<1>6. CASE ReplyArrives(c)
  <2>1. call[c].op.kind \in Kinds /\ call[c].verdict \in Endings
    BY <1>6, <1>o DEF ReplyArrives, CallInv
  <2>2. Relayed(call[c].op.kind, call[c].verdict) \in Codes
    BY <2>1, RelayedTypes
  <2>3. call' \in [Callers -> Call]
    BY <1>6, <1>c, <2>2 DEF ReplyArrives, Call
  <2> QED
    BY <1>6, <2>3 DEF ReplyArrives, TypeOK, storeVars, readVars
<1>7. CASE \E answer \in Cuts : CallCut(c, answer)
  <2> PICK answer \in Cuts : CallCut(c, answer)
    BY <1>7
  <2>1. call[c].op \in Ops /\ call[c].op.kind \in Kinds
    BY <1>o DEF CallCut
  <2>2. CutCode(call[c].op.kind, answer) \in Codes
    BY <2>1, CutsAlwaysNamed DEF Codes, CodeOf
  <2>3. late' \subseteq Ops
    BY <2>1 DEF CallCut, TypeOK
  <2>a. call' = [call EXCEPT ![c].step = "idle", ![c].cut = answer,
                            ![c].outcome = CutCode(call[c].op.kind, answer)]
    BY DEF CallCut
  <2>4. call' \in [Callers -> Call]
    BY <1>c, <2>a, <2>2 DEF Call
  <2>5. faults' \in 0 .. MaxFaults
    <3>1. faults \in 0 .. MaxFaults
      BY DEF TypeOK
    <3>2. faults < MaxFaults /\ faults' = faults + 1
      BY DEF CallCut, Fault
    <3> QED
      BY <3>1, <3>2, FederationAssumption
  <2> QED
    BY <2>3, <2>4, <2>5
    DEF CallCut, TypeOK, storeVars, readVars
<1> QED
  BY <1>1, <1>2, <1>3, <1>4, <1>5, <1>6, <1>7

LEMMA CallSteps ==
  ASSUME Inv, NEW c \in Callers,
         \/ \E op \in Ops : Submit(c, op)
         \/ Route(c)
         \/ RouteBlind(c)
         \/ ActLocally(c)
         \/ PeerServes(c)
         \/ ReplyArrives(c)
         \/ \E answer \in Cuts : CallCut(c, answer)
  PROVE  /\ CallInv(c)'
         /\ \A d \in Callers \ {c} : call'[d] = call[d]
<1> USE DEF Inv
<1>o. call[c].step # "idle" =>
        call[c].op \in Ops /\ call[c].op \in Op /\ call[c].op.kind \in Kinds
        /\ call[c].op.id \in Ids
  BY OpTypes DEF CallInv
<1>d. /\ call \in [Callers -> Call]
      /\ CallInv(c)
  BY DEF TypeOK
<1>1. CASE \E op \in Ops : Submit(c, op)
  BY <1>1, <1>d, ZenonT(30) DEF Submit, Quiet, Call, CallInv
<1>2. CASE Route(c)
  BY <1>2, <1>d DEF Route, Call, CallInv
<1>3. CASE RouteBlind(c)
  BY <1>3, <1>d DEF RouteBlind, Call, CallInv
<1>4. CASE ActLocally(c)
  <2>1. Verdict(call[c].op, local[call[c].op.id]) \in Endings
    BY <1>4, <1>o, VerdictEnds DEF ActLocally, TypeOK
  <2>2. /\ call'[c].step = "idle" /\ call'[c].op = call[c].op /\ call'[c].cut = call[c].cut
        /\ call'[c].verdict = Verdict(call[c].op, local[call[c].op.id])
        /\ call'[c].outcome = Coded(call[c].op.kind, call'[c].verdict)
    BY <1>4, <1>d DEF ActLocally, Call
  <2>3. call[c].op \in Ops /\ call[c].cut = None
    BY <1>4, <1>d DEF ActLocally, CallInv
  <2>4. \A d \in Callers \ {c} : call'[d] = call[d]
    BY <1>4, <1>d DEF ActLocally
  <2> QED
    BY <2>1, <2>2, <2>3, <2>4, EmptyAssumption DEF CallInv, Cuts
<1>5. CASE PeerServes(c)
  <2>1. Verdict(call[c].op, peer[call[c].op.id]) \in Endings
    BY <1>5, <1>o, VerdictEnds DEF PeerServes, TypeOK
  <2> QED
    BY <1>5, <1>d, <2>1 DEF PeerServes, CallInv
<1>6. CASE ReplyArrives(c)
  <2>2. /\ call'[c].step = "idle" /\ call'[c].op = call[c].op /\ call'[c].cut = call[c].cut
        /\ call'[c].verdict = call[c].verdict
        /\ call'[c].outcome = Relayed(call[c].op.kind, call[c].verdict)
    BY <1>6, <1>d DEF ReplyArrives, Call
  <2>3. call[c].op \in Ops /\ call[c].cut = None /\ call[c].verdict \in Endings
    BY <1>6, <1>d DEF ReplyArrives, CallInv
  <2>4. \A d \in Callers \ {c} : call'[d] = call[d]
    BY <1>6, <1>d DEF ReplyArrives
  <2> QED
    BY <2>2, <2>3, <2>4, EmptyAssumption DEF CallInv, Cuts
<1>7. CASE \E answer \in Cuts : CallCut(c, answer)
  <2> PICK answer \in Cuts : CallCut(c, answer)
    BY <1>7
  <2>1. call[c].op \in Ops /\ call[c].op.kind \in Kinds /\ call[c].step \in {"sent", "served"}
    BY <1>o DEF CallCut
  <2>2. /\ answer # "404" => CutCode(call[c].op.kind, answer) = "PEER_UNAVAILABLE"
        /\ answer = "404" => CutCode(call[c].op.kind, answer) = "NOT_FOUND"
    BY <2>1, CutsAlwaysNamed
  <2>3. answer = "404" => call[c].verdict = None
    BY <1>d DEF CallCut, CallInv
  <2>4. answer # None
    BY EmptyAssumption
  <2>5. call' = [call EXCEPT ![c].step = "idle", ![c].cut = answer,
                            ![c].outcome = CutCode(call[c].op.kind, answer)]
    BY DEF CallCut
  <2> QED
    BY <1>d, <2>1, <2>2, <2>3, <2>4, <2>5 DEF CallInv, Cuts
<1> QED
  BY <1>1, <1>2, <1>3, <1>4, <1>5, <1>6, <1>7

\* The invariant holds in every state: callers are told of their own call only.
THEOREM FederationInvariance == Spec => []Inv
<1>1. Init => Inv
  BY InitInv
<1>2. Inv /\ [Next]_vars => Inv'
  <2> SUFFICES ASSUME Inv, [Next]_vars PROVE Inv'
    OBVIOUS
  <2>1. CASE UNCHANGED vars
    BY <2>1 DEF Inv, TypeOK, CallInv, vars, storeVars, callVars, readVars
  <2>2. ASSUME TypeOK', call' = call
        PROVE  Inv'
    BY <2>2 DEF Inv, CallInv
  <2>3. ASSUME NEW c \in Callers,
               \/ \E op \in Ops : Submit(c, op)
               \/ Route(c)
               \/ RouteBlind(c)
               \/ ActLocally(c)
               \/ PeerServes(c)
               \/ ReplyArrives(c)
               \/ \E answer \in Cuts : CallCut(c, answer)
        PROVE  Inv'
    <3>1. TypeOK'
      BY <2>3, CallTypes
    <3>2. CallInv(c)' /\ \A d \in Callers \ {c} : call'[d] = call[d]
      BY <2>3, CallSteps
    <3>3. \A d \in Callers \ {c} : CallInv(d)'
      BY <3>2 DEF Inv, CallInv
    <3> QED
      BY <3>1, <3>2, <3>3 DEF Inv
  <2>4. CASE Tick
    BY <2>2, <2>4, TickStep
  <2>5. CASE \E r \in Readers : Read(r) \/ PeerSilent(r)
    BY <2>2, <2>5, ReadSteps
  <2>6. CASE \/ \E i \in Ids, gate \in Gates : PushLocal(i, gate) \/ PushPeer(i, gate)
             \/ \E i \in Ids : Doom(i)
             \/ \E op \in Ops : PeerDirect(op) \/ PeerLate(op)
             \/ PeerRead
    BY <2>2, <2>6, StoreSteps
  <2> QED
    BY <2>1, <2>3, <2>4, <2>5, <2>6 DEF Next
<1> QED
  BY <1>1, <1>2, PTL DEF Spec

\* Every variable keeps its type, whatever the two hosts, the network and the
\* callers do.
THEOREM FederationTypes == Spec => []TypeOK
<1>1. Inv => TypeOK
  BY DEF Inv
<1> QED
  BY <1>1, FederationInvariance, PTL

\* OK is told only of a call a store accepted, a refusal only of one a store
\* refused or of one that a bare 404 kept from every store: a lost or late
\* answer is never told as a refusal.
THEOREM CallersToldTheTruth == Spec => []ToldTheTruth
<1>1. Inv => ToldTheTruth
  <2> SUFFICES ASSUME Inv, NEW c \in Callers, call[c].step = "idle"
               PROVE  /\ call[c].outcome = "OK" => call[c].verdict = "ok"
                      /\ call[c].outcome \in Refusals =>
                           \/ call[c].verdict \in Errors
                           \/ /\ call[c].outcome = "NOT_FOUND"
                              /\ call[c].cut = "404"
                              /\ call[c].verdict = None
    BY DEF ToldTheTruth
  <2>1. CASE call[c].outcome = None
    BY <2>1, EndingTypes DEF Refusals, Codes
  <2>2. CASE call[c].outcome # None /\ call[c].cut \in Cuts
    BY <2>2 DEF Inv, CallInv, Refusals, Cuts
  <2>3. CASE call[c].outcome # None /\ call[c].cut = None
    <3>1. /\ call[c].op.kind \in Kinds
          /\ call[c].verdict \in Endings
          /\ \/ call[c].outcome = Coded(call[c].op.kind, call[c].verdict)
             \/ call[c].outcome = Relayed(call[c].op.kind, call[c].verdict)
      BY <2>3, OpTypes DEF Inv, CallInv
    <3>2. call[c].outcome = "OK" <=> call[c].verdict = "ok"
      BY <3>1, CodedTypes, RelayedTypes, EndingTypes
    <3> QED
      BY <3>1, <3>2, EndingTypes DEF Refusals
  <2>4. call[c].cut \in Cuts \cup {None}
    BY DEF Inv, TypeOK, Call
  <2> QED
    BY <2>1, <2>2, <2>3, <2>4
<1> QED
  BY <1>1, FederationInvariance, PTL

\* A refusal the route names reaches the caller under the code the peer's own
\* callers get, whatever the route and whichever host owns the ask.
THEOREM RefusalsKeepTheirNames == Spec => []RefusalKeepsItsName
<1>1. Inv => RefusalKeepsItsName
  <2> SUFFICES ASSUME Inv, NEW c \in Callers, call[c].step = "idle",
                      call[c].outcome # None, call[c].cut = None,
                      call[c].verdict \in Named[call[c].op.kind] \ {"InvalidSession"}
               PROVE  call[c].outcome = CodeOf[call[c].verdict]
    BY DEF RefusalKeepsItsName
  <2>1. /\ call[c].op.kind \in Kinds
        /\ call[c].verdict \in Endings
        /\ \/ call[c].outcome = Coded(call[c].op.kind, call[c].verdict)
           \/ call[c].outcome = Relayed(call[c].op.kind, call[c].verdict)
    BY OpTypes DEF Inv, CallInv
  <2> QED
    BY <2>1, CodedTypes, RelayedTypes, EndingTypes
<1> QED
  BY <1>1, FederationInvariance, PTL

-----------------------------------------------------------------------------
(* One ask, one life. *)

\* An open ask carries no verdict, and a row lives at the host that drew its id.
OpenUndecided(rows) == \A i \in Ids : Open(rows[i]) => rows[i].decision = None

AtHome ==
  /\ \A i \in Ids : home[i] # "local" => local[i] = NoRow
  /\ \A i \in Ids : home[i] # "peer" => peer[i] = NoRow
  /\ OpenUndecided(local)
  /\ OpenUndecided(peer)

\* A row stays, is removed while open, or is rewritten: its state only goes
\* forward and its verdict is recorded once, by an answer.
Rewritten(before, after) ==
  /\ \/ after.state = before.state
     \/ <<before.state, after.state>> \in
          {<<"open", "answered">>, <<"open", "closed">>, <<"answered", "closed">>}
  /\ \/ after.decision = before.decision
     \/ before.decision = None /\ after.state = "answered" /\ after.decision \in Decisions

RowMoves(before, after) ==
  \/ after = before
  \/ Open(before) /\ after = NoRow
  \/ before # NoRow /\ after # NoRow /\ Rewritten(before, after)

RowsMove(before, after) == \A i \in Ids : RowMoves(before[i], after[i])

\* An accepted operation rewrites its row.
LEMMA AppliedMoves ==
  ASSUME NEW op \in Op, NEW row \in Row, Verdict(op, row) = "ok"
  PROVE  Rewritten(row, Applied(op, row))
<1>1. row # NoRow /\ row.state \in {"open", "answered", "closed"}
  BY FederationAssumption DEF Row
<1>2. op.kind \in Kinds /\ op.decision \in Decisions \cup {None}
  BY DEF Op
<1>3. ASSUME op.kind = "answer" PROVE Rewritten(row, Applied(op, row))
  <2>1. AnswerVerdict(op, row) = "ok"
    BY <1>1, <1>3 DEF Verdict, BadArgument
  <2>2. row.state # "closed"
    BY <2>1 DEF AnswerVerdict
  <2>3. /\ Answered(op, row).state = "answered"
        /\ Answered(op, row).decision = IF row.decision = None THEN op.decision ELSE row.decision
    BY ZenonT(30) DEF Answered, Row
  <2>4. Applied(op, row) = Answered(op, row)
    BY <1>3 DEF Applied
  <2>5. QED
    BY <1>1, <1>2, <2>2, <2>3, <2>4 DEF Rewritten
<1>4. ASSUME op.kind = "close" PROVE Rewritten(row, Applied(op, row))
  <2>1. CloseVerdict(op, row) = "ok"
    BY <1>1, <1>4 DEF Verdict, BadArgument
  <2>2. row.state # "closed"
    BY <2>1 DEF CloseVerdict
  <2>3. Closed(op, row).state = "closed" /\ Closed(op, row).decision = row.decision
    BY ZenonT(30) DEF Closed, Row
  <2>4. Applied(op, row) = Closed(op, row)
    BY <1>4 DEF Applied
  <2>5. QED
    BY <1>1, <2>2, <2>3, <2>4 DEF Rewritten
<1>5. ASSUME op.kind \in Kinds \ {"answer", "close"} PROVE Rewritten(row, Applied(op, row))
  <2>1. Applied(op, row).state = row.state /\ Applied(op, row).decision = row.decision
    BY <1>5 DEF Applied, Kinds, Row
  <2>2. QED
    BY <2>1 DEF Rewritten
<1>6. QED
  BY <1>2, <1>3, <1>4, <1>5

LEMMA AfterMoves ==
  ASSUME NEW op \in Op, NEW rows \in [Ids -> Row \cup {NoRow}]
  PROVE  RowsMove(rows, After(op, rows))
<1>1. op.id \in Ids
  BY DEF Op
<1>2. CASE Verdict(op, rows[op.id]) # "ok"
  BY <1>2 DEF After, RowsMove, RowMoves
<1>3. CASE Verdict(op, rows[op.id]) = "ok"
  <2>1. rows[op.id] \in Row /\ rows[op.id] # NoRow
    BY <1>1, <1>3, FederationAssumption DEF Verdict, BadArgument
  <2>2. Applied(op, rows[op.id]) \in Row /\ Rewritten(rows[op.id], Applied(op, rows[op.id]))
    BY <1>3, <2>1, AppliedTypes, AppliedMoves
  <2>3. Applied(op, rows[op.id]) # NoRow
    BY <2>2, FederationAssumption
  <2>4. \A i \in Ids :
          After(op, rows)[i] = IF i = op.id THEN Applied(op, rows[op.id]) ELSE rows[i]
    BY <1>3 DEF After
  <2>5. QED
    BY <2>1, <2>2, <2>3, <2>4 DEF RowsMove, RowMoves
<1>4. QED
  BY <1>2, <1>3

LEMMA PrunedMoves ==
  ASSUME NEW rows \in [Ids -> Row \cup {NoRow}]
  PROVE  RowsMove(rows, Pruned(rows))
BY DEF RowsMove, RowMoves, Pruned

LEMMA RowsRest ==
  ASSUME NEW rows
  PROVE  RowsMove(rows, rows)
BY DEF RowsMove, RowMoves

\* What any step but a push does to the two stores.
StoresMove == home' = home /\ RowsMove(local, local') /\ RowsMove(peer, peer')

LEMMA StepsMove ==
  ASSUME Inv, [Next]_vars,
         ~ \E i \in Ids, gate \in Gates : PushLocal(i, gate) \/ PushPeer(i, gate)
  PROVE  StoresMove
<1> USE DEF Inv
<1>1. /\ local \in [Ids -> Row \cup {NoRow}]
      /\ peer \in [Ids -> Row \cup {NoRow}]
  BY DEF TypeOK
<1>2. CASE UNCHANGED storeVars
  BY <1>2, RowsRest DEF storeVars, StoresMove
<1>3. ASSUME NEW op \in Ops, home' = home /\ local' = local /\ peer' = After(op, peer)
      PROVE  StoresMove
  BY <1>1, <1>3, OpTypes, AfterMoves, RowsRest DEF StoresMove
<1>4. ASSUME home' = home /\ local' = local /\ peer' = Pruned(peer) PROVE StoresMove
  BY <1>1, <1>4, PrunedMoves, RowsRest DEF StoresMove
<1>5. ASSUME NEW c \in Callers, call[c].step # "idle" PROVE call[c].op \in Ops
  BY <1>5 DEF CallInv
<1>6. CASE \E i \in Ids : Doom(i)
  BY <1>6, RowsRest DEF Doom, StoresMove
<1>7. CASE \E op \in Ops : PeerDirect(op) \/ PeerLate(op)
  BY <1>3, <1>7 DEF PeerDirect, PeerLate
<1>8. CASE PeerRead
  BY <1>4, <1>8 DEF PeerRead
<1>9. CASE \E c \in Callers, op \in Ops : Submit(c, op)
  BY <1>2, <1>9 DEF Submit
<1>10. ASSUME NEW c \in Callers,
              \/ Route(c)
              \/ RouteBlind(c)
              \/ ReplyArrives(c)
              \/ \E answer \in Cuts : CallCut(c, answer)
       PROVE  StoresMove
  BY <1>2, <1>10 DEF Route, RouteBlind, ReplyArrives, CallCut
<1>11. ASSUME NEW c \in Callers, ActLocally(c) PROVE StoresMove
  <2>1. home' = home /\ peer' = peer /\ local' = After(call[c].op, local)
    BY <1>11 DEF ActLocally
  <2>2. call[c].op \in Op
    BY <1>5, <1>11, OpTypes DEF ActLocally
  <2>3. QED
    BY <1>1, <2>1, <2>2, AfterMoves, RowsRest DEF StoresMove
<1>12. ASSUME NEW c \in Callers, PeerServes(c) PROVE StoresMove
  BY <1>3, <1>5, <1>12 DEF PeerServes
<1>13. ASSUME NEW r \in Readers, Read(r) \/ PeerSilent(r) PROVE StoresMove
  <2>1. CASE \E answeredToo \in BOOLEAN : ReadLocal(r, answeredToo)
    BY <1>1, <2>1, PrunedMoves, RowsRest DEF ReadLocal, StoresMove
  <2>2. CASE PeerReads(r)
    BY <1>4, <2>2 DEF PeerReads
  <2>3. CASE ServeCached(r) \/ AskPeer(r) \/ PeerListed(r) \/ PeerSilent(r)
    BY <1>2, <2>3 DEF ServeCached, AskPeer, PeerListed, PeerSilent
  <2>4. QED
    BY <1>13, <2>1, <2>2, <2>3 DEF Read
<1>14. CASE Tick
  BY <1>14, RowsRest DEF Tick, StoresMove
<1>15. CASE UNCHANGED vars
  BY <1>2, <1>15 DEF vars
<1>16. QED
  BY <1>6, <1>7, <1>8, <1>9, <1>10, <1>11, <1>12, <1>13, <1>14, <1>15 DEF Next

\* Moving rows keeps open asks undecided and puts no row where there was none.
LEMMA MovesKeep ==
  ASSUME NEW before, NEW after, RowsMove(before, after), OpenUndecided(before)
  PROVE  /\ OpenUndecided(after)
         /\ \A i \in Ids : before[i] = NoRow => after[i] = NoRow
<1>1. ASSUME NEW i \in Ids, Open(after[i]) PROVE after[i].decision = None
  <2>1. RowMoves(before[i], after[i])
    BY DEF RowsMove
  <2>2. CASE after[i] = before[i]
    BY <1>1, <2>2 DEF OpenUndecided
  <2>3. CASE before[i] # NoRow /\ after[i] # NoRow /\ Rewritten(before[i], after[i])
    BY <1>1, <2>3 DEF OpenUndecided, Rewritten, Open
  <2>4. QED
    BY <1>1, <2>1, <2>2, <2>3 DEF RowMoves, Open
<1>2. QED
  BY <1>1 DEF OpenUndecided, RowsMove, RowMoves

\* A push puts an open, undecided row where there was none.
LEMMA PushedRow ==
  ASSUME NEW rows \in [Ids -> Row \cup {NoRow}], NEW i \in Ids, NEW gate \in Gates,
         OpenUndecided(rows)
  PROVE  LET new == [rows EXCEPT ![i] = NewRow(gate)]
         IN  /\ OpenUndecided(new)
             /\ new[i] # NoRow /\ new[i].state = "open" /\ new[i].decision = None
             /\ \A j \in Ids \ {i} : new[j] = rows[j]
<1>1. NewRow(gate).state = "open" /\ NewRow(gate).decision = None
  BY DEF NewRow
<1>2. NewRow(gate) # NoRow
  BY NewRowTypes, FederationAssumption
<1> DEFINE new == [rows EXCEPT ![i] = NewRow(gate)]
<1>3. \A j \in Ids : new[j] = IF j = i THEN NewRow(gate) ELSE rows[j]
  OBVIOUS
<1> HIDE DEF new
<1>4. OpenUndecided(new)
  BY <1>1, <1>3 DEF OpenUndecided
<1>5. QED
  BY <1>1, <1>2, <1>3, <1>4 DEF new

LEMMA NextAtHome == Inv /\ AtHome /\ [Next]_vars => AtHome'
<1> SUFFICES ASSUME Inv, AtHome, [Next]_vars PROVE AtHome'
  OBVIOUS
<1>1. /\ local \in [Ids -> Row \cup {NoRow}]
      /\ peer \in [Ids -> Row \cup {NoRow}]
      /\ home \in [Ids -> {"none", "local", "peer"}]
  BY DEF Inv, TypeOK
<1>2. CASE ~ \E i \in Ids, gate \in Gates : PushLocal(i, gate) \/ PushPeer(i, gate)
  <2>1. StoresMove
    BY <1>2, StepsMove
  <2>2. /\ OpenUndecided(local') /\ \A i \in Ids : local[i] = NoRow => local'[i] = NoRow
        /\ OpenUndecided(peer') /\ \A i \in Ids : peer[i] = NoRow => peer'[i] = NoRow
    BY <2>1, MovesKeep DEF AtHome, StoresMove
  <2>3. QED
    BY <2>1, <2>2 DEF AtHome, StoresMove, OpenUndecided
<1>3. ASSUME NEW i \in Ids, NEW gate \in Gates, PushLocal(i, gate) PROVE AtHome'
  <2>1. /\ local' = [local EXCEPT ![i] = NewRow(gate)]
        /\ peer' = peer /\ home' = [home EXCEPT ![i] = "local"] /\ home[i] = "none"
    BY <1>3 DEF PushLocal
  <2>2. OpenUndecided(local') /\ \A j \in Ids \ {i} : local'[j] = local[j]
    BY <1>1, <2>1, PushedRow DEF AtHome
  <2>3. QED
    BY <1>1, <2>1, <2>2 DEF AtHome, OpenUndecided
<1>4. ASSUME NEW i \in Ids, NEW gate \in Gates, PushPeer(i, gate) PROVE AtHome'
  <2>1. /\ peer' = [peer EXCEPT ![i] = NewRow(gate)]
        /\ local' = local /\ home' = [home EXCEPT ![i] = "peer"] /\ home[i] = "none"
    BY <1>4 DEF PushPeer
  <2>2. OpenUndecided(peer') /\ \A j \in Ids \ {i} : peer'[j] = peer[j]
    BY <1>1, <2>1, PushedRow DEF AtHome
  <2>3. QED
    BY <1>1, <2>1, <2>2 DEF AtHome, OpenUndecided
<1>5. QED
  BY <1>2, <1>3, <1>4
\* The row of an ask, at the host that drew it.
HomeRow(i) == IF home[i] = "local" THEN local[i] ELSE peer[i]

\* A row that moves makes a move of the abstract ask.
LEMMA RowMoveImplements ==
  ASSUME Inv, Inv', AtHome, StoresMove, NEW i \in Ids
  PROVE  /\ Phase'[i] = Phase[i] \/ <<Phase[i], Phase'[i]>> \in Promise!Moves
         /\ \/ VerdictOf'[i] = VerdictOf[i]
            \/ /\ VerdictOf[i] = None
               /\ Phase'[i] = "answered"
               /\ VerdictOf'[i] \in Decisions
<1> DEFINE before == HomeRow(i)
           after == HomeRow(i)'
<1>1. /\ Phase[i] = IF home[i] = "none" THEN "unused"
                    ELSE IF before = NoRow THEN "gone" ELSE before.state
      /\ VerdictOf[i] = IF before = NoRow THEN None ELSE before.decision
      /\ Phase'[i] = IF home'[i] = "none" THEN "unused"
                     ELSE IF after = NoRow THEN "gone" ELSE after.state
      /\ VerdictOf'[i] = IF after = NoRow THEN None ELSE after.decision
  BY DEF Phase, VerdictOf, HomeRow
<1>2. home' = home /\ RowMoves(before, after)
  BY DEF StoresMove, RowsMove, HomeRow
<1>3. home[i] = "none" => before = NoRow
  BY DEF AtHome, HomeRow
<1>4. Open(before) => before.decision = None
  BY DEF AtHome, OpenUndecided, HomeRow
<1> HIDE DEF before, after
<1>5. CASE after = before
  BY <1>1, <1>2, <1>5
<1>6. CASE Open(before) /\ after = NoRow
  BY <1>1, <1>2, <1>3, <1>4, <1>6 DEF Open, Promise!Moves
<1>7. CASE before # NoRow /\ after # NoRow /\ Rewritten(before, after)
  BY <1>1, <1>2, <1>3, <1>7 DEF Rewritten, Promise!Moves
<1>8. QED
  BY <1>2, <1>5, <1>6, <1>7 DEF RowMoves

\* A push opens an ask whose id was unused, and moves no other.
LEMMA PushImplements ==
  ASSUME Inv, AtHome, NEW j \in Ids, NEW gate \in Gates,
         PushLocal(j, gate) \/ PushPeer(j, gate), NEW i \in Ids
  PROVE  /\ Phase'[i] = Phase[i] \/ <<Phase[i], Phase'[i]>> \in Promise!Moves
         /\ VerdictOf'[i] = VerdictOf[i]
<1>1. /\ local \in [Ids -> Row \cup {NoRow}]
      /\ peer \in [Ids -> Row \cup {NoRow}]
      /\ home \in [Ids -> {"none", "local", "peer"}]
  BY DEF Inv, TypeOK
<1>2. home[j] = "none" /\ local[j] = NoRow /\ peer[j] = NoRow
  BY DEF PushLocal, PushPeer, AtHome
<1>3. \/ /\ home' = [home EXCEPT ![j] = "local"] /\ peer' = peer
         /\ local' = [local EXCEPT ![j] = NewRow(gate)]
      \/ /\ home' = [home EXCEPT ![j] = "peer"] /\ local' = local
         /\ peer' = [peer EXCEPT ![j] = NewRow(gate)]
  BY DEF PushLocal, PushPeer
<1>4. NewRow(gate) # NoRow /\ NewRow(gate).state = "open" /\ NewRow(gate).decision = None
  BY NewRowTypes, FederationAssumption DEF NewRow
<1>5. CASE i = j
  <2>1. Phase[i] = "unused" /\ VerdictOf[i] = None
    BY <1>2, <1>5 DEF Phase, VerdictOf
  <2>2. HomeRow(i)' = NewRow(gate) /\ home'[i] # "none"
    BY <1>1, <1>3, <1>5 DEF HomeRow
  <2>3. Phase'[i] = "open" /\ VerdictOf'[i] = None
    BY <1>4, <2>2 DEF Phase, VerdictOf, HomeRow
  <2>4. QED
    BY <2>1, <2>3 DEF Promise!Moves
<1>6. CASE i # j
  <2>1. home'[i] = home[i] /\ local'[i] = local[i] /\ peer'[i] = peer[i]
    BY <1>1, <1>3, <1>6
  <2>2. QED
    BY <2>1 DEF Phase, VerdictOf
<1>7. QED
  BY <1>5, <1>6

\* Whichever board a call comes through, and whatever is lost on the way, each
\* ask has one life at the host that drew it: the two stores and everything
\* between them are steps of AskLifecycle or none.
THEOREM AsksHaveOneLife == Spec => OneLife
<1>1. Init => AtHome
  BY DEF Init, AtHome, OpenUndecided, Open
<1>2. Spec => []AtHome
  BY <1>1, NextAtHome, FederationInvariance, PTL DEF Spec
<1>3. Init => Promise!Init
  BY DEF Init, Promise!Init, Phase, VerdictOf
<1>4. ASSUME Inv, Inv', AtHome, [Next]_vars
      PROVE  [Promise!Next]_<<Phase, VerdictOf>>
  <2>1. /\ Phase' \in [Ids -> Promise!Phases]
        /\ VerdictOf' \in [Ids -> Decisions \cup {None}]
    <3>1. /\ local' \in [Ids -> Row \cup {NoRow}]
          /\ peer' \in [Ids -> Row \cup {NoRow}]
      BY <1>4 DEF Inv, TypeOK
    <3>2. ASSUME NEW i \in Ids
          PROVE  /\ Phase'[i] \in Promise!Phases
                 /\ VerdictOf'[i] \in Decisions \cup {None}
      BY <3>1 DEF Phase, VerdictOf, Promise!Phases, Row
    <3>3. QED
      BY <3>2 DEF Phase, VerdictOf
  <2>2. ASSUME NEW i \in Ids
        PROVE  /\ Phase'[i] = Phase[i] \/ <<Phase[i], Phase'[i]>> \in Promise!Moves
               /\ \/ VerdictOf'[i] = VerdictOf[i]
                  \/ /\ VerdictOf[i] = None
                     /\ Phase'[i] = "answered"
                     /\ VerdictOf'[i] \in Decisions
    BY <1>4, StepsMove, RowMoveImplements, PushImplements
  <2>3. QED
    BY <2>1, <2>2 DEF Promise!Next, Promise!Settles
<1>5. Inv /\ Inv' /\ AtHome /\ [Next]_vars => [Promise!Next]_<<Phase, VerdictOf>>
  BY <1>4
<1>6. QED
  BY <1>2, <1>3, <1>5, FederationInvariance, PTL DEF Spec, OneLife, Promise!Spec

-----------------------------------------------------------------------------
(* What a board shows of the peer. *)

\* listed is exact but for what entered or left the queue no more than age ago.
ListedSince(listed, age) ==
  \A i \in Ids : since[i] > age => (i \in listed <=> Open(peer[i]))

\* The outstanding read's answer is no older than the read, and the cache no older
\* than its age and the longest a call takes.
BoardInv ==
  /\ \A r \in Readers :
       /\ reader[r].step \in {"asked", "answered"} <=> mu = r
       /\ reader[r].rows \subseteq {i \in Ids : home[i] = "local"}
       /\ reader[r].step = "answered" => ListedSince(reply, callAge)
  /\ have /\ cacheAge < Window => ListedSince(cached, cacheAge + Timeout)

LEMMA AgeTypes ==
  ASSUME TypeOK
  PROVE  /\ Window \in Nat /\ Timeout \in Nat
         /\ cacheAge \in Nat /\ cacheAge <= Window
         /\ callAge \in Nat /\ callAge <= Timeout
         /\ \A i \in Ids : since[i] \in Nat /\ since[i] <= Window + Timeout
BY FederationAssumption DEF TypeOK, Horizon

\* A peer row that changes is too young to be spoken of.
LEMMA TouchedSince ==
  ASSUME TypeOK, Touch(peer, peer'), NEW listed, NEW age \in Nat, ListedSince(listed, age)
  PROVE  \A i \in Ids : since'[i] > age => (i \in listed <=> Open(peer'[i]))
<1>1. ASSUME NEW i \in Ids, since'[i] > age PROVE i \in listed <=> Open(peer'[i])
  <2>1. since'[i] = IF Open(peer[i]) # Open(peer'[i]) THEN 0 ELSE since[i]
    BY DEF Touch
  <2>2. Open(peer[i]) = Open(peer'[i]) /\ since[i] > age
    BY <1>1, <2>1
  <2>3. QED
    BY <2>2 DEF ListedSince
<1>2. QED
  BY <1>1

\* The peer's queue may change under a read and under the cache.
LEMMA PeerKeepsBoard ==
  ASSUME Inv, BoardInv, Touch(peer, peer'), UNCHANGED <<home, readVars>>
  PROVE  BoardInv'
<1>1. TypeOK /\ callAge \in Nat /\ cacheAge + Timeout \in Nat
  BY AgeTypes DEF Inv
<1>2. \A r \in Readers : reader[r].step = "answered" => ListedSince(reply, callAge)'
  BY <1>1, TouchedSince DEF BoardInv, ListedSince, readVars
<1>3. have /\ cacheAge < Window => ListedSince(cached, cacheAge + Timeout)'
  BY <1>1, TouchedSince DEF BoardInv, ListedSince, readVars
<1>4. QED
  BY <1>2, <1>3 DEF BoardInv, readVars

\* What leaves the peer's queue alone leaves the boards alone.
LEMMA RestKeepsBoard ==
  ASSUME BoardInv, UNCHANGED <<peer, since, readVars>>,
         \A i \in Ids : home[i] = "local" => home'[i] = "local"
  PROVE  BoardInv'
BY DEF BoardInv, ListedSince, readVars

LEMMA StoresKeepBoard ==
  ASSUME Inv, BoardInv,
         \/ \E i \in Ids, gate \in Gates : PushLocal(i, gate) \/ PushPeer(i, gate)
         \/ \E i \in Ids : Doom(i)
         \/ \E op \in Ops : PeerDirect(op) \/ PeerLate(op)
         \/ PeerRead
  PROVE  BoardInv'
<1>1. home \in [Ids -> {"none", "local", "peer"}]
  BY DEF Inv, TypeOK
<1>2. ASSUME NEW i \in Ids, NEW gate \in Gates, PushLocal(i, gate) PROVE BoardInv'
  BY <1>1, <1>2, RestKeepsBoard DEF PushLocal
<1>3. ASSUME NEW i \in Ids, NEW gate \in Gates, PushPeer(i, gate) PROVE BoardInv'
  <2>1. Touch(peer, peer') /\ UNCHANGED readVars /\ home[i] = "none"
        /\ home' = [home EXCEPT ![i] = "peer"]
    BY <1>3 DEF PushPeer
  <2>2. \A j \in Ids : home[j] = "local" => home'[j] = "local"
    BY <1>1, <2>1
  <2>3. TypeOK /\ callAge \in Nat /\ cacheAge + Timeout \in Nat
    BY AgeTypes DEF Inv
  <2>4. \A r \in Readers : reader[r].step = "answered" => ListedSince(reply, callAge)'
    BY <2>1, <2>3, TouchedSince DEF BoardInv, ListedSince, readVars
  <2>5. have /\ cacheAge < Window => ListedSince(cached, cacheAge + Timeout)'
    BY <2>1, <2>3, TouchedSince DEF BoardInv, ListedSince, readVars
  <2>6. QED
    BY <2>1, <2>2, <2>4, <2>5 DEF BoardInv, readVars
<1>4. CASE \E i \in Ids : Doom(i)
  BY <1>4, RestKeepsBoard DEF Doom
<1>5. CASE \E op \in Ops : PeerDirect(op) \/ PeerLate(op)
  BY <1>5, PeerKeepsBoard DEF PeerDirect, PeerLate
<1>6. CASE PeerRead
  BY <1>6, PeerKeepsBoard DEF PeerRead
<1>7. QED
  BY <1>2, <1>3, <1>4, <1>5, <1>6

LEMMA CallsKeepBoard ==
  ASSUME Inv, BoardInv, NEW c \in Callers,
         \/ \E op \in Ops : Submit(c, op)
         \/ Route(c)
         \/ RouteBlind(c)
         \/ ActLocally(c)
         \/ PeerServes(c)
         \/ ReplyArrives(c)
         \/ \E answer \in Cuts : CallCut(c, answer)
  PROVE  BoardInv'
<1>1. CASE PeerServes(c)
  BY <1>1, PeerKeepsBoard DEF PeerServes
<1>2. CASE ActLocally(c)
  BY <1>2, RestKeepsBoard DEF ActLocally
<1>3. CASE \/ \E op \in Ops : Submit(c, op)
           \/ Route(c)
           \/ RouteBlind(c)
           \/ ReplyArrives(c)
           \/ \E answer \in Cuts : CallCut(c, answer)
  <2>1. UNCHANGED <<storeVars, readVars>>
    BY <1>3 DEF Submit, Route, RouteBlind, ReplyArrives, CallCut
  <2>2. QED
    BY <2>1, RestKeepsBoard DEF storeVars
<1>4. QED
  BY <1>1, <1>2, <1>3

\* Everything that is spoken of grows older by the same tick.
LEMMA TickKeepsBoard ==
  ASSUME Inv, BoardInv, Tick
  PROVE  BoardInv'
<1> DEFINE Older(listed, age) ==
             \A i \in Ids : since'[i] > age + 1 => (i \in listed <=> Open(peer[i]))
<1>1. /\ Window \in Nat /\ Timeout \in Nat /\ cacheAge \in Nat /\ callAge \in Nat
      /\ \A i \in Ids : since[i] \in Nat /\ since[i] <= Window + Timeout
  BY AgeTypes DEF Inv
<1>2. UNCHANGED <<home, peer, reader, mu, reply, cached, have>>
  BY DEF Tick
<1>3. ASSUME NEW listed, NEW age \in Nat, ListedSince(listed, age),
             age + 1 <= Window + Timeout
      PROVE  Older(listed, age)
  <2>1. ASSUME NEW i \in Ids, since'[i] > age + 1 PROVE since[i] > age
    BY <1>1, <1>3, <2>1 DEF Tick, Saturated, Horizon
  <2>2. QED
    BY <1>3, <2>1 DEF ListedSince
<1>4. ASSUME NEW r \in Readers, reader'[r].step = "answered"
      PROVE  ListedSince(reply, callAge)'
  <2>1. mu = r /\ mu # NoReader /\ ListedSince(reply, callAge)
    BY <1>2, <1>4, FederationAssumption DEF BoardInv
  <2>2. callAge < Timeout /\ callAge' = callAge + 1
    BY <2>1 DEF Tick
  <2>3. Older(reply, callAge)
    BY <1>1, <1>3, <2>1, <2>2
  <2>4. QED
    BY <1>2, <2>2, <2>3 DEF ListedSince
<1>5. ASSUME have', cacheAge' < Window
      PROVE  ListedSince(cached, cacheAge + Timeout)'
  <2>1. have /\ cacheAge < Window /\ cacheAge' = cacheAge + 1
    BY <1>1, <1>2, <1>5 DEF Tick, Saturated
  <2>2. Older(cached, cacheAge + Timeout)
    BY <1>1, <1>3, <1>5, <2>1 DEF BoardInv
  <2>3. \A i \in Ids : since'[i] \in Nat
    BY <1>1 DEF Tick, Saturated, Horizon
  <2>4. cacheAge' + Timeout = (cacheAge + Timeout) + 1
    BY <1>1, <2>1
  <2>5. QED
    BY <1>2, <2>2, <2>4 DEF ListedSince
<1>6. QED
  BY <1>2, <1>4, <1>5 DEF BoardInv

\* Only the reader whose step it is moves, and holds the mutex while the peer is
\* asked.
LEMMA ReadsKeepBoard ==
  ASSUME Inv, AtHome, BoardInv, NEW r \in Readers, Read(r) \/ PeerSilent(r)
  PROVE  BoardInv'
<1> DEFINE Steps == [step : {"idle", "merge", "asked", "answered"}, rows : SUBSET Ids]
<1>1. /\ TypeOK /\ reader \in [Readers -> Steps] /\ NoReader \notin Readers
      /\ Window \in Nat /\ Timeout \in Nat /\ cacheAge \in Nat /\ callAge \in Nat
      /\ callAge <= Timeout
      /\ \A i \in Ids : since[i] \in Nat
  BY AgeTypes, FederationAssumption DEF Inv, TypeOK
<1>2. ASSUME NEW answeredToo \in BOOLEAN, ReadLocal(r, answeredToo)
      PROVE  BoardInv'
  <2>1. /\ UNCHANGED <<home, peer, since, mu, reply, cached, have, cacheAge, callAge>>
        /\ reader[r].step = "idle"
        /\ reader'[r].step = "merge"
        /\ reader'[r].rows \in {LiveIds(local'), OpenIds(local')}
        /\ \A q \in Readers \ {r} : reader'[q] = reader[q]
    BY <1>1, <1>2 DEF ReadLocal
  <2>2. \A i \in Ids : local'[i] # NoRow => home[i] = "local"
    BY <1>2 DEF ReadLocal, Pruned, AtHome
  <2>3. reader'[r].rows \subseteq {i \in Ids : home[i] = "local"}
    BY <2>1, <2>2 DEF LiveIds, OpenIds, Open
  <2>4. QED
    BY <2>1, <2>3 DEF BoardInv, ListedSince
<1>3. CASE ServeCached(r)
  <2>1. /\ UNCHANGED <<home, peer, since, mu, reply, cached, have, cacheAge, callAge>>
        /\ reader[r].step = "merge"
        /\ reader'[r].step = "idle" /\ reader'[r].rows = {}
        /\ \A q \in Readers \ {r} : reader'[q] = reader[q]
    BY <1>1, <1>3 DEF ServeCached, Render, storeVars
  <2>2. QED
    BY <2>1 DEF BoardInv, ListedSince
<1>4. CASE AskPeer(r)
  <2>1. /\ UNCHANGED <<home, peer, since, reply, cached, have, cacheAge>>
        /\ mu = NoReader /\ mu' = r
        /\ reader'[r].step = "asked" /\ reader'[r].rows = reader[r].rows
        /\ \A q \in Readers \ {r} : reader'[q] = reader[q]
    BY <1>1, <1>4 DEF AskPeer, storeVars
  <2>2. QED
    BY <1>1, <2>1 DEF BoardInv, ListedSince
<1>5. CASE PeerReads(r)
  <2>1. /\ UNCHANGED <<home, mu, cached, have, cacheAge, callAge>>
        /\ Touch(peer, peer') /\ reply' = OpenIds(peer')
        /\ reader[r].step = "asked"
        /\ reader'[r].step = "answered" /\ reader'[r].rows = reader[r].rows
        /\ \A q \in Readers \ {r} : reader'[q] = reader[q]
    BY <1>1, <1>5 DEF PeerReads
  <2>2. ListedSince(reply, callAge)'
    BY <2>1 DEF OpenIds, ListedSince
  <2>3. have /\ cacheAge < Window => ListedSince(cached, cacheAge + Timeout)'
    BY <1>1, <2>1, TouchedSince DEF BoardInv, ListedSince
  <2>4. QED
    BY <1>1, <2>1, <2>2, <2>3 DEF BoardInv
<1>6. CASE PeerListed(r)
  <2>1. /\ UNCHANGED <<home, peer, since>>
        /\ mu' = NoReader /\ cached' = reply /\ cacheAge' = 0
        /\ reader[r].step = "answered"
        /\ reader'[r].step = "idle" /\ reader'[r].rows = {}
        /\ \A q \in Readers \ {r} : reader'[q] = reader[q]
    BY <1>1, <1>6 DEF PeerListed, Render, storeVars
  <2>2. mu = r /\ ListedSince(reply, callAge)
    BY <2>1 DEF BoardInv
  <2>3. ListedSince(cached, cacheAge + Timeout)'
    BY <1>1, <2>1, <2>2 DEF ListedSince
  <2>4. QED
    BY <1>1, <2>1, <2>2, <2>3 DEF BoardInv
<1>7. CASE PeerSilent(r)
  <2>1. /\ UNCHANGED <<home, peer, since, cached, have, cacheAge>>
        /\ mu' = NoReader
        /\ reader[r].step \in {"asked", "answered"}
        /\ reader'[r].step = "idle" /\ reader'[r].rows = {}
        /\ \A q \in Readers \ {r} : reader'[q] = reader[q]
    BY <1>1, <1>7 DEF PeerSilent, OutageForgotten, Unlocked, Render, storeVars
  <2>2. mu = r
    BY <2>1 DEF BoardInv
  <2>3. QED
    BY <1>1, <2>1, <2>2 DEF BoardInv, ListedSince
<1>8. QED
  BY <1>2, <1>3, <1>4, <1>5, <1>6, <1>7 DEF Read

LEMMA NextKeepsBoard == Inv /\ AtHome /\ BoardInv /\ [Next]_vars => BoardInv'
<1> SUFFICES ASSUME Inv, AtHome, BoardInv, [Next]_vars PROVE BoardInv'
  OBVIOUS
<1>1. CASE UNCHANGED vars
  BY <1>1, RestKeepsBoard DEF vars, storeVars
<1>2. QED
  BY <1>1, StoresKeepBoard, CallsKeepBoard, ReadsKeepBoard, TickKeepsBoard DEF Next

\* A board that is rendered without a fault shows of the peer what was listed
\* before the horizon.
LEMMA RenderedWithinHorizon ==
  ASSUME Window > 0, Inv, AtHome, BoardInv, NEW r \in Readers, Read(r) \/ PeerSilent(r),
         reader[r].step # "idle", reader'[r].step = "idle", faults' = faults,
         NEW i \in Ids, home[i] = "peer", since[i] >= Horizon
  PROVE  i \in shown'[r] <=> Open(peer[i])
<1>1. /\ Window \in Nat /\ Window > 0 /\ Timeout \in Nat /\ since[i] \in Nat
      /\ cacheAge \in Nat /\ callAge \in Nat /\ callAge <= Timeout
      /\ faults \in Nat
  BY AgeTypes, FederationAssumption DEF Inv, TypeOK
<1>2. i \notin reader[r].rows
  BY DEF BoardInv
<1>3. /\ reader \in [Readers ->
           [step : {"idle", "merge", "asked", "answered"}, rows : SUBSET Ids]]
      /\ shown \in [Readers -> SUBSET Ids]
  BY DEF Inv, TypeOK
<1>4. CASE ServeCached(r)
  <2>1. have /\ cacheAge < Window /\ shown'[r] = reader[r].rows \cup (cached \ reader[r].rows)
    BY <1>3, <1>4 DEF ServeCached, Fresh, Render, Merged
  <2>2. since[i] > cacheAge + Timeout
    BY <1>1, <2>1 DEF Horizon
  <2>3. QED
    BY <1>2, <2>1, <2>2 DEF BoardInv, ListedSince
<1>5. CASE PeerListed(r)
  <2>1. /\ reader[r].step = "answered"
        /\ shown'[r] = reader[r].rows \cup (reply \ reader[r].rows)
    BY <1>3, <1>5 DEF PeerListed, Render, Merged
  <2>2. since[i] > callAge
    BY <1>1 DEF Horizon
  <2>3. QED
    BY <1>2, <2>1, <2>2 DEF BoardInv, ListedSince
<1>6. CASE PeerSilent(r)
  BY <1>1, <1>6 DEF PeerSilent, Fault
<1>7. ASSUME NEW answeredToo \in BOOLEAN, ReadLocal(r, answeredToo) PROVE FALSE
  BY <1>7 DEF ReadLocal
<1>8. CASE AskPeer(r)
  BY <1>3, <1>8 DEF AskPeer
<1>9. CASE PeerReads(r)
  BY <1>3, <1>9 DEF PeerReads
<1>10. QED
  BY <1>4, <1>5, <1>6, <1>7, <1>8, <1>9 DEF Read

\* Only a reader's own step moves it.
LEMMA OthersStay ==
  ASSUME Inv, [Next]_vars, NEW r \in Readers, ~ (Read(r) \/ PeerSilent(r))
  PROVE  reader'[r].step = reader[r].step
<1>1. reader \in [Readers ->
        [step : {"idle", "merge", "asked", "answered"}, rows : SUBSET Ids]]
  BY DEF Inv, TypeOK
<1>2. CASE reader' = reader
  BY <1>2
<1>3. ASSUME NEW q \in Readers \ {r}, Read(q) \/ PeerSilent(q)
      PROVE  reader'[r] = reader[r]
  BY <1>1, <1>3
  DEF Read, ReadLocal, ServeCached, AskPeer, PeerReads, PeerListed, PeerSilent, Render
<1>4. CASE \E q \in Readers : Read(q) \/ PeerSilent(q)
  BY <1>3, <1>4
<1>5. CASE ~ \E q \in Readers : Read(q) \/ PeerSilent(q)
  <2>1. CASE UNCHANGED readVars
    BY <1>2, <2>1 DEF readVars
  <2>2. CASE UNCHANGED vars
    BY <2>1, <2>2 DEF vars
  <2>3. CASE Tick
    BY <1>2, <2>3 DEF Tick
  <2>4. CASE \/ \E i \in Ids, gate \in Gates : PushLocal(i, gate) \/ PushPeer(i, gate)
             \/ \E i \in Ids : Doom(i)
             \/ \E op \in Ops : PeerDirect(op) \/ PeerLate(op)
             \/ PeerRead
    BY <2>1, <2>4 DEF PushLocal, PushPeer, Doom, PeerDirect, PeerLate, PeerRead
  <2>5. CASE \/ \E c \in Callers, op \in Ops : Submit(c, op)
             \/ \E c \in Callers :
                  \/ Route(c)
                  \/ RouteBlind(c)
                  \/ ActLocally(c)
                  \/ PeerServes(c)
                  \/ ReplyArrives(c)
                  \/ \E answer \in Cuts : CallCut(c, answer)
    BY <2>1, <2>5
    DEF Submit, Route, RouteBlind, ActLocally, PeerServes, ReplyArrives, CallCut
  <2>6. QED
    BY <1>5, <2>2, <2>3, <2>4, <2>5 DEF Next
<1>6. QED
  BY <1>4, <1>5

\* Whatever the cache, the mutex and the slow calls do, a board that is not told
\* of a fault is exact about every peer ask that entered or left the queue longer
\* ago than one cache window and one call.  The window is two seconds; without one
\* a change between the peer's answer and its arrival would be older than the
\* horizon.
THEOREM BoardsStayWithinHorizon == Window > 0 => (Spec => BoardWithinHorizon)
<1> SUFFICES ASSUME Window > 0 PROVE Spec => BoardWithinHorizon
  OBVIOUS
<1> DEFINE Rendered(r) ==
             (reader[r].step # "idle" /\ reader'[r].step = "idle" /\ faults' = faults) =>
               \A i \in Ids :
                 (home[i] = "peer" /\ since[i] >= Horizon) =>
                   (i \in shown'[r] <=> Open(peer[i]))
<1>1. Init => AtHome /\ BoardInv
  BY FederationAssumption DEF Init, AtHome, OpenUndecided, Open, BoardInv
<1>2. Spec => [](AtHome /\ BoardInv)
  BY <1>1, NextAtHome, NextKeepsBoard, FederationInvariance, PTL DEF Spec
<1>3. ASSUME Inv, AtHome, BoardInv, [Next]_vars, NEW r \in Readers PROVE Rendered(r)
  BY <1>3, OthersStay, RenderedWithinHorizon
<1>4. Inv /\ AtHome /\ BoardInv /\ [Next]_vars => [\A r \in Readers : Rendered(r)]_vars
  BY <1>3
<1>5. QED
  BY <1>2, <1>4, FederationInvariance, PTL DEF Spec, BoardWithinHorizon

=============================================================================

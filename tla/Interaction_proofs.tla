------------------------- MODULE Interaction_proofs -------------------------
(***************************************************************************)
(* Proofs about Interaction, for any number of pods, turns, cards and      *)
(* submits, any cards and any answers: a raise returns what was sent for   *)
(* its own card, a card is resolved in place once, and what the session    *)
(* knows of its visitor was earned.                                        *)
(***************************************************************************)
EXTENDS Interaction, SequenceTheorems, TLAPS

-----------------------------------------------------------------------------
(* Shapes: the fields of the records, whatever their values.               *)

MetaField == {"pending", "contact", "supports"}
TurnField == {"at", "pod", "rich", "card", "raised", "request", "outcomes", "bridge", "outstanding"}
FrameField == {"at", "pod", "id", "answer", "live", "canonical", "kind", "took"}

Outcome == [id : CardId, by : Frame]
AtWork(r) == r.at \in {"reading", "taking", "retiring"}

Turns ==
  /\ DOMAIN turn = Turn
  /\ \A t \in Turn : /\ DOMAIN turn[t] = TurnField /\ turn[t].outcomes \in Seq(Outcome)
                     /\ turn[t].pod \in Pod \/ (turn[t].at = "free" /\ turn[t].bridge = "off")
Frames ==
  /\ DOMAIN frame = Frame
  /\ \A f \in Frame : /\ DOMAIN frame[f] = FrameField
                      /\ AtWork(frame[f]) => frame[f].pod \in Pod /\ frame[f].answer \in Answer
                      /\ frame[f].at \in {"reading", "retiring"} => ~frame[f].live
Pods == DOMAIN registered = Pod /\ DOMAIN cache = Pod
Tasks ==
  \A k \in tasks : /\ k.pod \in Pod
                   /\ \A f \in Frame : k.cause = <<"retire", f>> => "map" \in DOMAIN k
Bounds ==
  /\ DOMAIN budget = {"cards", "calls"} /\ budget.cards \in 0 .. MaxCards
  /\ DOMAIN history = {"earned", "answered"}
ShapeInv == Turns /\ Frames /\ Pods /\ Tasks /\ Bounds

-----------------------------------------------------------------------------
(* A card's id is in one place at a time: with the raise that drew it, on  *)
(* a pod where it is registered, or with the submit that took it there.    *)

Requested(i) == \E t \in Turn : turn[t].request # None /\ turn[t].request.id = i
Shown(i) == \E p \in Pod : registered[p] # None /\ registered[p].id = i
Live(f) == frame[f].at = "accepted" /\ frame[f].live
TookLive(i) == \E f \in Frame : Live(f) /\ frame[f].took = i

\* Ids are drawn in order.
Drawn(i) == i \in CardId /\ i < FreshId
DrawnOnly ==
  /\ \A t \in Turn : turn[t].request # None => Drawn(turn[t].request.id)
  /\ \A p \in Pod : registered[p] # None => Drawn(registered[p].id)
  /\ \A f \in Frame : Live(f) => Drawn(frame[f].took)
OneHolder ==
  \A i \in CardId : /\ Requested(i) => ~Shown(i) /\ ~TookLive(i)
                    /\ Shown(i) => ~TookLive(i)
RequestOnce ==
  \A t, u \in Turn : turn[t].request # None /\ turn[u].request # None
                       /\ turn[t].request.id = turn[u].request.id => t = u
ShownOnce ==
  \A p, q \in Pod : registered[p] # None /\ registered[q] # None
                      /\ registered[p].id = registered[q].id => p = q
TookOnce == \A f, g \in Frame : Live(f) /\ Live(g) /\ frame[f].took = frame[g].took => f = g
IdInv == DrawnOnly /\ OneHolder /\ RequestOnce /\ ShownOnce /\ TookOnce

-----------------------------------------------------------------------------
\* A resolution is of the card that its submit took.
Resolves(f, i) == f \in Frame /\ frame[f].at = "accepted" /\ frame[f].took = i
OutcomesOwn ==
  \A t \in Turn : \A j \in 1 .. Len(turn[t].outcomes) :
    Resolves(turn[t].outcomes[j].by, turn[t].outcomes[j].id)
AnsweredOwn == \A r \in history.answered : Resolves(r.by, r.card)
OwnInv == OutcomesOwn /\ AnsweredOwn

\* A field of a contact that was given, by one of the contacts in E.
EarnedField(k, x, E) ==
  \E e \in E : /\ x = e.contact[k]
               /\ e.by = "create" => k = "email"
               /\ e.by = "submit" => CanonicalForm(k, x)

\* A copy of the session whose contact was earned, of the contacts in E.
Earns(m, E) ==
  /\ DOMAIN m = MetaField
  /\ \A k \in IntakeFieldKey : m.contact[k] # None => EarnedField(k, m.contact[k], E)
AllCanonical(v) == \A k \in IntakeFieldKey : v[k] # None => CanonicalForm(k, v[k])
CopiesEarned ==
  /\ Earns(store, history.earned)
  /\ \A p \in Pod : cache[p] # None => Earns(cache[p], history.earned)
  /\ \A k \in tasks : "map" \in DOMAIN k => Earns(k.map, history.earned)

\* What a submit at work is about to give the session is canonical.
SubmitsCanonical ==
  \A f \in Frame : /\ frame[f].at \in {"taking", "retiring"}
                   /\ frame[f].canonical # None /\ frame[f].kind = "identity_intake"
                   => AllCanonical(frame[f].canonical)
ContactInv == CopiesEarned /\ SubmitsCanonical

\* The inductive invariant.
IInv == ShapeInv /\ IdInv /\ OwnInv /\ ContactInv

-----------------------------------------------------------------------------
(* Records, sequences and frames of one update.                            *)

\* What a resolution added at the end leaves behind.
LEMMA Appended ==
  ASSUME NEW s \in Seq(Outcome), NEW v \in Outcome
  PROVE  /\ Append(s, v) \in Seq(Outcome) /\ Len(s) \in Nat
         /\ Len(Append(s, v)) = Len(s) + 1
         /\ Append(s, v)[Len(s) + 1] = v
         /\ \A i \in 1 .. Len(s) : Append(s, v)[i] = s[i]
OBVIOUS

\* What a resolution taken from the front leaves behind.
LEMMA TakenFirst ==
  ASSUME NEW s \in Seq(Outcome), s # <<>>
  PROVE  /\ Tail(s) \in Seq(Outcome) /\ Len(s) \in Nat /\ 1 <= Len(s)
         /\ Len(Tail(s)) = Len(s) - 1
         /\ Head(s) = s[1] /\ Head(s) \in Outcome
         /\ \A i \in 1 .. Len(s) - 1 : Tail(s)[i] = s[i + 1]
<1>1. Len(s) \in Nat \ {0} BY EmptySeq
<1> QED BY <1>1, HeadTailProperties

-----------------------------------------------------------------------------
(* What a step does to the turns, the frames and the registrations.        *)

\* A turn keeps its raise and its resolutions, or loses them.
TurnsLose ==
  /\ Turns'
  /\ \A t \in Turn : /\ turn'[t].request \in {turn[t].request, None}
                     /\ turn'[t].outcomes \in {turn[t].outcomes, <<>>}

\* A submit that was acknowledged stays so.
FramesKeep ==
  /\ Frames'
  /\ \A f \in Frame : frame[f].at = "accepted" => frame'[f] = frame[f]

\* No submit resolves a card in place.
NoneTakes ==
  /\ FramesKeep
  /\ \A f \in Frame : frame[f].at # "accepted" => ~Live(f)'

\* Registrations are kept or lost.
PodsLose == \A p \in Pod : registered'[p] \in {registered[p], None}

\* A turn that starts, goes on after its card timed out, or is over.
LEMMA QuietTurn ==
  ASSUME Turns, NEW t \in Turn,
         \/ BridgePark(t) \/ BridgeEnds(t) \/ RaiseTimesOut(t) \/ EndTurn(t) \/ DropTurn(t)
         \/ \E p \in Pod : StartTurn(p, t)
  PROVE  TurnsLose
<1>1. <<>> \in Seq(Outcome) OBVIOUS
<1>0. ASSUME NEW r, turn' = [turn EXCEPT ![t] = r], DOMAIN r = TurnField, r.outcomes = <<>>,
             r.request \in {turn[t].request, None}, r.pod \in Pod
      PROVE  TurnsLose
  <2>1. DOMAIN turn' = Turn /\ \A u \in Turn : turn'[u] = IF u = t THEN r ELSE turn[u]
    BY <1>0 DEF Turns
  <2>2. \A u \in Turn : turn'[u] = turn[u] \/ (turn'[u] = r /\ u = t)
    BY <2>1
  <2>3. Turns'
    BY <1>0, <1>1, <2>1, <2>2 DEF Turns
  <2> QED BY <1>0, <2>2, <2>3 DEF TurnsLose
<1>2. ASSUME NEW p \in Pod, StartTurn(p, t) PROVE TurnsLose
  <2> DEFINE r == [FreeTurn EXCEPT !.at = "running", !.pod = p,
                     !.rich = RichKinds(load_session(p)), !.bridge = "on"]
  <2>1. DOMAIN r = TurnField /\ r.outcomes = <<>> /\ r.request = None /\ r.pod = p
    BY DEF FreeTurn, TurnField
  <2>2. turn' = [turn EXCEPT ![t] = r]
    BY <1>2 DEF StartTurn
  <2> HIDE DEF r
  <2> QED BY <1>0, <2>1, <2>2
<1>3. CASE BridgePark(t)
  BY <1>3 DEF BridgePark, Turns, TurnField, TurnsLose
<1>4. CASE BridgeEnds(t)
  BY <1>4 DEF BridgeEnds, Turns, TurnField, TurnsLose
<1>5. CASE RaiseTimesOut(t)
  BY <1>5 DEF RaiseTimesOut, Turns, TurnField, TurnsLose
<1>6. CASE EndTurn(t)
  <2> DEFINE r == [Ended(t, "over") EXCEPT !.bridge = "done", !.outstanding = FALSE]
  <2>1. /\ DOMAIN r = TurnField /\ r.outcomes = <<>> /\ r.request = turn[t].request
        /\ r.pod = turn[t].pod
    BY DEF Ended, FreeTurn, TurnField
  <2>2. turn' = [turn EXCEPT ![t] = r] /\ turn[t].pod \in Pod
    BY <1>6 DEF EndTurn, Turns
  <2> HIDE DEF r
  <2> QED BY <1>0, <2>1, <2>2
<1>7. CASE DropTurn(t)
  <2> DEFINE r == Ended(t, "dead")
  <2>1. /\ DOMAIN r = TurnField /\ r.outcomes = <<>> /\ r.request = turn[t].request
        /\ r.pod = turn[t].pod
    BY DEF Ended, FreeTurn, TurnField
  <2>2. turn' = [turn EXCEPT ![t] = r] /\ turn[t].pod \in Pod
    BY <1>7 DEF DropTurn, Alive, Turns
  <2> HIDE DEF r
  <2> QED BY <1>0, <2>1, <2>2
<1> QED BY <1>2, <1>3, <1>4, <1>5, <1>6, <1>7

\* A pod that dies takes its turns and the submits at work there with it.
LEMMA PodTurns ==
  ASSUME Turns, Frames, NEW p \in Pod, PodDies(p)
  PROVE  TurnsLose /\ NoneTakes
<1>1. <<>> \in Seq(Outcome) OBVIOUS
<1>2. TurnsLose
  <2> DEFINE r == [FreeTurn EXCEPT !.at = "dead", !.pod = p, !.bridge = "done"]
  <2>1. DOMAIN r = TurnField /\ r.outcomes = <<>> /\ r.request = None /\ r.pod = p
    BY DEF FreeTurn, TurnField
  <2>2. DOMAIN turn' = Turn /\ \A t \in Turn : turn'[t] = turn[t] \/ turn'[t] = r
    BY DEF PodDies
  <2> HIDE DEF r
  <2>3. Turns'
    BY <1>1, <2>1, <2>2 DEF Turns
  <2> QED BY <2>1, <2>2, <2>3 DEF TurnsLose
<1>3. NoneTakes
  BY DEF PodDies, Refused, UnsentFrame, Frames, FrameField, FramesKeep, NoneTakes, Live, AtWork
<1> QED BY <1>2, <1>3

\* A raise: the turn may get a request with the fresh id.
LEMMA RaiseTurn ==
  ASSUME Turns, NEW t \in Turn, NEW c \in Card, Raise(t, c)
  PROVE  /\ Turns'
         /\ \A u \in Turn : /\ turn'[u].outcomes = turn[u].outcomes
                            /\ u # t => turn'[u] = turn[u]
         /\ turn'[t].request \in {turn[t].request, None} \/ turn'[t].request.id = FreshId
BY DEF Raise, Turns, TurnField

\* The parked tool receives the oldest resolution.
LEMMA ReceiveTurn ==
  ASSUME Turns, NEW t \in Turn, Receive(t)
  PROVE  /\ Turns'
         /\ \A u \in Turn : /\ turn'[u].request = turn[u].request
                            /\ u # t => turn'[u] = turn[u]
         /\ turn'[t].outcomes = Tail(turn[t].outcomes)
<1>1. Tail(turn[t].outcomes) \in Seq(Outcome)
  BY TakenFirst DEF Receive, Turns
<1> QED BY <1>1 DEF Receive, Turns, TurnField

\* A card taken where it is registered: the resolution is on its way.
LEMMA TakeTurn ==
  ASSUME Turns, NEW x, NEW o \in Outcome,
         turn' = [turn EXCEPT ![x].outcomes = Append(@, o)]
  PROVE  /\ Turns'
         /\ \A u \in Turn : /\ turn'[u].request = turn[u].request
                            /\ turn'[u].outcomes = IF u = x THEN Append(turn[u].outcomes, o)
                                                   ELSE turn[u].outcomes
<1>1. \A u \in Turn : Append(turn[u].outcomes, o) \in Seq(Outcome)
  BY Appended DEF Turns
<1> QED BY <1>1 DEF Turns, TurnField

-----------------------------------------------------------------------------
(* The submits.                                                            *)

\* Frames that no handler touches.
LEMMA SameFrames ==
  ASSUME Frames, UNCHANGED frame PROVE NoneTakes
BY DEF Frames, NoneTakes, FramesKeep, Live

\* A handler that is answered without effect.
LEMMA RefuseFrame ==
  ASSUME Frames, NEW f \in Frame, frame[f].at # "accepted", frame' = [frame EXCEPT ![f] = Refused]
  PROVE  NoneTakes
BY DEF Frames, FrameField, NoneTakes, FramesKeep, Live, Refused, UnsentFrame, AtWork

\* A frame comes in.
LEMMA SubmitFrame ==
  ASSUME Frames, NEW f \in Frame, NEW p \in Pod, NEW n, NEW a \in Answer, Submit(f, p, n, a)
  PROVE  NoneTakes
BY DEF Submit, Frames, FrameField, NoneTakes, FramesKeep, Live, Refused, UnsentFrame, AtWork

\* A submit reads the durable record.
LEMMA ReadFrame ==
  ASSUME Frames, NEW f \in Frame, SubmitRead(f)
  PROVE  NoneTakes
<1>1. CASE frame' = [frame EXCEPT ![f] = Refused]
  BY <1>1, RefuseFrame DEF SubmitRead
<1>2. ASSUME NEW k, NEW v, frame' = [frame EXCEPT ![f].at = "retiring", ![f].kind = k,
                                                  ![f].canonical = v]
      PROVE  NoneTakes
  BY <1>2 DEF SubmitRead, Frames, FrameField, NoneTakes, FramesKeep, Live, AtWork
<1> QED BY <1>1, <1>2 DEF SubmitRead

\* A submit is acknowledged.
LEMMA AcceptFrame ==
  ASSUME Frames, NEW f \in Frame, NEW c, frame[f].at # "accepted", Acknowledge(f, c)
  PROVE  /\ FramesKeep
         /\ \A g \in Frame : g # f => frame'[g] = frame[g]
         /\ frame'[f].at = "accepted" /\ frame'[f].took = c /\ frame'[f].live = frame[f].live
BY DEF Acknowledge, Frames, FrameField, FramesKeep, UnsentFrame, AtWork

\* The retiring write lands or fails.
LEMMA RetiredFrame ==
  ASSUME Frames, NEW f \in Frame, NEW ok \in BOOLEAN, SubmitRetired(f, ok)
  PROVE  NoneTakes
<1>1. CASE Acknowledge(f, frame[f].id)
  <2>1. ~frame[f].live /\ frame[f].at = "retiring"
    BY DEF SubmitRetired, Frames
  <2> QED BY <1>1, <2>1, AcceptFrame DEF NoneTakes, Live
<1>2. CASE frame' = [frame EXCEPT ![f] = Refused]
  BY <1>2, RefuseFrame DEF SubmitRetired
<1> QED BY <1>1, <1>2 DEF SubmitRetired

-----------------------------------------------------------------------------
(* Ids.                                                                    *)

\* The fresh id is not drawn yet, and drawing one keeps the others drawn.
LEMMA Fresh ==
  ASSUME Bounds
  PROVE  /\ FreshId \in Int /\ ~Drawn(FreshId)
         /\ budget.cards > 0 => FreshId \in CardId
BY InteractionAssumption DEF Bounds, FreshId, Drawn, CardId

\* An id once drawn stays drawn: the budget of cards only shrinks.
LEMMA DrawnMore ==
  ASSUME Bounds, Bounds', budget'.cards <= budget.cards, NEW i, Drawn(i)
  PROVE  Drawn(i)'
BY InteractionAssumption DEF Bounds, FreshId, Drawn, CardId

\* Steps that move no id: they are kept where they are, or lost.
LEMMA IdsLost ==
  ASSUME Bounds, Bounds', IdInv, budget'.cards <= budget.cards,
         \A t \in Turn : turn'[t].request \in {turn[t].request, None},
         PodsLose, NoneTakes
  PROVE  IdInv'
<1>1. \A f \in Frame : Live(f)' => Live(f) /\ frame'[f].took = frame[f].took
  BY DEF NoneTakes, FramesKeep, Live
<1>2. \A i : Requested(i)' => Requested(i)
  BY DEF Requested
<1>3. \A i : Shown(i)' => Shown(i)
  BY DEF Shown, PodsLose
<1>4. \A i : TookLive(i)' => TookLive(i)
  BY <1>1 DEF TookLive
<1>5. DrawnOnly'
  BY <1>1, DrawnMore DEF DrawnOnly, IdInv, PodsLose
<1>6. OneHolder'
  BY <1>2, <1>3, <1>4 DEF OneHolder, IdInv
<1>7. RequestOnce'
  BY DEF RequestOnce, IdInv
<1>8. ShownOnce'
  BY DEF ShownOnce, IdInv, PodsLose
<1>9. TookOnce'
  BY <1>1 DEF TookOnce, IdInv
<1> QED BY <1>5, <1>6, <1>7, <1>8, <1>9 DEF IdInv

\* A raise draws a fresh id.
LEMMA RaiseIds ==
  ASSUME Bounds, Bounds', IdInv, Turns, NEW t \in Turn, NEW c \in Card, Raise(t, c)
  PROVE  IdInv'
<1>1. budget.cards > 0 /\ budget'.cards = budget.cards - 1 /\ UNCHANGED <<registered, frame>>
  BY DEF Raise, Bounds
<1>2. budget'.cards <= budget.cards
  BY <1>1 DEF Bounds
<1> PICK i : i = FreshId
  OBVIOUS
<1>3. i \in CardId /\ ~Drawn(i) /\ Drawn(i)'
  BY <1>1, Fresh, InteractionAssumption DEF Bounds, FreshId, Drawn, CardId
<1>4. \A u \in Turn : \/ turn'[u].request \in {turn[u].request, None}
                      \/ u = t /\ turn'[u].request.id = i
  BY RaiseTurn
<1>5. ~Requested(i) /\ ~Shown(i) /\ ~TookLive(i)
  BY <1>3 DEF Requested, Shown, TookLive, DrawnOnly, IdInv
<1>6. \A j : /\ Requested(j)' => Requested(j) \/ j = i
             /\ Shown(j)' <=> Shown(j)
             /\ TookLive(j)' <=> TookLive(j)
  BY <1>1, <1>4 DEF Requested, Shown, TookLive, Live
<1>7. DrawnOnly'
  <2>1. \A j : Drawn(j) => Drawn(j)'
    BY <1>2, DrawnMore
  <2> QED BY <1>1, <1>3, <1>4, <2>1 DEF DrawnOnly, IdInv, Live
<1>8. OneHolder'
  BY <1>5, <1>6 DEF OneHolder, IdInv
<1>9. RequestOnce'
  BY <1>4, <1>5 DEF RequestOnce, Requested, IdInv
<1>10. ShownOnce' /\ TookOnce'
  BY <1>1 DEF ShownOnce, TookOnce, Live, IdInv
<1> QED BY <1>7, <1>8, <1>9, <1>10 DEF IdInv

\* The bridge moves an id from the raise to the pod.
LEMMA ParkIds ==
  ASSUME Bounds, Bounds', IdInv, Turns, Pods, NEW t \in Turn, BridgePark(t)
  PROVE  IdInv'
<1>1. UNCHANGED <<frame, budget>> /\ turn[t].request # None
  BY DEF BridgePark
<1> DEFINE i == turn[t].request.id
<1>2. /\ \A u \in Turn : turn'[u].request = IF u = t THEN None ELSE turn[u].request
      /\ \A p \in Pod : \/ registered'[p] = registered[p]
                        \/ p = turn[t].pod /\ registered'[p].id = i
  <2>1. \A u \in Turn : turn'[u].request = IF u = t THEN None ELSE turn[u].request
    BY DEF BridgePark, Turns, TurnField
  <2>2. \A p \in Pod : registered'[p] = IF p = turn[t].pod
                         THEN [id |-> i, kind |-> turn[t].request.kind,
                               spec |-> turn[t].request.spec, turn |-> t]
                         ELSE registered[p]
    BY DEF BridgePark, Pods
  <2> QED BY <2>1, <2>2
<1>3. Drawn(i) /\ Requested(i) /\ i \in CardId
  BY <1>1 DEF DrawnOnly, IdInv, Requested, Drawn
<1>4. ~Shown(i) /\ ~TookLive(i)
  BY <1>3 DEF OneHolder, IdInv
<1>5. \A u \in Turn : u # t /\ turn[u].request # None => turn[u].request.id # i
  BY <1>1 DEF RequestOnce, IdInv
<1> HIDE DEF i
<1>6. \A j : /\ Requested(j)' => Requested(j) /\ j # i
             /\ Shown(j)' => Shown(j) \/ j = i
             /\ TookLive(j)' <=> TookLive(j)
  BY <1>1, <1>2, <1>5 DEF Requested, Shown, TookLive, Live
<1>7. \A j : Drawn(j)' <=> Drawn(j)
  BY <1>1 DEF Drawn, FreshId
<1>8. DrawnOnly'
  BY <1>1, <1>2, <1>3, <1>7 DEF DrawnOnly, IdInv, Live
<1>9. OneHolder'
  BY <1>4, <1>6 DEF OneHolder, IdInv
<1>10. RequestOnce'
  BY <1>2 DEF RequestOnce, IdInv
<1>11. ShownOnce'
  BY <1>2, <1>4 DEF ShownOnce, Shown, IdInv
<1>12. TookOnce'
  BY <1>1 DEF TookOnce, Live, IdInv
<1> QED BY <1>8, <1>9, <1>10, <1>11, <1>12 DEF IdInv

\* A submit takes the card registered on its pod, or finds none.
LEMMA TakeIds ==
  ASSUME ShapeInv, Bounds', IdInv, NEW f \in Frame, SubmitTake(f)
  PROVE  IdInv' /\ Turns' /\ FramesKeep
<1> DEFINE p == frame[f].pod
           card == registered[p]
<1>1. /\ frame[f].at = "taking" /\ p \in Pod /\ UNCHANGED budget /\ PodsLose
      /\ registered'[p] = None /\ budget'.cards <= budget.cards
  BY DEF SubmitTake, Taken, PodsLose, ShapeInv, Frames, Pods, Bounds, AtWork
<1>2. CASE ~(card # None /\ Alive(card.turn))
  <2>1. frame' = [frame EXCEPT ![f] = Refused] /\ UNCHANGED turn
    BY <1>2 DEF SubmitTake
  <2>2. NoneTakes
    BY <1>1, <2>1, RefuseFrame DEF ShapeInv
  <2>3. Turns' /\ \A t \in Turn : turn'[t].request \in {turn[t].request, None}
    BY <2>1 DEF ShapeInv, Turns
  <2> QED BY <1>1, <2>2, <2>3, IdsLost DEF ShapeInv, NoneTakes
<1>3. CASE card # None /\ Alive(card.turn)
  <2> DEFINE o == [id |-> card.id, by |-> f]
  <2>1. /\ turn' = [turn EXCEPT ![card.turn].outcomes = Append(@, o)]
        /\ Acknowledge(f, card.id)
    BY <1>3 DEF SubmitTake
  <2>2. Drawn(card.id) /\ Shown(card.id)
    BY <1>1, <1>3 DEF DrawnOnly, IdInv, Shown
  <2>3. card.id \in CardId /\ o \in Outcome
    BY <2>2 DEF Outcome, Drawn
  <2>4. Turns' /\ \A u \in Turn : turn'[u].request = turn[u].request
    BY <2>1, <2>3, TakeTurn DEF ShapeInv
  <2>5. /\ FramesKeep
        /\ \A g \in Frame : g # f => frame'[g] = frame[g]
        /\ frame'[f].at = "accepted" /\ frame'[f].took = card.id
    BY <1>1, <2>1, AcceptFrame DEF ShapeInv
  <2>6. ~Live(f) /\ \A g \in Frame : g # f => (Live(g)' <=> Live(g))
    BY <1>1, <2>5 DEF Live
  <2>7. ~Requested(card.id) /\ ~TookLive(card.id)
    BY <2>2, <2>3 DEF OneHolder, IdInv
  <2>8. \A q \in Pod : q # p /\ registered[q] # None => registered[q].id # card.id
    BY <1>1, <1>3 DEF ShownOnce, IdInv
  <2>9. \A q \in Pod : registered'[q] = IF q = p THEN None ELSE registered[q]
    BY <1>1 DEF SubmitTake, Taken, ShapeInv, Pods
  <2> DEFINE i == card.id
  <2> HIDE DEF i
  <2>10. \A j : /\ Requested(j)' <=> Requested(j)
                /\ Shown(j)' => Shown(j) /\ j # i
                /\ TookLive(j)' => TookLive(j) \/ j = i
    <3>1. \A j : Requested(j)' <=> Requested(j)
      BY <2>4 DEF Requested
    <3>2. \A j : Shown(j)' => Shown(j) /\ j # i
      BY <2>8, <2>9 DEF Shown, i
    <3>3. \A j : TookLive(j)' => TookLive(j) \/ j = i
      BY <2>5, <2>6 DEF TookLive, i
    <3> QED BY <3>1, <3>2, <3>3
  <2>11. \A j : Drawn(j)' <=> Drawn(j)
    BY <1>1 DEF Drawn, FreshId
  <2>12. DrawnOnly'
    BY <2>2, <2>4, <2>5, <2>6, <2>9, <2>11 DEF DrawnOnly, IdInv
  <2>13. OneHolder'
    BY <2>7, <2>10 DEF OneHolder, IdInv, i
  <2>14. RequestOnce' /\ ShownOnce'
    BY <2>4, <2>9 DEF RequestOnce, ShownOnce, IdInv
  <2>15. TookOnce'
    BY <2>5, <2>6, <2>7 DEF TookOnce, TookLive, IdInv
  <2> QED BY <2>4, <2>5, <2>12, <2>13, <2>14, <2>15 DEF IdInv
<1> QED BY <1>2, <1>3

-----------------------------------------------------------------------------
(* The tasks and the bounds.                                               *)

\* A write carries a map; a task that sets the pending key does not.
LEMMA TaskFields ==
  ASSUME NEW cause, NEW p, NEW x
  PROVE  /\ "map" \in DOMAIN WriteTask(cause, p, x) /\ WriteTask(cause, p, x).map = x
         /\ "map" \notin DOMAIN PersistTask(cause, p, x) /\ PersistTask(cause, p, x).cause = cause
         /\ WriteTask(cause, p, x).pod = p /\ PersistTask(cause, p, x).pod = p
BY DEF WriteTask, PersistTask

\* What is written of an effect carries a map.
LEMMA EffectFields ==
  /\ \A cause, p, m, kind, v : \A k \in EffectTasks(cause, p, m, kind, v) :
       "map" \in DOMAIN k /\ k.pod = p
  /\ \A f : \A k \in AcknowledgeTasks(f) : "map" \in DOMAIN k /\ k.pod = frame[f].pod
BY TaskFields DEF EffectTasks, AcknowledgeTasks

\* Every step keeps the shapes that no id depends on.
LEMMA StepTasks ==
  ASSUME ShapeInv, Next
  PROVE  Pods' /\ Tasks' /\ Bounds' /\ budget'.cards <= budget.cards
<1> USE DEF ShapeInv
<1>1. ASSUME NEW t \in Turn, TurnStep(t)
      PROVE  Pods' /\ Tasks' /\ Bounds' /\ budget'.cards <= budget.cards
  <2>1. ASSUME BridgePark(t) \/ BridgeEnds(t) \/ EndTurn(t)
        PROVE  Pods' /\ Tasks' /\ UNCHANGED <<budget, history>>
    <3>1. UNCHANGED <<budget, history, cache>> /\ DOMAIN registered' = Pod
      BY <2>1 DEF BridgePark, BridgeEnds, EndTurn, Pods
    <3>2. \A k \in tasks' : k \in tasks \/ k.cause = <<"park", turn[t].request.id>>
                                       \/ k.cause = <<"end", t>>
      BY <2>1, TaskFields DEF BridgePark, BridgeEnds, EndTurn, Withdrawn
    <3>3. \A k \in tasks' : k \in tasks \/ k.pod = turn[t].pod
      BY <2>1, TaskFields DEF BridgePark, BridgeEnds, EndTurn, Withdrawn
    <3>4. turn[t].pod \in Pod
      BY <2>1 DEF BridgePark, BridgeEnds, EndTurn, Turns
    <3>5. Tasks'
      BY <3>2, <3>3, <3>4 DEF Tasks
    <3> QED BY <3>1, <3>5 DEF Pods
  <2>2. ASSUME Receive(t) \/ RaiseTimesOut(t) \/ DropTurn(t)
        PROVE  Pods' /\ Tasks' /\ Bounds' /\ UNCHANGED budget
    BY <2>2 DEF Receive, RaiseTimesOut, DropTurn, Pods, Tasks, Bounds
  <2>3. ASSUME NEW c \in Card, Raise(t, c)
        PROVE  Pods' /\ Tasks' /\ Bounds' /\ budget'.cards <= budget.cards
    BY <2>3, InteractionAssumption DEF Raise, Pods, Tasks, Bounds
  <2>4. ASSUME NEW a \in Answer, SubmitTool(t, a)
        PROVE  Pods' /\ Tasks' /\ Bounds' /\ budget'.cards <= budget.cards
    <3>1. Pods' /\ Bounds' /\ budget'.cards = budget.cards
      BY <2>4 DEF SubmitTool, Pods, Bounds
    <3>2. turn[t].pod \in Pod
      BY <2>4 DEF SubmitTool, Turns
    <3>3. Tasks'
      BY <2>4, <3>2, EffectFields DEF SubmitTool, Tasks
    <3> QED BY <3>1, <3>3 DEF Bounds
  <2> QED BY <1>1, <2>1, <2>2, <2>3, <2>4 DEF TurnStep, Bounds
<1>2. ASSUME NEW f \in Frame, FrameStep(f)
      PROVE  Pods' /\ Tasks' /\ Bounds' /\ UNCHANGED budget
  <2>1. ASSUME SubmitTake(f) PROVE Pods' /\ Tasks' /\ Bounds' /\ UNCHANGED budget
    <3>1. Pods' /\ Bounds' /\ UNCHANGED budget
      BY <2>1 DEF SubmitTake, Taken, Acknowledge, CacheAfterMiss, Pods, Bounds
    <3>2. Tasks'
      BY <2>1, EffectFields DEF SubmitTake, Tasks, Frames, AtWork
    <3> QED BY <3>1, <3>2
  <2>2. ASSUME SubmitRead(f) PROVE Pods' /\ Tasks' /\ Bounds' /\ UNCHANGED budget
    <3>1. Pods' /\ Bounds' /\ UNCHANGED budget
      BY <2>2 DEF SubmitRead, Pods, Bounds
    <3>2. \A k \in tasks' : k \in tasks \/ \E c, m : k = WriteTask(c, frame[f].pod, m)
      BY <2>2 DEF SubmitRead
    <3>3. frame[f].pod \in Pod
      BY <2>2 DEF SubmitRead, Frames, AtWork
    <3>4. Tasks'
      BY <3>2, <3>3, TaskFields DEF Tasks
    <3> QED BY <3>1, <3>4
  <2>3. ASSUME NEW ok \in BOOLEAN, SubmitRetired(f, ok)
        PROVE  Pods' /\ Tasks' /\ Bounds' /\ UNCHANGED budget
    <3>1. Pods' /\ Bounds' /\ UNCHANGED budget
      BY <2>3 DEF SubmitRetired, Acknowledge, Pods, Bounds
    <3>2. \A k \in tasks' : k \in tasks \/ k \in AcknowledgeTasks(f)
      BY <2>3 DEF SubmitRetired
    <3>3. frame[f].pod \in Pod
      BY <2>3 DEF SubmitRetired, Frames, AtWork
    <3>4. Tasks'
      BY <3>2, <3>3, EffectFields DEF Tasks
    <3> QED BY <3>1, <3>4
  <2>4. ASSUME NEW p \in Pod, NEW n, NEW a, Submit(f, p, n, a)
        PROVE  Pods' /\ Tasks' /\ Bounds' /\ UNCHANGED budget
    BY <2>4 DEF Submit, Pods, Tasks, Bounds
  <2> QED BY <1>2, <2>1, <2>2, <2>3, <2>4 DEF FrameStep
<1>3. ASSUME NEW k \in tasks, RunPersist(k) \/ RunWrite(k)
      PROVE  Pods' /\ Tasks' /\ Bounds' /\ UNCHANGED budget
  BY <1>3 DEF RunPersist, RunWrite, Pods, Tasks, Bounds
<1>4. ASSUME NEW p \in Pod, PodDies(p) \/ \E t \in Turn : StartTurn(p, t)
      PROVE  Pods' /\ Tasks' /\ Bounds' /\ UNCHANGED budget
  BY <1>4 DEF PodDies, StartTurn, Pods, Tasks, Bounds
<1> QED BY <1>1, <1>2, <1>3, <1>4 DEF Next, Bounds

\* Every step keeps the shapes and moves the ids as it should.
LEMMA StepIds ==
  ASSUME ShapeInv, IdInv, Next
  PROVE  ShapeInv' /\ IdInv' /\ FramesKeep
<1>0. Pods' /\ Tasks' /\ Bounds' /\ budget'.cards <= budget.cards
  BY StepTasks
<1>1. ASSUME TurnsLose, NoneTakes, PodsLose PROVE ShapeInv' /\ IdInv' /\ FramesKeep
  BY <1>0, <1>1, IdsLost DEF ShapeInv, TurnsLose, NoneTakes, FramesKeep
<1>2. UNCHANGED frame => NoneTakes
  BY SameFrames DEF ShapeInv
<1>3. UNCHANGED turn => TurnsLose
  BY DEF ShapeInv, Turns, TurnsLose
<1>4. UNCHANGED registered => PodsLose
  BY DEF PodsLose
<1>5. ASSUME NEW t \in Turn, TurnStep(t) PROVE ShapeInv' /\ IdInv' /\ FramesKeep
  <2>1. UNCHANGED frame
    BY <1>5 DEF TurnStep, BridgePark, BridgeEnds, Receive, RaiseTimesOut, EndTurn, DropTurn,
                Raise, SubmitTool
  <2>2. NoneTakes /\ Frames' /\ FramesKeep
    BY <1>2, <2>1 DEF NoneTakes, FramesKeep
  <2>3. CASE BridgePark(t)
    <3>1. TurnsLose
      BY <2>3, QuietTurn DEF ShapeInv
    <3> QED BY <1>0, <2>2, <2>3, <3>1, ParkIds DEF ShapeInv, TurnsLose
  <2>4. ASSUME BridgeEnds(t) \/ RaiseTimesOut(t) \/ EndTurn(t) \/ DropTurn(t)
        PROVE  ShapeInv' /\ IdInv' /\ FramesKeep
    <3>1. TurnsLose
      BY <2>4, QuietTurn DEF ShapeInv
    <3>2. PodsLose
      BY <2>4 DEF BridgeEnds, RaiseTimesOut, EndTurn, DropTurn, PodsLose, ShapeInv, Pods
    <3> QED BY <1>1, <2>2, <3>1, <3>2
  <2>5. CASE Receive(t)
    <3>1. Turns' /\ \A u \in Turn : turn'[u].request = turn[u].request
      BY <2>5, ReceiveTurn DEF ShapeInv
    <3>2. PodsLose
      BY <1>4, <2>5 DEF Receive
    <3> QED BY <1>0, <2>2, <3>1, <3>2, IdsLost DEF ShapeInv
  <2>6. ASSUME NEW c \in Card, Raise(t, c) PROVE ShapeInv' /\ IdInv' /\ FramesKeep
    <3>1. Turns' /\ IdInv'
      BY <1>0, <2>6, RaiseTurn, RaiseIds DEF ShapeInv
    <3> QED BY <1>0, <2>2, <3>1 DEF ShapeInv
  <2>7. ASSUME NEW a \in Answer, SubmitTool(t, a) PROVE ShapeInv' /\ IdInv' /\ FramesKeep
    BY <1>1, <1>3, <1>4, <2>2, <2>7 DEF SubmitTool
  <2> QED BY <1>5, <2>3, <2>4, <2>5, <2>6, <2>7 DEF TurnStep
<1>6. ASSUME NEW f \in Frame, FrameStep(f) PROVE ShapeInv' /\ IdInv' /\ FramesKeep
  <2>1. CASE SubmitTake(f)
    <3>1. IdInv' /\ Turns' /\ FramesKeep
      BY <1>0, <2>1, TakeIds
    <3> QED BY <1>0, <3>1 DEF ShapeInv, FramesKeep
  <2>2. ASSUME \/ SubmitRead(f) \/ \E ok \in BOOLEAN : SubmitRetired(f, ok)
               \/ \E p \in Pod, n \in announced, a \in Answer : Submit(f, p, n, a)
        PROVE  ShapeInv' /\ IdInv' /\ FramesKeep
    <3>1. NoneTakes
      BY <2>2, ReadFrame, RetiredFrame, SubmitFrame DEF ShapeInv
    <3>2. UNCHANGED <<turn, registered>>
      BY <2>2 DEF SubmitRead, SubmitRetired, Submit
    <3> QED BY <1>1, <1>3, <1>4, <3>1, <3>2
  <2> QED BY <1>6, <2>1, <2>2 DEF FrameStep
<1>7. ASSUME NEW k \in tasks, RunPersist(k) \/ RunWrite(k)
      PROVE  ShapeInv' /\ IdInv' /\ FramesKeep
  BY <1>1, <1>2, <1>3, <1>4, <1>7 DEF RunPersist, RunWrite
<1>8. ASSUME NEW p \in Pod, PodDies(p) PROVE ShapeInv' /\ IdInv' /\ FramesKeep
  <2>1. TurnsLose /\ NoneTakes
    BY <1>8, PodTurns DEF ShapeInv
  <2>2. PodsLose
    BY <1>8 DEF PodDies, PodsLose, ShapeInv, Pods
  <2> QED BY <1>1, <2>1, <2>2
<1>9. ASSUME NEW p \in Pod, NEW t \in Turn, StartTurn(p, t)
      PROVE  ShapeInv' /\ IdInv' /\ FramesKeep
  <2>1. TurnsLose
    BY <1>9, QuietTurn DEF ShapeInv
  <2> QED BY <1>1, <1>2, <1>4, <1>9, <2>1 DEF StartTurn
<1> QED BY <1>5, <1>6, <1>7, <1>8, <1>9 DEF Next

-----------------------------------------------------------------------------
(* Resolutions.                                                            *)

\* A submit keeps what it resolved.
LEMMA ResolvesStill ==
  ASSUME FramesKeep, NEW f, NEW i, Resolves(f, i) PROVE Resolves(f, i)'
BY DEF FramesKeep, Resolves

\* Steps that neither send nor receive a resolution.
LEMMA OwnKept ==
  ASSUME OwnInv, FramesKeep, history'.answered = history.answered,
         \A t \in Turn : turn'[t].outcomes \in {turn[t].outcomes, <<>>}
  PROVE  OwnInv'
<1>1. \A f, i : Resolves(f, i) => Resolves(f, i)'
  BY ResolvesStill
<1>2. OutcomesOwn'
  <2> SUFFICES ASSUME NEW t \in Turn, NEW j \in 1 .. Len(turn'[t].outcomes)
               PROVE  Resolves(turn[t].outcomes[j].by, turn[t].outcomes[j].id)'
    BY DEF OutcomesOwn
  <2>1. turn'[t].outcomes = turn[t].outcomes
    OBVIOUS
  <2> QED BY <1>1, <2>1 DEF OutcomesOwn, OwnInv
<1>3. AnsweredOwn'
  BY <1>1 DEF AnsweredOwn, OwnInv
<1> QED BY <1>2, <1>3 DEF OwnInv

\* The parked tool takes a resolution for its own only if it is.
LEMMA ReceiveOwn ==
  ASSUME OwnInv, FramesKeep, Turns, Bounds, NEW t \in Turn, Receive(t)
  PROVE  OwnInv'
<1> DEFINE s == turn[t].outcomes
<1>1. \A f, i : Resolves(f, i) => Resolves(f, i)'
  BY ResolvesStill
<1>2. s \in Seq(Outcome) /\ s # <<>>
  BY DEF Receive, Turns
<1>3. /\ Len(s) \in Nat /\ 1 <= Len(s) /\ Len(Tail(s)) = Len(s) - 1 /\ Head(s) = s[1]
      /\ \A j \in 1 .. Len(s) - 1 : Tail(s)[j] = s[j + 1]
  BY <1>2, TakenFirst
<1>4. Resolves(Head(s).by, Head(s).id)
  BY <1>3 DEF OutcomesOwn, OwnInv
<1>5. turn'[t].outcomes = Tail(s) /\ \A u \in Turn : u # t => turn'[u] = turn[u]
  BY ReceiveTurn
<1>6. OutcomesOwn'
  <2> SUFFICES ASSUME NEW u \in Turn, NEW j \in 1 .. Len(turn'[u].outcomes)
               PROVE  Resolves(turn[u].outcomes[j].by, turn[u].outcomes[j].id)'
    BY DEF OutcomesOwn
  <2>1. CASE u # t
    BY <1>1, <1>5, <2>1 DEF OutcomesOwn, OwnInv
  <2>2. CASE u = t
    <3>1. turn'[u].outcomes = Tail(s)
      BY <1>5, <2>2
    <3>2. j \in 1 .. Len(s) - 1
      BY <1>3, <3>1
    <3>3. j + 1 \in 1 .. Len(s) /\ turn'[u].outcomes[j] = s[j + 1]
      BY <1>3, <3>1, <3>2
    <3> QED BY <1>1, <2>2, <3>3 DEF OutcomesOwn, OwnInv
  <2> QED BY <2>1, <2>2
<1>7. AnsweredOwn'
  <2>1. CASE ~OwnAnswer(t)
    BY <1>1, <2>1 DEF Receive, AnsweredOwn, OwnInv
  <2>2. CASE OwnAnswer(t)
    <3>1. history'.answered = history.answered \cup {[card |-> turn[t].card, by |-> Head(s).by]}
      BY <2>2 DEF Receive, Bounds
    <3>2. Resolves(Head(s).by, turn[t].card)
      BY <1>4, <2>2 DEF OwnAnswer
    <3> QED BY <1>1, <3>1, <3>2 DEF AnsweredOwn, OwnInv
  <2> QED BY <2>1, <2>2
<1> QED BY <1>6, <1>7 DEF OwnInv

\* The resolution that a submit sends names the card it took.
LEMMA TakeOwn ==
  ASSUME OwnInv, ShapeInv, IdInv, FramesKeep, NEW f \in Frame, SubmitTake(f)
  PROVE  OwnInv'
<1> DEFINE p == frame[f].pod
           card == registered[p]
<1>1. \A g, i : Resolves(g, i) => Resolves(g, i)'
  BY ResolvesStill
<1>2. CASE ~(card # None /\ Alive(card.turn))
  BY <1>2, OwnKept DEF SubmitTake
<1>3. CASE card # None /\ Alive(card.turn)
  <2>0. PICK o, x : o = [id |-> card.id, by |-> f] /\ x = card.turn
    OBVIOUS
  <2>1. /\ turn' = [turn EXCEPT ![x].outcomes = Append(@, o)]
        /\ Acknowledge(f, card.id) /\ frame[f].at = "taking"
    BY <1>3, <2>0 DEF SubmitTake
  <2>2. p \in Pod
    BY <2>1 DEF ShapeInv, Frames, AtWork
  <2>3. o \in Outcome /\ o.id = card.id /\ o.by = f
    BY <1>3, <2>0, <2>2 DEF Outcome, DrawnOnly, Drawn, IdInv
  <2>4. frame'[f].at = "accepted" /\ frame'[f].took = card.id
    BY <2>1, AcceptFrame DEF ShapeInv
  <2>5. \A u \in Turn : turn'[u].outcomes = IF u = x THEN Append(turn[u].outcomes, o)
                                            ELSE turn[u].outcomes
    BY <2>1, <2>3, TakeTurn DEF ShapeInv
  <2>6. OutcomesOwn'
    <3> SUFFICES ASSUME NEW u \in Turn, NEW j \in 1 .. Len(turn'[u].outcomes)
                 PROVE  Resolves(turn[u].outcomes[j].by, turn[u].outcomes[j].id)'
      BY DEF OutcomesOwn
    <3>1. CASE u # x
      BY <1>1, <2>5, <3>1 DEF OutcomesOwn, OwnInv
    <3>2. CASE u = x
      <4> DEFINE s == turn[u].outcomes
      <4>1. /\ Len(s) \in Nat /\ Len(Append(s, o)) = Len(s) + 1 /\ Append(s, o)[Len(s) + 1] = o
            /\ \A i \in 1 .. Len(s) : Append(s, o)[i] = s[i]
        BY <2>3, Appended DEF ShapeInv, Turns
      <4>2. turn'[u].outcomes = Append(s, o)
        BY <2>5, <3>2
      <4>3. CASE j = Len(s) + 1
        BY <2>3, <2>4, <4>1, <4>2, <4>3 DEF Resolves
      <4>4. CASE j \in 1 .. Len(s)
        BY <1>1, <4>1, <4>2, <4>4 DEF OutcomesOwn, OwnInv
      <4> QED BY <4>1, <4>2, <4>3, <4>4
    <3> QED BY <3>1, <3>2
  <2>7. AnsweredOwn'
    BY <1>1, <2>1 DEF Acknowledge, AnsweredOwn, OwnInv, ShapeInv, Bounds
  <2> QED BY <2>6, <2>7 DEF OwnInv
<1> QED BY <1>2, <1>3

\* Every step keeps every resolution with its card.
LEMMA StepOwn ==
  ASSUME ShapeInv, IdInv, OwnInv, Next PROVE OwnInv'
<1>1. FramesKeep
  BY StepIds
<1>2. UNCHANGED turn => \A t \in Turn : turn'[t].outcomes \in {turn[t].outcomes, <<>>}
  OBVIOUS
<1>3. ASSUME NEW t \in Turn, TurnStep(t) PROVE OwnInv'
  <2>1. CASE BridgePark(t) \/ BridgeEnds(t) \/ RaiseTimesOut(t) \/ EndTurn(t) \/ DropTurn(t)
    <3>1. TurnsLose
      BY <2>1, QuietTurn DEF ShapeInv
    <3>2. UNCHANGED history
      BY <2>1 DEF BridgePark, BridgeEnds, RaiseTimesOut, EndTurn, DropTurn
    <3> QED BY <1>1, <3>1, <3>2, OwnKept DEF TurnsLose
  <2>2. CASE Receive(t)
    BY <1>1, <2>2, ReceiveOwn DEF ShapeInv
  <2>3. ASSUME NEW c \in Card, Raise(t, c) PROVE OwnInv'
    <3>1. UNCHANGED history /\ \A u \in Turn : turn'[u].outcomes = turn[u].outcomes
      BY <2>3, RaiseTurn DEF Raise, ShapeInv
    <3> QED BY <1>1, <3>1, OwnKept
  <2>4. ASSUME NEW a \in Answer, SubmitTool(t, a) PROVE OwnInv'
    <3>1. UNCHANGED turn /\ history'.answered = history.answered
      BY <2>4 DEF SubmitTool, ShapeInv, Bounds
    <3> QED BY <1>1, <1>2, <3>1, OwnKept
  <2> QED BY <1>3, <2>1, <2>2, <2>3, <2>4 DEF TurnStep
<1>4. ASSUME NEW f \in Frame, FrameStep(f) PROVE OwnInv'
  <2>1. CASE SubmitTake(f)
    BY <1>1, <2>1, TakeOwn
  <2>2. ASSUME \/ SubmitRead(f) \/ \E ok \in BOOLEAN : SubmitRetired(f, ok)
               \/ \E p \in Pod, n \in announced, a \in Answer : Submit(f, p, n, a)
        PROVE  OwnInv'
    <3>1. UNCHANGED turn /\ history'.answered = history.answered
      BY <2>2 DEF SubmitRead, SubmitRetired, Acknowledge, Submit, ShapeInv, Bounds
    <3> QED BY <1>1, <1>2, <3>1, OwnKept
  <2> QED BY <1>4, <2>1, <2>2 DEF FrameStep
<1>5. ASSUME NEW k \in tasks, RunPersist(k) \/ RunWrite(k) PROVE OwnInv'
  BY <1>1, <1>2, <1>5, OwnKept DEF RunPersist, RunWrite
<1>6. ASSUME NEW p \in Pod, PodDies(p) \/ \E t \in Turn : StartTurn(p, t) PROVE OwnInv'
  <2>1. TurnsLose
    BY <1>6, PodTurns, QuietTurn DEF ShapeInv
  <2>2. UNCHANGED history
    BY <1>6 DEF PodDies, StartTurn
  <2> QED BY <1>1, <2>1, <2>2, OwnKept DEF TurnsLose
<1> QED BY <1>3, <1>4, <1>5, <1>6 DEF Next

-----------------------------------------------------------------------------
(* Contacts.                                                               *)

\* What a field is normalised to is in canonical form.
LEMMA CanonicalIsCanonical ==
  ASSUME NEW k \in IntakeFieldKey, NEW x \in FieldValue(k) \cup {None}, Canonical(k, x) # None
  PROVE  CanonicalForm(k, Canonical(k, x))
<1>1. Filled(x) /\ x \in FieldValue(k)
  BY DEF Canonical, Filled
<1>2. CASE k = "name"
  <2>1. Canonical(k, x) = [x EXCEPT !.trimmed = TRUE] /\ x \in [blank : BOOLEAN, trimmed : BOOLEAN]
    BY <1>1, <1>2 DEF Canonical, FieldValue
  <2>2. Canonical(k, x).trimmed
    BY <2>1
  <2> QED BY <1>2, <2>2 DEF CanonicalForm
<1>3. CASE k = "email"
  <2>1. /\ Canonical(k, x) = normalize_email(x)
        /\ x \in [blank : BOOLEAN, ats : Nat, local : BOOLEAN, parts : Seq(BOOLEAN), lower : BOOLEAN]
    BY <1>1, <1>3 DEF Canonical, FieldValue
  <2>2. normalize_email(x) = [x EXCEPT !.lower = TRUE] /\ Len(x.parts) >= 2 /\ Len(x.parts) \in Nat
    BY <2>1 DEF normalize_email
  <2>3. Canonical(k, x).lower /\ Len(Canonical(k, x).parts) > 1
    BY <2>1, <2>2
  <2> QED BY <1>3, <2>3 DEF CanonicalForm
<1>4. CASE k = "phone"
  <2>1. /\ Canonical(k, x) = normalize_phone_e164(x)
        /\ x \in [blank : BOOLEAN, plus : BOOLEAN, first : Nat, len : Nat, bare : BOOLEAN]
    BY <1>1, <1>4 DEF Canonical, FieldValue
  <2> DEFINE n == Canonical(k, x)
  <2>2. CASE x.plus /\ x.len \in 8 .. 15 /\ x.first # 0
    <3>1. n = [x EXCEPT !.bare = TRUE]
      BY <2>1, <2>2 DEF normalize_phone_e164
    <3>2. n.plus /\ n.bare /\ n.first # 0 /\ n.len \in 8 .. 15
      BY <2>1, <2>2, <3>1
    <3> QED BY <1>4, <3>2 DEF CanonicalForm
  <2>3. CASE ~(x.plus /\ x.len \in 8 .. 15 /\ x.first # 0)
    <3>1. n = Phone(TRUE, 1, 11, TRUE)
      BY <2>1, <2>3 DEF normalize_phone_e164
    <3>2. n.plus /\ n.bare /\ n.first # 0 /\ n.len \in 8 .. 15
      BY <3>1 DEF Phone
    <3> QED BY <1>4, <3>2 DEF CanonicalForm
  <2> QED BY <2>2, <2>3
<1> QED BY <1>2, <1>3, <1>4 DEF IntakeFieldKey

\* An intake that passes validation is canonical.
LEMMA Validated ==
  ASSUME NEW a \in Answer, a # None, a.kind = "identity_intake", NEW spec,
         validate("identity_intake", spec, a.values) # Invalid
  PROVE  AllCanonical(validate("identity_intake", spec, a.values))
<1>1. validate("identity_intake", spec, a.values)
        = [k \in IntakeFieldKey |-> Canonical(k, a.values[k])]
  BY DEF validate, IntakeValidate, validate_intake
<1>2. \A k \in IntakeFieldKey : a.values[k] \in FieldValue(k) \cup {None}
  BY AnswerAssumption
<1>3. \A k \in IntakeFieldKey : Canonical(k, a.values[k]) # None
                                  => CanonicalForm(k, Canonical(k, a.values[k]))
  BY <1>2, CanonicalIsCanonical
<1> QED BY <1>1, <1>3 DEF AllCanonical

\* More contacts earned, or another pending card, and a copy is still earned.
LEMMA EarnsMore ==
  ASSUME NEW m, NEW E, NEW F, E \subseteq F, Earns(m, E) PROVE Earns(m, F)
BY DEF Earns, EarnedField

\* Parking or clearing an interaction stamps no contact.
LEMMA EarnsPending ==
  ASSUME NEW m, NEW E, NEW r, Earns(m, E) PROVE Earns([m EXCEPT !.pending = r], E)
BY DEF Earns, MetaField

\* The fields of an earned contact may be stamped on a copy.
LEMMA StampedEarns ==
  ASSUME NEW m, NEW E, NEW v, Given("submit", v) \in E, AllCanonical(v), Earns(m, E)
  PROVE  Earns(Stamped(m, v), E)
<1> DEFINE s == Stamped(m, v)
<1>1. DOMAIN s = MetaField
  BY DEF Stamped, Earns, MetaField
<1>2. \A k \in IntakeFieldKey : s.contact[k] = IF v[k] # None THEN v[k] ELSE m.contact[k]
  BY DEF Stamped, Earns, MetaField
<1> HIDE DEF s
<1>3. Given("submit", v).by = "submit" /\ Given("submit", v).contact = v
  BY DEF Given
<1>4. \A k \in IntakeFieldKey : v[k] # None => EarnedField(k, v[k], E)
  BY <1>3 DEF AllCanonical, EarnedField
<1>5. \A k \in IntakeFieldKey : s.contact[k] # None => EarnedField(k, s.contact[k], E)
  BY <1>2, <1>4 DEF Earns
<1> QED BY <1>1, <1>5 DEF Earns, s

\* An effect whose contact is earned leaves an earned copy and earned writes.
LEMMA EffectEarns ==
  ASSUME NEW m, NEW E, NEW v, NEW kind, Earns(m, E),
         kind = "identity_intake" => Given("submit", v) \in E /\ AllCanonical(v)
  PROVE  /\ Earns(Effect(m, kind, v), E)
         /\ \A cause, p : \A k \in EffectTasks(cause, p, m, kind, v) : Earns(k.map, E)
<1>1. CASE kind = "identity_intake"
  <2>1. Earns(Stamped(m, v), E)
    BY <1>1, StampedEarns
  <2> QED BY <1>1, <2>1, TaskFields DEF Effect, EffectTasks
<1>2. CASE kind # "identity_intake"
  BY <1>2 DEF Effect, EffectTasks
<1> QED BY <1>1, <1>2

\* What passes for a card is canonical.
LEMMA VerdictCanonical ==
  ASSUME NEW view, NEW id, NEW a \in Answer, Accepted(view, id, a), Verdict(view, a) # None,
         view.kind = "identity_intake"
  PROVE  AllCanonical(Verdict(view, a))
<1>1. a # None /\ a.kind = "identity_intake" /\ Verdict(view, a) # Invalid
  BY DEF Accepted, Verdict
<1>2. Verdict(view, a) = validate("identity_intake", view.spec, a.values)
  BY <1>1 DEF Verdict
<1> QED BY <1>1, <1>2, Validated

\* The submits at work carry what their cards let pass.
LEMMA StepSubmits ==
  ASSUME ShapeInv, SubmitsCanonical, Next PROVE SubmitsCanonical'
<1> USE DEF ShapeInv
<1>1. ASSUME \A f \in Frame : frame'[f] = frame[f] \/ frame'[f].at \notin {"taking", "retiring"}
      PROVE  SubmitsCanonical'
  BY <1>1 DEF SubmitsCanonical
<1>2. ASSUME NEW f \in Frame, frame' = [frame EXCEPT ![f] = Refused] PROVE SubmitsCanonical'
  BY <1>1, <1>2 DEF Refused, UnsentFrame, Frames
<1>3. ASSUME NEW f \in Frame, NEW c, Acknowledge(f, c) PROVE SubmitsCanonical'
  BY <1>1, <1>3 DEF Acknowledge, UnsentFrame, Frames
<1>4. ASSUME NEW f \in Frame, NEW p \in Pod, NEW n, NEW a \in Answer, Submit(f, p, n, a)
      PROVE  SubmitsCanonical'
  <2> DEFINE view == registered[p]
  <2>1. \A g \in Frame : g # f => frame'[g] = frame[g]
    BY <1>4 DEF Submit, Frames
  <2>2. CASE view # None /\ Accepted(view, n.id, a)
    <3>1. frame'[f].kind = view.kind /\ frame'[f].canonical = Verdict(view, a)
      BY <1>4, <2>2 DEF Submit, UnsentFrame, Frames
    <3>2. frame'[f].canonical # None /\ frame'[f].kind = "identity_intake"
            => AllCanonical(frame'[f].canonical)
      BY <2>2, <3>1, VerdictCanonical
    <3> QED BY <2>1, <3>2 DEF SubmitsCanonical, AllCanonical
  <2>3. CASE ~(view # None /\ Accepted(view, n.id, a))
    <3>1. frame'[f].at \in {"reading", "refused"}
      BY <1>4, <2>3 DEF Submit, Refused, UnsentFrame, Frames
    <3> QED BY <1>1, <2>1, <3>1
  <2> QED BY <2>2, <2>3
<1>5. ASSUME NEW f \in Frame, SubmitRead(f) PROVE SubmitsCanonical'
  <2> DEFINE view == store.pending
             a == frame[f].answer
  <2>1. CASE frame' = [frame EXCEPT ![f] = Refused]
    BY <1>2, <2>1
  <2>2. CASE frame' # [frame EXCEPT ![f] = Refused]
    <3>1. /\ Accepted(view, frame[f].id, a)
          /\ frame' = [frame EXCEPT ![f].at = "retiring", ![f].kind = view.kind,
                                    ![f].canonical = Verdict(view, a)]
      BY <1>5, <2>2 DEF SubmitRead
    <3>2. a \in Answer
      BY <1>5 DEF SubmitRead, Frames, AtWork
    <3>3. /\ frame'[f].kind = view.kind /\ frame'[f].canonical = Verdict(view, a)
          /\ \A g \in Frame : g # f => frame'[g] = frame[g]
      BY <3>1 DEF Frames, FrameField
    <3>4. frame'[f].canonical # None /\ frame'[f].kind = "identity_intake"
            => AllCanonical(frame'[f].canonical)
      BY <3>1, <3>2, <3>3, VerdictCanonical
    <3> QED BY <3>3, <3>4 DEF SubmitsCanonical, AllCanonical
  <2> QED BY <2>1, <2>2
<1>6. ASSUME NEW p \in Pod, PodDies(p) PROVE SubmitsCanonical'
  BY <1>1, <1>6 DEF PodDies, Refused, UnsentFrame
<1>7. ASSUME UNCHANGED frame PROVE SubmitsCanonical'
  BY <1>1, <1>7
<1>8. ASSUME NEW t \in Turn, TurnStep(t) PROVE SubmitsCanonical'
  BY <1>7, <1>8 DEF TurnStep, BridgePark, BridgeEnds, Receive, RaiseTimesOut, EndTurn, DropTurn,
                    Raise, SubmitTool
<1>9. ASSUME NEW f \in Frame, FrameStep(f) PROVE SubmitsCanonical'
  BY <1>2, <1>3, <1>4, <1>5, <1>9 DEF FrameStep, SubmitTake, SubmitRetired
<1> QED BY <1>6, <1>7, <1>8, <1>9 DEF Next, StartTurn, RunPersist, RunWrite

\* Copies that are kept, or replaced by earned ones, are earned.
LEMMA CopiesKept ==
  ASSUME CopiesEarned, history.earned \subseteq history'.earned,
         store' = store \/ Earns(store', history'.earned),
         \A p \in Pod : cache'[p] \in {cache[p], None} \/ Earns(cache'[p], history'.earned),
         \A k \in tasks' : \/ k \in tasks \/ "map" \notin DOMAIN k
                           \/ Earns(k.map, history'.earned)
  PROVE  CopiesEarned'
<1>1. \A m : Earns(m, history.earned) => Earns(m, history'.earned)
  BY EarnsMore
<1>2. Earns(store', history'.earned)
  BY <1>1 DEF CopiesEarned
<1>3. \A p \in Pod : cache'[p] # None => Earns(cache'[p], history'.earned)
  BY <1>1 DEF CopiesEarned
<1>4. \A k \in tasks' : "map" \in DOMAIN k => Earns(k.map, history'.earned)
  BY <1>1 DEF CopiesEarned
<1> QED BY <1>2, <1>3, <1>4 DEF CopiesEarned, Earns

\* What an acknowledged submit does to the copies.
LEMMA AcknowledgeEarns ==
  ASSUME ShapeInv, ContactInv, NEW f \in Frame, NEW c, Acknowledge(f, c),
         frame[f].at \in {"taking", "retiring"}
  PROVE  /\ history.earned \subseteq history'.earned
         /\ \A p \in Pod : cache'[p] = cache[p] \/ Earns(cache'[p], history'.earned)
         /\ \A k \in AcknowledgeTasks(f) : Earns(k.map, history'.earned)
<1> DEFINE p == frame[f].pod
           v == frame[f].canonical
           kind == frame[f].kind
<1>1. history'.earned = history.earned \cup Earned(kind, v)
  BY DEF Acknowledge, ShapeInv, Bounds
<1>2. p \in Pod
  BY DEF ShapeInv, Frames, AtWork
<1>3. CASE v = None \/ cache[p] = None
  BY <1>1, <1>3 DEF Acknowledge, AcknowledgeTasks
<1>4. CASE v # None /\ cache[p] # None
  <2>1. kind = "identity_intake" => Given("submit", v) \in history'.earned /\ AllCanonical(v)
    BY <1>1, <1>4 DEF Earned, ContactInv, SubmitsCanonical
  <2>2. Earns(cache[p], history'.earned)
    BY <1>1, <1>2, <1>4, EarnsMore DEF ContactInv, CopiesEarned
  <2>3. /\ Earns(Effect(cache[p], kind, v), history'.earned)
        /\ \A k \in EffectTasks(<<"submit", f>>, p, cache[p], kind, v) :
             Earns(k.map, history'.earned)
    BY <2>1, <2>2, EffectEarns
  <2>4. \A q \in Pod : cache'[q] = IF q = p THEN Effect(cache[p], kind, v) ELSE cache[q]
    BY <1>4 DEF Acknowledge, ShapeInv, Pods
  <2> QED BY <1>1, <1>4, <2>3, <2>4 DEF AcknowledgeTasks
<1> QED BY <1>3, <1>4

\* Every step leaves the copies of the session with contacts that were earned.
LEMMA StepCopies ==
  ASSUME ShapeInv, ContactInv, Next PROVE CopiesEarned'
<1> USE DEF ShapeInv
<1>1. CopiesEarned
  BY DEF ContactInv
<1>2. \A p \in Pod : Earns(load_session(p), history.earned)
  BY <1>1 DEF load_session, CopiesEarned
<1>3. ASSUME NEW t \in Turn, TurnStep(t) PROVE CopiesEarned'
  <2>1. CASE BridgePark(t) \/ BridgeEnds(t) \/ EndTurn(t)
    <3>1. UNCHANGED <<store, cache, history>>
      BY <2>1 DEF BridgePark, BridgeEnds, EndTurn
    <3>2. \A k \in tasks' : k \in tasks \/ "map" \notin DOMAIN k
      BY <2>1, TaskFields DEF BridgePark, BridgeEnds, EndTurn, Withdrawn
    <3> QED BY <1>1, <3>1, <3>2, CopiesKept
  <2>2. CASE Receive(t)
    <3>1. UNCHANGED <<store, cache, tasks>> /\ history'.earned = history.earned
      BY <2>2 DEF Receive, Bounds
    <3> QED BY <1>1, <3>1, CopiesKept
  <2>3. CASE RaiseTimesOut(t) \/ DropTurn(t) \/ \E c \in Card : Raise(t, c)
    <3>1. UNCHANGED <<store, cache, tasks, history>>
      BY <2>3 DEF RaiseTimesOut, DropTurn, Raise
    <3> QED BY <1>1, <3>1, CopiesKept
  <2>4. ASSUME NEW a \in Answer, SubmitTool(t, a) PROVE CopiesEarned'
    <3> DEFINE p == turn[t].pod
               v == validate(a.kind, turn[t].raised[a.kind], a.values)
    <3>1. /\ a # None /\ v # Invalid /\ cache[p] # None /\ UNCHANGED store
          /\ cache' = [cache EXCEPT ![p] = Effect(@, a.kind, v)]
          /\ tasks' = tasks \cup EffectTasks(<<"tool", budget.calls>>, p, cache[p], a.kind, v)
      BY <2>4 DEF SubmitTool
    <3>2. history'.earned = IF a.kind = "identity_intake" THEN history.earned \cup {Given("submit", v)}
                            ELSE history.earned
      BY <2>4 DEF SubmitTool, Bounds
    <3>3. a.kind = "identity_intake" => Given("submit", v) \in history'.earned /\ AllCanonical(v)
      BY <3>1, <3>2, Validated
    <3> HIDE DEF v
    <3>4. history.earned \subseteq history'.earned
      BY <3>2
    <3>5. p \in Pod
      BY <2>4 DEF SubmitTool, Turns
    <3>6. CopiesEarned'
      <4>1. Earns(cache[p], history'.earned)
        BY <1>1, <3>1, <3>4, <3>5, EarnsMore DEF CopiesEarned
      <4>2. /\ Earns(Effect(cache[p], a.kind, v), history'.earned)
            /\ \A k \in EffectTasks(<<"tool", budget.calls>>, p, cache[p], a.kind, v) :
                 Earns(k.map, history'.earned)
        BY <3>3, <4>1, EffectEarns
      <4>3. \A q \in Pod : cache'[q] = IF q = p THEN Effect(cache[p], a.kind, v) ELSE cache[q]
        BY <3>1 DEF Pods
      <4> QED BY <1>1, <3>1, <3>4, <4>2, <4>3, CopiesKept
    <3> QED BY <3>6
  <2> QED BY <1>3, <2>1, <2>2, <2>3, <2>4 DEF TurnStep
<1>4. ASSUME NEW f \in Frame, FrameStep(f) PROVE CopiesEarned'
  <2>1. CASE SubmitTake(f)
    <3>1. UNCHANGED store /\ frame[f].at = "taking"
      BY <2>1 DEF SubmitTake
    <3>2. ASSUME NEW c, Acknowledge(f, c), tasks' = tasks \cup AcknowledgeTasks(f)
          PROVE  CopiesEarned'
      BY <1>1, <3>1, <3>2, AcknowledgeEarns, CopiesKept
    <3>3. ASSUME UNCHANGED <<cache, tasks, history>> PROVE CopiesEarned'
      BY <1>1, <3>1, <3>3, CopiesKept
    <3> QED BY <2>1, <3>2, <3>3 DEF SubmitTake, CacheAfterMiss
  <2>2. CASE SubmitRead(f)
    <3> DEFINE p == frame[f].pod
               retired == [store EXCEPT !.pending = None]
    <3>1. UNCHANGED <<store, history>>
      BY <2>2 DEF SubmitRead
    <3>2. Earns(store, history.earned) /\ Earns(retired, history.earned)
      BY <1>1, EarnsPending DEF CopiesEarned
    <3>3. \A q \in Pod : cache'[q] \in {cache[q], store, retired}
      BY <2>2 DEF SubmitRead, Pods
    <3>4. \A k \in tasks' : k \in tasks \/ k = WriteTask(<<"retire", f>>, p, retired)
      BY <2>2 DEF SubmitRead
    <3> HIDE DEF retired
    <3> QED BY <1>1, <3>1, <3>2, <3>3, <3>4, TaskFields, CopiesKept
  <2>3. ASSUME NEW ok \in BOOLEAN, SubmitRetired(f, ok) PROVE CopiesEarned'
    <3>1. PICK k \in tasks :
            /\ k.cause = <<"retire", f>>
            /\ store' = IF ok THEN k.map ELSE store
            /\ tasks' = (tasks \ {k}) \cup (IF Retired(f, ok) THEN AcknowledgeTasks(f) ELSE {})
      BY <2>3 DEF SubmitRetired
    <3>2. Earns(k.map, history.earned)
      BY <1>1, <3>1 DEF Tasks, CopiesEarned
    <3>3. CASE Retired(f, ok)
      <4>1. Acknowledge(f, frame[f].id) /\ frame[f].at = "retiring"
        BY <2>3, <3>3 DEF SubmitRetired
      <4>2. /\ history.earned \subseteq history'.earned
            /\ \A p \in Pod : cache'[p] = cache[p] \/ Earns(cache'[p], history'.earned)
            /\ \A j \in AcknowledgeTasks(f) : Earns(j.map, history'.earned)
        BY <4>1, AcknowledgeEarns
      <4>3. Earns(k.map, history'.earned)
        BY <3>2, <4>2, EarnsMore
      <4> QED BY <1>1, <3>1, <3>3, <4>2, <4>3, CopiesKept
    <3>4. CASE ~Retired(f, ok)
      <4>1. UNCHANGED <<cache, history>>
        BY <2>3, <3>4 DEF SubmitRetired
      <4> QED BY <1>1, <3>1, <3>2, <3>4, <4>1, CopiesKept
    <3> QED BY <3>3, <3>4
  <2>4. ASSUME NEW p \in Pod, NEW n, NEW a, Submit(f, p, n, a) PROVE CopiesEarned'
    <3>1. UNCHANGED <<store, tasks, history>>
      BY <2>4 DEF Submit
    <3>2. \A q \in Pod : cache'[q] = cache[q] \/ cache'[q] = load_session(q)
      BY <2>4 DEF Submit, Pods
    <3> QED BY <1>1, <1>2, <3>1, <3>2, CopiesKept
  <2> QED BY <1>4, <2>1, <2>2, <2>3, <2>4 DEF FrameStep
<1>5. ASSUME NEW k \in tasks, RunPersist(k) PROVE CopiesEarned'
  <2> DEFINE m == [cache[k.pod] EXCEPT !.pending = k.rec]
  <2>1. UNCHANGED history /\ tasks' \subseteq tasks
    BY <1>5 DEF RunPersist
  <2>2. CASE cache[k.pod] # None
    <3>1. Earns(m, history.earned)
      BY <1>1, <2>2, EarnsPending DEF CopiesEarned, Tasks
    <3>2. store' \in {store, m} /\ \A p \in Pod : cache'[p] \in {cache[p], m}
      BY <1>5, <2>2 DEF RunPersist, Pods
    <3> HIDE DEF m
    <3> QED BY <1>1, <2>1, <3>1, <3>2, CopiesKept
  <2>3. CASE cache[k.pod] = None
    BY <1>1, <1>5, <2>1, <2>3, CopiesKept DEF RunPersist
  <2> QED BY <2>2, <2>3
<1>6. ASSUME NEW k \in tasks, RunWrite(k) PROVE CopiesEarned'
  <2>1. UNCHANGED <<cache, history>> /\ tasks' \subseteq tasks /\ store' \in {store, k.map}
    BY <1>6 DEF RunWrite
  <2>2. Earns(k.map, history.earned)
    BY <1>1, <1>6 DEF RunWrite, CopiesEarned
  <2> QED BY <1>1, <2>1, <2>2, CopiesKept
<1>7. ASSUME NEW p \in Pod, PodDies(p) PROVE CopiesEarned'
  <2>1. /\ UNCHANGED <<store, history>> /\ tasks' \subseteq tasks
        /\ \A q \in Pod : cache'[q] \in {cache[q], None}
    BY <1>7 DEF PodDies, Pods
  <2> QED BY <1>1, <2>1, CopiesKept
<1>8. ASSUME NEW p \in Pod, NEW t \in Turn, StartTurn(p, t) PROVE CopiesEarned'
  <2>1. /\ UNCHANGED <<store, tasks, history>>
        /\ \A q \in Pod : cache'[q] = cache[q] \/ cache'[q] = load_session(q)
    BY <1>8 DEF StartTurn, Pods
  <2> QED BY <1>1, <1>2, <2>1, CopiesKept
<1> QED BY <1>3, <1>4, <1>5, <1>6, <1>7, <1>8 DEF Next

-----------------------------------------------------------------------------
(* The theorems.                                                           *)

\* The inductive invariant holds at the start.
LEMMA InitIInv == Init => IInv
<1> SUFFICES ASSUME Init PROVE ShapeInv /\ IdInv /\ OwnInv /\ ContactInv
  BY DEF IInv
<1>1. <<>> \in Seq(Outcome)
  OBVIOUS
<1>2. /\ \A t \in Turn : turn[t] = FreeTurn
      /\ \A f \in Frame : frame[f] = UnsentFrame
      /\ \A p \in Pod : registered[p] = None /\ cache[p] = None
      /\ tasks = {} /\ history.answered = {}
  BY DEF Init
<1>3. Turns /\ Frames /\ Pods /\ Tasks
  BY <1>1, <1>2 DEF Init, Turns, Frames, Pods, Tasks, FreeTurn, UnsentFrame, TurnField, FrameField,
                    AtWork
<1>4. Bounds
  BY InteractionAssumption DEF Init, Bounds
<1>5. \A t \in Turn : turn[t].request = None /\ turn[t].outcomes = <<>>
  BY <1>2 DEF FreeTurn
<1>6. \A f \in Frame : frame[f].at = "unsent" /\ ~Live(f)
  BY <1>2 DEF UnsentFrame, Live
<1>7. IdInv
  BY <1>2, <1>5, <1>6 DEF IdInv, DrawnOnly, OneHolder, RequestOnce, ShownOnce, TookOnce,
                          Requested, Shown, TookLive
<1>8. OwnInv
  BY <1>2, <1>5 DEF OwnInv, OutcomesOwn, AnsweredOwn
<1>9. ContactInv
  <2>1. PICK supports, email : /\ store = Meta(supports, email)
                               /\ history.earned = {Given("create", Opened(email))}
    BY DEF Init
  <2>2. /\ DOMAIN store = MetaField /\ store.contact = Opened(email)
        /\ \A k \in IntakeFieldKey : k # "email" => Opened(email)[k] = None
    BY <2>1 DEF Meta, MetaField, Opened, NoContact
  <2>3. /\ Given("create", Opened(email)).by = "create"
        /\ Given("create", Opened(email)).contact = Opened(email)
    BY DEF Given
  <2>4. Earns(store, history.earned)
    BY <2>1, <2>2, <2>3 DEF Earns, EarnedField
  <2> QED BY <1>2, <1>6, <2>4 DEF ContactInv, CopiesEarned, SubmitsCanonical
<1> QED BY <1>3, <1>4, <1>7, <1>8, <1>9 DEF ShapeInv

\* Every step keeps the inductive invariant.
LEMMA StepIInv == IInv /\ [Next]_vars => IInv'
<1> SUFFICES ASSUME IInv, [Next]_vars PROVE IInv'
  OBVIOUS
<1>1. CASE Next
  BY <1>1, StepIds, StepOwn, StepCopies, StepSubmits DEF IInv, ContactInv
<1>2. CASE UNCHANGED vars
  <2>1. ShapeInv'
    BY <1>2 DEF vars, IInv, ShapeInv, Turns, Frames, Pods, Tasks, Bounds
  <2>2. IdInv'
    BY <1>2 DEF vars, IInv, IdInv, DrawnOnly, OneHolder, RequestOnce, ShownOnce, TookOnce,
                Requested, Shown, TookLive, Live, Drawn, FreshId
  <2>3. OwnInv' /\ ContactInv'
    BY <1>2 DEF vars, IInv, OwnInv, OutcomesOwn, AnsweredOwn, Resolves, ContactInv, CopiesEarned,
                SubmitsCanonical
  <2> QED BY <2>1, <2>2, <2>3 DEF IInv
<1> QED BY <1>1, <1>2

\* state.rs take_interaction: of the submits acknowledged on the live path, no
\* two resolve the same card.
THEOREM CardsResolveOnce == Spec => []LiveOnce
<1>1. IInv => LiveOnce
  BY DEF IInv, IdInv, TookOnce, Live, LiveOnce
<1> QED BY <1>1, InitIInv, StepIInv, PTL DEF Spec

\* interaction.rs InteractionResolution: a raise only returns what was sent for
\* its own card.
THEOREM RaisesReturnOwn == Spec => []ReturnsOwnAnswer
<1>1. IInv => ReturnsOwnAnswer
  BY DEF IInv, OwnInv, AnsweredOwn, Resolves, ReturnsOwnAnswer
<1> QED BY <1>1, InitIInv, StepIInv, PTL DEF Spec

\* handler.rs handle_submit_interaction: what the session knows of its visitor,
\* in storage, in any copy and in any write on its way, was given by a submit
\* that was acknowledged, and is canonical, or is the address the session was
\* created with.
THEOREM ContactsEarned == Spec => []ContactEarned
<1>1. IInv => ContactEarned
  <2> SUFFICES ASSUME IInv, NEW m \in Copies PROVE Earns(m, history.earned)
    BY DEF ContactEarned, Earns, EarnedField
  <2> QED BY DEF IInv, ContactInv, CopiesEarned, Copies
<1> QED BY <1>1, InitIInv, StepIInv, PTL DEF Spec
=============================================================================

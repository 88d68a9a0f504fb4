----------------------------- MODULE Interaction -----------------------------
(***************************************************************************)
(* Rich interactions of one session, on pods that share storage.           *)
(*                                                                         *)
(* A turn raises a card and parks (tools/interaction.rs                    *)
(* RequestInteractionTool); its bridge records, registers and announces it *)
(* (runner.rs spawn_interaction_bridge); submit_interaction answers it,    *)
(* live on the pod of the turn or from the durable record (handler.rs      *)
(* handle_submit_interaction); an accepted identity_intake gives the       *)
(* session its contact.                                                    *)
(*                                                                         *)
(* Every pod has a cached copy of the session.  A metadata key is set in   *)
(* the copy first, and then the whole map is written to storage (state.rs  *)
(* set_session_meta_key, attach_session_identity).  Between two steps of a *)
(* handler other threads may run; code without an await in between is one  *)
(* step, except that a submit looks at the registered card and takes it    *)
(* under separate locks.                                                   *)
(***************************************************************************)
EXTENDS Intake

CONSTANTS Pod,
          Card,         \* what the model may raise: [kind, args]
          Answer,       \* what a visitor may submit: [kind, values], or None to decline
          Supports,     \* the kinds a client may have declared it renders
          Opening,      \* the addresses create_session may have been given, or None
          MaxTurns, MaxCards, MaxSubmits, MaxCalls,  \* bounds
          Faulty        \* storage writes may fail and pods may die

ASSUME InteractionAssumption ==
  /\ \A c \in Card : c.kind \in Kind
  /\ Supports \subseteq SUBSET Kind
  /\ Opening \subseteq FieldValue("email") \cup {None}
  /\ {MaxTurns, MaxCards, MaxSubmits, MaxCalls} \subseteq Nat
  /\ Faulty \in BOOLEAN

\* What a visitor submits for an intake is of the card's fields.
ASSUME AnswerAssumption ==
  \A a \in Answer : a # None /\ a.kind = "identity_intake" =>
    \A k \in IntakeFieldKey : a.values[k] \in FieldValue(k) \cup {None}

Turn == 1 .. MaxTurns
Frame == 1 .. MaxSubmits
CardId == 1 .. MaxCards     \* uuids, in the order they are drawn

VARIABLES
  store,       \* the session's metadata in storage
  cache,       \* each pod's copy of it, None when the session is not loaded
  tasks,       \* spawned or awaited metadata writes on their way
  registered,  \* pending_interactions of each pod
  turn,        \* the turns: task, tools and bridge
  frame,       \* submit_interaction frames and where their handlers are
  announced,   \* cards a client was shown, as [id, kind]
  budget,      \* bound: cards and tool calls the model has left
  history      \* what happened: contacts earned, raises answered

vars == <<store, cache, tasks, registered, turn, frame, announced, budget, history>>

NoContact == [k \in IntakeFieldKey |-> None]

\* What create_session knows of the visitor: an address, as it was given.
Opened(email) == [NoContact EXCEPT !["email"] = email]

\* The keys of the metadata map that this part of the server reads and writes, as
\* handle_create_session leaves them.
Meta(supports, email) ==
  [pending |-> None, contact |-> Opened(email), supports |-> supports]

\* A contact the session was given, when it was created or by a submit.
Given(by, contact) == [by |-> by, contact |-> contact]

FreeTurn ==
  [at |-> "free", pod |-> None, rich |-> {}, card |-> None,
   raised |-> [k \in Kind |-> None], request |-> None, outcomes |-> <<>>,
   bridge |-> "off", outstanding |-> FALSE]

UnsentFrame ==
  [at |-> "unsent", pod |-> None, id |-> None, answer |-> None, live |-> FALSE,
   canonical |-> None, kind |-> None, took |-> None]

\* A submit that was answered without effect.
Refused == [UnsentFrame EXCEPT !.at = "refused"]

Init ==
  /\ \E supports \in Supports, email \in Opening :
       /\ store = Meta(supports, email)
       /\ history = [earned |-> {Given("create", Opened(email))}, answered |-> {}]
  /\ cache = [p \in Pod |-> None]
  /\ tasks = {}
  /\ registered = [p \in Pod |-> None]
  /\ turn = [t \in Turn |-> FreeTurn]
  /\ frame = [f \in Frame |-> UnsentFrame]
  /\ announced = {}
  /\ budget = [cards |-> MaxCards, calls |-> MaxCalls]

------------------------------------------------------------------------------
(* Session metadata.                                                        *)

\* The copy a handler works on once load_session has primed the cache.
load_session(p) == IF cache[p] = None THEN store ELSE cache[p]

\* A write of the whole map m by pod p, for a cause that names it.
WriteTask(cause, p, m) == [cause |-> cause, pod |-> p, map |-> m]

\* A task spawned to set the pending key; it has not looked at the cache yet.
PersistTask(cause, p, rec) == [cause |-> cause, pod |-> p, rec |-> rec]

\* attach_session_identity: only the fields provided are written.
Stamped(m, values) ==
  [m EXCEPT !.contact = [k \in IntakeFieldKey |->
                           IF values[k] # None THEN values[k] ELSE m.contact[k]]]

\* attach_interaction_effect on a copy m of the session.
Effect(m, kind, values) == IF kind = "identity_intake" THEN Stamped(m, values) ELSE m

\* What is written of it: only identity_intake touches the session.
EffectTasks(cause, p, m, kind, values) ==
  IF kind = "identity_intake" THEN {WriteTask(cause, p, Stamped(m, values))} ELSE {}

\* set_session_meta_key on the pending key, in a task spawned for it: the
\* copy of the pod (if it has one) and then storage, which may fail.
RunPersist(k) ==
  LET m == [cache[k.pod] EXCEPT !.pending = k.rec]
  IN /\ "rec" \in DOMAIN k
     /\ tasks' = tasks \ {k}
     /\ \/ cache[k.pod] = None /\ UNCHANGED <<store, cache>>
        \/ /\ cache[k.pod] # None
           /\ cache' = [cache EXCEPT ![k.pod] = m]
           /\ store' = m \/ (Faulty /\ UNCHANGED store)
     /\ UNCHANGED <<registered, turn, frame, announced, budget, history>>

\* A write of a map that was put together earlier lands, or fails.
RunWrite(k) ==
  /\ "map" \in DOMAIN k /\ k.cause[1] # "retire"
  /\ tasks' = tasks \ {k}
  /\ store' = k.map \/ (Faulty /\ UNCHANGED store)
  /\ UNCHANGED <<cache, registered, turn, frame, announced, budget, history>>

------------------------------------------------------------------------------
(* Turns.                                                                   *)

Alive(t) == turn[t].at \in {"running", "parked"}

\* The raise tools that park: the client declared their capability.
RichKinds(m) == m.supports

\* handle_send_message gets the pod's claim; the capabilities are those of the
\* pod's copy of the session at this moment.
StartTurn(p, t) ==
  /\ turn[t].at = "free" /\ \A u \in Turn : u < t => turn[u].at # "free"
  /\ \A u \in Turn : turn[u].pod = p => turn[u].at \in {"over", "dead"}
  /\ cache' = [cache EXCEPT ![p] = load_session(p)]
  /\ turn' = [turn EXCEPT ![t] = [FreeTurn EXCEPT !.at = "running", !.pod = p,
                                    !.rich = RichKinds(load_session(p)), !.bridge = "on"]]
  /\ UNCHANGED <<store, tasks, registered, frame, announced, budget, history>>

\* The id the raise tool draws for its card.
FreshId == MaxCards + 1 - budget.cards

\* RequestInteractionTool::execute: malformed arguments go back to the model;
\* a rich kind parks, any other gets its directive and leaves its spec.
Raise(t, c) ==
  /\ turn[t].at = "running" /\ budget.cards > 0
  /\ budget' = [budget EXCEPT !.cards = @ - 1]
  /\ LET spec == parse_request(c.kind, c.args)
         id == FreshId
     IN /\ spec # Invalid
        /\ turn' = [turn EXCEPT ![t].at = IF c.kind \in turn[t].rich THEN "parked" ELSE @,
                                ![t].card = IF c.kind \in turn[t].rich THEN id ELSE @,
                                ![t].request = IF c.kind \in turn[t].rich
                                     THEN [id |-> id, kind |-> c.kind, spec |-> spec] ELSE @,
                                ![t].raised = IF c.kind \in turn[t].rich THEN @ ELSE [@ EXCEPT ![c.kind] = spec]]
  /\ UNCHANGED <<store, cache, tasks, registered, frame, announced, history>>

\* spawn_interaction_bridge takes a raise: record, register, announce.
BridgePark(t) ==
  /\ turn[t].bridge = "on" /\ turn[t].request # None
  /\ LET r == turn[t].request
     IN /\ tasks' = tasks \cup {PersistTask(<<"park", r.id>>, turn[t].pod, r)}
        /\ registered' = [registered EXCEPT ![turn[t].pod] =
                            [id |-> r.id, kind |-> r.kind, spec |-> r.spec, turn |-> t]]
        /\ announced' = announced \cup {[id |-> r.id, kind |-> r.kind]}
  /\ turn' = [turn EXCEPT ![t].request = None, ![t].outstanding = TRUE]
  /\ UNCHANGED <<store, cache, frame, budget, history>>

\* Mutation: the parked tool takes whatever comes first.
OwnAnswer_Any(t) == TRUE

\* The oldest resolution answers the card this raise waits for.
OwnAnswer(t) == Head(turn[t].outcomes).id = turn[t].card

\* The parked tool receives: its own resolution ends the park, another one
\* (for a card that gave up) is dropped.
Receive(t) ==
  /\ turn[t].at = "parked" /\ turn[t].outcomes # <<>>
  /\ turn' = [turn EXCEPT ![t].outcomes = Tail(@),
                          ![t].at = IF OwnAnswer(t) THEN "running" ELSE @]
  /\ history' = IF OwnAnswer(t)
                THEN [history EXCEPT !.answered =
                        @ \cup {[card |-> turn[t].card, by |-> Head(turn[t].outcomes).by]}]
                ELSE history
  /\ UNCHANGED <<store, cache, tasks, registered, frame, announced, budget>>

\* INTERACTION_TIMEOUT: the visitor did not answer, the turn goes on.
RaiseTimesOut(t) ==
  /\ turn[t].at = "parked" /\ turn[t].outcomes = <<>>
  /\ turn' = [turn EXCEPT ![t].at = "running"]
  /\ UNCHANGED <<store, cache, tasks, registered, frame, announced, budget, history>>

\* SubmitInteractionTool::execute, there when some kind is not rich: the
\* values are checked against the spec raised this turn, or none.
SubmitTool(t, a) ==
  /\ turn[t].at = "running" /\ turn[t].rich # Kind
  /\ a # None /\ budget.calls > 0
  /\ LET p == turn[t].pod
         v == validate(a.kind, turn[t].raised[a.kind], a.values)
     IN /\ v # Invalid /\ cache[p] # None
        /\ cache' = [cache EXCEPT ![p] = Effect(@, a.kind, v)]
        /\ tasks' = tasks \cup EffectTasks(<<"tool", budget.calls>>, p, cache[p], a.kind, v)
        /\ history' = [history EXCEPT !.earned =
                         IF a.kind = "identity_intake" THEN @ \cup {Given("submit", v)} ELSE @]
  /\ budget' = [budget EXCEPT !.calls = @ - 1]
  /\ UNCHANGED <<store, registered, turn, frame, announced>>

\* A turn that is over keeps nothing but its bridge.
Ended(t, at) ==
  [FreeTurn EXCEPT !.at = at, !.pod = turn[t].pod, !.bridge = turn[t].bridge,
                   !.request = turn[t].request, !.outstanding = turn[t].outstanding]

\* The bridge's last act: it withdraws a record it made.
Withdrawn(t) ==
  IF turn[t].outstanding THEN tasks \cup {PersistTask(<<"end", t>>, turn[t].pod, None)} ELSE tasks

\* The executor returns: the agent is dropped, the drained bridge awaited, the
\* registration cleared by the guard.
EndTurn(t) ==
  /\ turn[t].at = "running" /\ turn[t].request = None
  /\ tasks' = Withdrawn(t)
  /\ registered' = [registered EXCEPT ![turn[t].pod] = None]
  /\ turn' = [turn EXCEPT ![t] = [Ended(t, "over") EXCEPT !.bridge = "done", !.outstanding = FALSE]]
  /\ UNCHANGED <<store, cache, frame, announced, budget, history>>

\* The turn's future is dropped by a cancel or a disconnect: the guard still
\* clears; the bridge is a task of its own ...
DropTurn(t) ==
  /\ Alive(t)
  /\ registered' = [registered EXCEPT ![turn[t].pod] = None]
  /\ turn' = [turn EXCEPT ![t] = Ended(t, "dead")]
  /\ UNCHANGED <<store, cache, tasks, frame, announced, budget, history>>

\* ... and ends by itself when its channel is empty.
BridgeEnds(t) ==
  /\ turn[t].at = "dead" /\ turn[t].bridge = "on" /\ turn[t].request = None
  /\ turn' = [turn EXCEPT ![t].bridge = "done", ![t].outstanding = FALSE]
  /\ tasks' = Withdrawn(t)
  /\ UNCHANGED <<store, cache, registered, frame, announced, budget, history>>

------------------------------------------------------------------------------
(* submit_interaction.                                                      *)

\* What the handler makes of an answer to the pending card: None declines.
Verdict(view, a) == IF a = None THEN None ELSE validate(view.kind, view.spec, a.values)

\* The answer names this card, and its values (if any) pass.
Accepted(view, id, a) ==
  /\ view.id = id
  /\ a # None => a.kind = view.kind
  /\ Verdict(view, a) # Invalid

\* Peek at the live card of the pod; without one, storage is asked.  A
\* mismatch or invalid values answer at once and leave everything as it is.
Submit(f, p, n, a) ==
  /\ frame[f].at = "unsent" /\ \A g \in Frame : g < f => frame[g].at # "unsent"
  /\ n \in announced
  /\ cache' = [cache EXCEPT ![p] = load_session(p)]
  /\ LET view == registered[p]
         sent == [UnsentFrame EXCEPT !.pod = p, !.id = n.id, !.answer = a]
     IN frame' = [frame EXCEPT ![f] =
          IF view = None THEN [sent EXCEPT !.at = "reading"]
          ELSE IF ~Accepted(view, n.id, a) THEN Refused
          ELSE [sent EXCEPT !.at = "taking", !.live = TRUE, !.kind = view.kind,
                            !.canonical = Verdict(view, a)]]
  /\ UNCHANGED <<store, tasks, registered, turn, announced, budget, history>>

\* The contact a submit earns.
Earned(kind, canonical) ==
  IF canonical # None /\ kind = "identity_intake" THEN {Given("submit", canonical)} ELSE {}

\* The effect of an accepted submit f, which took card c, and its answer.
Acknowledge(f, c) ==
  LET p == frame[f].pod
      v == frame[f].canonical
  IN /\ cache' = IF v = None \/ cache[p] = None THEN cache
                 ELSE [cache EXCEPT ![p] = Effect(@, frame[f].kind, v)]
     /\ history' = [history EXCEPT !.earned = @ \cup Earned(frame[f].kind, v)]
     /\ frame' = [frame EXCEPT ![f] = [UnsentFrame EXCEPT !.at = "accepted", !.took = c,
                                     !.id = frame[f].id, !.live = frame[f].live]]

AcknowledgeTasks(f) ==
  LET p == frame[f].pod
  IN IF frame[f].canonical = None \/ cache[p] = None THEN {}
     ELSE EffectTasks(<<"submit", f>>, p, cache[p], frame[f].kind, frame[f].canonical)

\* Mutation: the card is cloned, not taken.
Taken_Cloned(p) == registered

\* pending_interactions after take_interaction.
Taken(p) == [registered EXCEPT ![p] = None]

\* Mutation: the host effect runs before the responder is proven live.
CacheAfterMiss_Effect(f) ==
  IF frame[f].canonical = None \/ cache[frame[f].pod] = None THEN cache
  ELSE [cache EXCEPT ![frame[f].pod] = Effect(@, frame[f].kind, frame[f].canonical)]

\* The pod's copies after a submit that found nobody to resume.
CacheAfterMiss(f) == cache

\* resolve_interaction: take whatever card is registered now, tag the outcome
\* with its id, and send it to the turn; nothing there, or a turn that is
\* gone, and the submit has no effect.
SubmitTake(f) ==
  /\ frame[f].at = "taking"
  /\ LET card == registered[frame[f].pod]
     IN /\ registered' = Taken(frame[f].pod)
        /\ IF card # None /\ Alive(card.turn)
           THEN /\ turn' = [turn EXCEPT ![card.turn].outcomes = Append(@, [id |-> card.id, by |-> f])]
                /\ tasks' = tasks \cup AcknowledgeTasks(f)
                /\ Acknowledge(f, card.id)
           ELSE /\ frame' = [frame EXCEPT ![f] = Refused]
                /\ cache' = CacheAfterMiss(f)
                /\ UNCHANGED <<turn, tasks, history>>
  /\ UNCHANGED <<store, announced, budget>>

\* durable_pending_interaction: a fresh read primes the cache; an acceptable
\* answer retires the record, in the copy and then in storage.
SubmitRead(f) ==
  /\ frame[f].at = "reading"
  /\ LET p == frame[f].pod
         view == store.pending
         retired == [store EXCEPT !.pending = None]
     IN IF view = None
        THEN frame' = [frame EXCEPT ![f] = Refused] /\ UNCHANGED <<cache, tasks>>
        ELSE IF ~Accepted(view, frame[f].id, frame[f].answer)
        THEN /\ frame' = [frame EXCEPT ![f] = Refused]
             /\ cache' = [cache EXCEPT ![p] = store]
             /\ UNCHANGED tasks
        ELSE /\ frame' = [frame EXCEPT ![f].at = "retiring", ![f].kind = view.kind,
                                       ![f].canonical = Verdict(view, frame[f].answer)]
             /\ cache' = [cache EXCEPT ![p] = retired]
             /\ tasks' = tasks \cup {WriteTask(<<"retire", f>>, p, retired)}
  /\ UNCHANGED <<store, registered, turn, announced, budget, history>>

\* The retiring write went through.
Retired(f, ok) == ok

\* The retiring write lands and the submit takes effect, or it fails and the
\* submit is answered with STORAGE_ERROR.
SubmitRetired(f, ok) ==
  /\ frame[f].at = "retiring" /\ (ok \/ Faulty)
  /\ \E k \in tasks :
       /\ k.cause = <<"retire", f>>
       /\ store' = IF ok THEN k.map ELSE store
       /\ tasks' = (tasks \ {k}) \cup (IF Retired(f, ok) THEN AcknowledgeTasks(f) ELSE {})
  /\ IF Retired(f, ok) THEN Acknowledge(f, frame[f].id)
     ELSE frame' = [frame EXCEPT ![f] = Refused] /\ UNCHANGED <<cache, history>>
  /\ UNCHANGED <<registered, turn, announced, budget>>

\* A pod dies and comes back empty.
PodDies(p) ==
  /\ Faulty
  /\ cache' = [cache EXCEPT ![p] = None]
  /\ registered' = [registered EXCEPT ![p] = None]
  /\ tasks' = {k \in tasks : k.pod # p}
  /\ turn' = [t \in Turn |-> IF turn[t].pod # p THEN turn[t]
                             ELSE [FreeTurn EXCEPT !.at = "dead", !.pod = p, !.bridge = "done"]]
  /\ frame' = [f \in Frame |-> IF frame[f].pod = p /\ frame[f].at \in {"reading", "taking", "retiring"}
                               THEN Refused ELSE frame[f]]
  /\ UNCHANGED <<store, announced, budget, history>>

------------------------------------------------------------------------------
TurnStep(t) ==
  \/ BridgePark(t) \/ BridgeEnds(t) \/ Receive(t) \/ RaiseTimesOut(t)
  \/ EndTurn(t) \/ DropTurn(t)
  \/ \E c \in Card : Raise(t, c)
  \/ \E a \in Answer : SubmitTool(t, a)

FrameStep(f) ==
  \/ SubmitTake(f) \/ SubmitRead(f)
  \/ \E ok \in BOOLEAN : SubmitRetired(f, ok)
  \/ \E p \in Pod, n \in announced, a \in Answer : Submit(f, p, n, a)

Next ==
  \/ \E t \in Turn : TurnStep(t)
  \/ \E f \in Frame : FrameStep(f)
  \/ \E k \in tasks : RunPersist(k) \/ RunWrite(k)
  \/ \E p \in Pod : \/ PodDies(p)
                    \/ \E t \in Turn : StartTurn(p, t)

Spec == Init /\ [][Next]_vars

------------------------------------------------------------------------------
(* Properties.                                                              *)

Copies == {store} \cup {cache[p] : p \in {q \in Pod : cache[q] # None}}
            \cup {k.map : k \in {j \in tasks : "map" \in DOMAIN j}}

TypeOK ==
  /\ \A m \in Copies : /\ m.supports \subseteq Kind
                        /\ m.pending # None => m.pending.id \in CardId /\ m.pending.kind \in Kind
  /\ \A p \in Pod : registered[p] # None => registered[p].turn \in Turn
  /\ \A t \in Turn : /\ turn[t].at \in {"free", "running", "parked", "over", "dead"}
                     /\ turn[t].pod \in Pod \cup {None}
                     /\ turn[t].card \in CardId \cup {None}
                     /\ turn[t].bridge \in {"off", "on", "done"}
  /\ \A f \in Frame : frame[f].at \in {"unsent", "reading", "taking", "retiring", "refused", "accepted"}

\* state.rs take_interaction: of all submits the server acknowledges on the
\* live path, no two resolve the same card, however they race with one
\* another, with the timeout of the card and with the turn's end.
LiveOnce ==
  \A f, g \in Frame :
    /\ f # g /\ frame[f].live /\ frame[g].live
    /\ frame[f].at = "accepted" /\ frame[g].at = "accepted"
    => frame[f].took # frame[g].took

\* interaction.rs InteractionResolution: the raises of a turn share one
\* channel, yet a raise only returns what was sent for its own card; the
\* answer to a card that gave up is not taken for the next one's.
ReturnsOwnAnswer ==
  \A r \in history.answered : frame[r.by].took = r.card

CanonicalForm(k, x) == CASE k = "name" -> x.trimmed
                         [] k = "email" -> x.lower /\ Len(x.parts) > 1
                         [] k = "phone" -> x.plus /\ x.bare /\ x.first # 0 /\ x.len \in 8 .. 15

\* handler.rs handle_submit_interaction: what the session knows of its
\* visitor, in storage, in any pod's copy and in any write on its way, was
\* given by a submit that was acknowledged, and is then in canonical form (an
\* E.164 number, an address whose domain is in lower case) whichever path it
\* came by, or is the address the session was created with, which is stamped
\* as it came; a refused, declined, late or failed submit leaves no trace.
ContactEarned ==
  \A m \in Copies : \A k \in IntakeFieldKey : m.contact[k] # None =>
    \E e \in history.earned :
      /\ m.contact[k] = e.contact[k]
      /\ e.by = "create" => k = "email"
      /\ e.by = "submit" => CanonicalForm(k, m.contact[k])

\* handler.rs handle_submit_interaction: "a stale submit can never resolve a
\* newer park".
TakesWhatItNamed ==
  \A f \in Frame : frame[f].at = "accepted" => frame[f].took = frame[f].id

\* The same: "taking the responder only on resolution makes a duplicate
\* submit a no-op".
AcceptedOnce ==
  \A f, g \in Frame :
    frame[f].at = "accepted" /\ frame[g].at = "accepted" /\ frame[f].id = frame[g].id => f = g
=============================================================================

---------------------------- MODULE Confirmation ----------------------------
(***************************************************************************)
(* Write-tool confirmations of one session, on several pods that share     *)
(* storage: the confirmation bridge of a turn (runner.rs                   *)
(* spawn_confirmation_bridge and the teardown around execute_streaming),   *)
(* the in-process responders and pre-approvals (state.rs                   *)
(* register_confirmation ... take_pre_approval), the durable record        *)
(* (set_pending_confirmation) and the confirm_tool_action handler          *)
(* (handler.rs handle_confirm_tool_action, durable_confirm_fallback).      *)
(*                                                                         *)
(* The bridge leaves every write of the record to a task spawned for it,   *)
(* and nothing orders these tasks.  The pod's cached copy of the record is *)
(* never read on these paths and left out.  A turn has its pod's claim on  *)
(* the conversation (RunningTurns), a registry of that pod alone.          *)
(***************************************************************************)
EXTENDS Naturals, Sequences

CONSTANTS Pod, Tool,
          MaxTurns,     \* bound on turns
          MaxCalls,     \* bound on the gated calls of one turn
          MaxConfirms,  \* bound on confirm_tool_action frames
          Faulty,       \* storage writes may fail and pods may die
          None

ASSUME ConfirmationAssumption ==
  /\ MaxTurns \in Nat /\ MaxCalls \in Nat /\ MaxConfirms \in Nat
  /\ Faulty \in BOOLEAN
  /\ None \notin Nat

Turn == 1 .. MaxTurns
Frame == 1 .. MaxConfirms
Call == Turn \X (1 .. MaxCalls)

VARIABLES
  \* turns
  pod,          \* the pod a turn runs on
  stage,        \* where its task is
  aborted,      \* it was cancelled: the claim is gone, the future not yet dropped
  asked,        \* gated calls it has made; the last one is the current one
  tool,         \* the tool of the current call
  request,      \* HumanRequest::Confirm is in the bridge's channel
  bridge,       \* the bridge task: "on" until it has seen the channel close
  outstanding,  \* the bridge's record_outstanding
  preApproved,  \* the bridge's pre_approved
  verdicts,     \* the channel of human responses into the hook
  \* pods
  responder,    \* pending_confirmations: the turn whose sender is registered
  grant,        \* pre_approved_confirmations
  busy,         \* the turn that has the conversation's claim
  \* storage
  stored,       \* pendingConfirmation of the session row
  writes,       \* writes of it on their way
  \* clients
  prompted,     \* calls announced by write_confirmation_required
  frame,        \* confirm_tool_action frames and where their handlers are
  executed,     \* calls the hook let through, and the frame that paid for each
  misused       \* grants that a turn took which was not spawned for them

turnVars == <<pod, stage, aborted, asked, tool, request, bridge, outstanding,
              preApproved, verdicts>>
podVars == <<responder, grant, busy>>
storeVars == <<stored, writes>>
clientVars == <<prompted, frame, executed, misused>>
vars == <<turnVars, podVars, storeVars, clientVars>>

\* "running": between gated calls, "parked": inside the hook's pre_call,
\* "closing": the agent is dropped, the bridge awaited, "over": torn down.
Stage == {"free", "running", "parked", "closing", "over"}

Record == [call : Call, tool : Tool]
Grant == [tool : Tool, by : Frame]
Verdict == [ok : BOOLEAN, by : Frame]

\* A write is named by its cause: a park, a resolved park, the end of a turn.
Cause == ({"park"} \X Call) \cup ({"resolved"} \X Frame) \cup ({"end"} \X Turn)
Write == [cause : Cause, pod : Pod, rec : Record \cup {None}]

\* Where the handler of a frame is, the record it has read and what it made of it.
Place == {"unsent", "reading", "retiring", "granted", "done"}
Handler == [at : Place, pod : Pod \cup {None}, ok : BOOLEAN, meant : Call \cup {None},
            rec : Record \cup {None}, fresh : BOOLEAN]

Unsent == [at |-> "unsent", pod |-> None, ok |-> FALSE, meant |-> None,
           rec |-> None, fresh |-> FALSE]

TypeOK ==
  /\ pod \in [Turn -> Pod \cup {None}]
  /\ stage \in [Turn -> Stage]
  /\ aborted \in [Turn -> BOOLEAN]
  /\ asked \in [Turn -> 0 .. MaxCalls]
  /\ tool \in [Turn -> Tool \cup {None}]
  /\ request \in [Turn -> BOOLEAN]
  /\ bridge \in [Turn -> {"off", "on", "done"}]
  /\ outstanding \in [Turn -> BOOLEAN]
  /\ preApproved \in [Turn -> Grant \cup {None}]
  /\ verdicts \in [Turn -> Seq(Verdict)]
  /\ responder \in [Pod -> Turn \cup {None}]
  /\ grant \in [Pod -> Grant \cup {None}]
  /\ busy \in [Pod -> Turn \cup {None}]
  /\ stored \in Record \cup {None}
  /\ writes \subseteq Write
  /\ prompted \subseteq Call
  /\ frame \in [Frame -> Handler]
  /\ executed \subseteq [call : Call, by : Frame]
  /\ misused \subseteq Frame

Init ==
  /\ pod = [t \in Turn |-> None]
  /\ stage = [t \in Turn |-> "free"]
  /\ aborted = [t \in Turn |-> FALSE]
  /\ asked = [t \in Turn |-> 0]
  /\ tool = [t \in Turn |-> None]
  /\ request = [t \in Turn |-> FALSE]
  /\ bridge = [t \in Turn |-> "off"]
  /\ outstanding = [t \in Turn |-> FALSE]
  /\ preApproved = [t \in Turn |-> None]
  /\ verdicts = [t \in Turn |-> <<>>]
  /\ responder = [p \in Pod |-> None]
  /\ grant = [p \in Pod |-> None]
  /\ busy = [p \in Pod |-> None]
  /\ stored = None
  /\ writes = {}
  /\ prompted = {}
  /\ frame = [f \in Frame |-> Unsent]
  /\ executed = {}
  /\ misused = {}

------------------------------------------------------------------------------
(* Helpers.                                                                 *)

Current(t) == <<t, asked[t]>>

\* The hook, and with it the receiving end of the responses, still exists.
Alive(t) == stage[t] \in {"running", "parked"}

\* Bound: turns are started in the order of their names.
NextTurn(t) == stage[t] = "free" /\ \A u \in Turn : u < t => stage[u] # "free"
NextFrame(f) == frame[f].at = "unsent" /\ \A g \in Frame : g < f => frame[g].at # "unsent"

Spawned(cause, p, rec) ==
  writes \cup {[cause |-> cause, pod |-> p, rec |-> rec]}

\* A confirm finds the live park on pod p.
Fed(p) == responder[p] # None /\ Alive(responder[p])

\* Mutation: the responder is cloned, not taken.
Taken_Cloned(p) == responder

\* Mutation: the live path does not return, the durable path follows it.
PlaceAfterFeed_NoReturn(p) == "reading"

\* pending_confirmations after take_confirmation.
Taken(p) == [responder EXCEPT ![p] = None]

\* Where the handler is once the responder, if any, was sent the verdict.
PlaceAfterFeed(p) == IF Fed(p) THEN "done" ELSE "reading"

\* What is persisted of a park.
ParkRecord(t) == [call |-> Current(t), tool |-> tool[t]]

------------------------------------------------------------------------------
(* Turns.                                                                   *)

\* A send_message that gets the claim: its confirmation config takes the
\* pod's one-shot pre-approval.  f is the confirm that drives it, if any.
StartTurn(p, t, f) ==
  /\ busy[p] = None
  /\ NextTurn(t)
  /\ pod' = [pod EXCEPT ![t] = p]
  /\ stage' = [stage EXCEPT ![t] = "running"]
  /\ bridge' = [bridge EXCEPT ![t] = "on"]
  /\ preApproved' = [preApproved EXCEPT ![t] = grant[p]]
  /\ grant' = [grant EXCEPT ![p] = None]
  /\ busy' = [busy EXCEPT ![p] = t]
  /\ misused' = IF grant[p] # None /\ grant[p].by # f THEN misused \cup {grant[p].by} ELSE misused
  /\ UNCHANGED <<aborted, asked, tool, request, outstanding, verdicts, responder,
                 storeVars, prompted, executed>>

SendMessage(p, t) == StartTurn(p, t, None) /\ UNCHANGED frame

\* The model calls a gated tool: the hook's pre_call asks and waits.  (An
\* aborted task does not get past the await of the model's answer.)
CallTool(t, a) ==
  /\ stage[t] = "running" /\ ~aborted[t]
  /\ asked[t] < MaxCalls
  /\ stage' = [stage EXCEPT ![t] = "parked"]
  /\ asked' = [asked EXCEPT ![t] = @ + 1]
  /\ tool' = [tool EXCEPT ![t] = a]
  /\ request' = [request EXCEPT ![t] = TRUE]
  /\ UNCHANGED <<pod, aborted, bridge, outstanding, preApproved, verdicts, podVars,
                 storeVars, clientVars>>

PreApproves(t) == preApproved[t] # None /\ preApproved[t].tool = tool[t]

\* The bridge takes a request whose call was approved beforehand.
BridgeApprove(t) ==
  /\ bridge[t] = "on" /\ request[t]
  /\ PreApproves(t)
  /\ verdicts' = [verdicts EXCEPT ![t] = Append(@, [ok |-> TRUE, by |-> preApproved[t].by])]
  /\ preApproved' = [preApproved EXCEPT ![t] = None]
  /\ request' = [request EXCEPT ![t] = FALSE]
  /\ UNCHANGED <<pod, stage, aborted, asked, tool, bridge, outstanding, podVars, storeVars,
                 clientVars>>

\* Any other request: persist (spawned), register, announce.
BridgePark(t) ==
  /\ bridge[t] = "on" /\ request[t]
  /\ ~PreApproves(t)
  /\ writes' = Spawned(<<"park", Current(t)>>, pod[t], ParkRecord(t))
  /\ outstanding' = [outstanding EXCEPT ![t] = TRUE]
  /\ responder' = [responder EXCEPT ![pod[t]] = t]
  /\ prompted' = prompted \cup {Current(t)}
  /\ request' = [request EXCEPT ![t] = FALSE]
  /\ UNCHANGED <<pod, stage, aborted, asked, tool, bridge, preApproved, verdicts, grant, busy,
                 stored, frame, executed, misused>>

\* The hook takes the oldest response.
HookResumes(t) ==
  /\ stage[t] = "parked"
  /\ verdicts[t] # <<>>
  /\ stage' = [stage EXCEPT ![t] = "running"]
  /\ verdicts' = [verdicts EXCEPT ![t] = Tail(@)]
  /\ executed' = IF Head(verdicts[t]).ok
                 THEN executed \cup {[call |-> Current(t), by |-> Head(verdicts[t]).by]}
                 ELSE executed
  /\ UNCHANGED <<pod, aborted, asked, tool, request, bridge, outstanding, preApproved, podVars,
                 storeVars, prompted, frame, misused>>

\* CONFIRMATION_TIMEOUT: the call is denied, the registration stays.
HookTimesOut(t) ==
  /\ stage[t] = "parked"
  /\ verdicts[t] = <<>>
  /\ stage' = [stage EXCEPT ![t] = "running"]
  /\ UNCHANGED <<pod, aborted, asked, tool, request, bridge, outstanding, preApproved, verdicts,
                 podVars, storeVars, clientVars>>

\* The executor returns; the agent is dropped and the bridge awaited.
CloseTurn(t) ==
  /\ stage[t] = "running"
  /\ stage' = [stage EXCEPT ![t] = "closing"]
  /\ UNCHANGED <<pod, aborted, asked, tool, request, bridge, outstanding, preApproved, verdicts,
                 podVars, storeVars, clientVars>>

\* The bridge has drained its channel: it retires a record it wrote.
BridgeEnds(t) ==
  /\ bridge[t] = "on" /\ ~request[t] /\ ~Alive(t)
  /\ bridge' = [bridge EXCEPT ![t] = "done"]
  /\ writes' = IF outstanding[t] THEN Spawned(<<"end", t>>, pod[t], None) ELSE writes
  /\ UNCHANGED <<pod, stage, aborted, asked, tool, request, outstanding, preApproved, verdicts,
                 podVars, stored, clientVars>>

\* The guard is dropped: whoever is registered for the session is cleared; and
\* with the task its claim, unless a cancel took that already.
Teardown(t) ==
  /\ responder' = [responder EXCEPT ![pod[t]] = None]
  /\ busy' = [busy EXCEPT ![pod[t]] = IF @ = t THEN None ELSE @]
  /\ stage' = [stage EXCEPT ![t] = "over"]
  /\ UNCHANGED <<pod, aborted, asked, tool, request, bridge, outstanding, preApproved, verdicts,
                 grant, storeVars, clientVars>>

EndTurn(t) == stage[t] = "closing" /\ bridge[t] = "done" /\ Teardown(t)

\* The future is dropped half-way, by an abort or because the turn failed.
DropTurn(t) ==
  /\ Alive(t) \/ stage[t] = "closing"
  /\ aborted[t] \/ stage[t] = "running"
  /\ Teardown(t)

\* A cancel gives the claim up at once; the abort takes effect later.
CancelTurn(t) ==
  /\ Alive(t) \/ stage[t] = "closing"
  /\ ~aborted[t]
  /\ aborted' = [aborted EXCEPT ![t] = TRUE]
  /\ busy' = [busy EXCEPT ![pod[t]] = IF @ = t THEN None ELSE @]
  /\ UNCHANGED <<pod, stage, asked, tool, request, bridge, outstanding, preApproved, verdicts,
                 responder, grant, storeVars, clientVars>>

------------------------------------------------------------------------------
(* The durable record.                                                      *)

\* A spawned set_pending_confirmation reaches storage, or fails.
WriteThrough(w) ==
  /\ stored' = w.rec
  /\ writes' = writes \ {w}
  /\ UNCHANGED <<turnVars, podVars, clientVars>>

WriteFails(w) ==
  /\ Faulty
  /\ writes' = writes \ {w}
  /\ UNCHANGED <<turnVars, podVars, stored, clientVars>>

------------------------------------------------------------------------------
(* confirm_tool_action.                                                     *)

\* A client answers the prompt of call c, on whichever pod it is connected to.
\* The handler looks for a responder by session only, and takes it; when the
\* responder's turn is gone the send fails.
Confirm(f, p, c, ok) ==
  /\ NextFrame(f)
  /\ c \in prompted
  /\ responder' = Taken(p)
  /\ frame' = [frame EXCEPT ![f] = [Unsent EXCEPT !.at = PlaceAfterFeed(p), !.pod = p, !.ok = ok,
                                                  !.meant = c]]
  /\ verdicts' = IF Fed(p) THEN [verdicts EXCEPT ![responder[p]] = Append(@, [ok |-> ok, by |-> f])]
                           ELSE verdicts
  /\ writes' = IF Fed(p) THEN Spawned(<<"resolved", f>>, p, None) ELSE writes
  /\ UNCHANGED <<pod, stage, aborted, asked, tool, request, bridge, outstanding, preApproved,
                 grant, busy, stored, prompted, executed, misused>>

\* A live hook gives up on its call before the call's record is stale.
MayBeStale(rec) ==
  ~(stage[rec.call[1]] = "parked" /\ Current(rec.call[1]) = rec.call)

\* durable_confirm_fallback reads the record from storage, and finds it older
\* than CONFIRMATION_TIMEOUT or not.  No record: NO_PENDING_CONFIRMATION; a
\* read that fails: STORAGE_ERROR.
DurableRead(f) ==
  /\ frame[f].at = "reading"
  /\ \/ /\ Faulty \/ stored = None
        /\ frame' = [frame EXCEPT ![f].at = "done"]
     \/ /\ stored # None
        /\ \E fresh \in BOOLEAN :
             /\ fresh \/ MayBeStale(stored)
             /\ frame' = [frame EXCEPT ![f].at = "retiring", ![f].rec = stored, ![f].fresh = fresh]
  /\ UNCHANGED <<turnVars, podVars, storeVars, prompted, executed, misused>>

\* The record is retired in storage.  A stale one is refused, a denied one
\* acknowledged; for an approved one its tool is pre-approved.
DurableRetire(f) ==
  /\ frame[f].at = "retiring"
  /\ stored' = None
  /\ LET go == frame[f].fresh /\ frame[f].ok
     IN /\ frame' = [frame EXCEPT ![f].at = IF go THEN "granted" ELSE "done"]
        /\ grant' = IF go THEN [grant EXCEPT ![frame[f].pod] = [tool |-> frame[f].rec.tool, by |-> f]]
                          ELSE grant
  /\ UNCHANGED <<turnVars, responder, busy, writes, prompted, executed, misused>>

\* It cannot be retired: STORAGE_ERROR, nothing is granted.
DurableRetireFails(f) ==
  /\ Faulty
  /\ frame[f].at = "retiring"
  /\ frame' = [frame EXCEPT ![f].at = "done"]
  /\ UNCHANGED <<turnVars, podVars, storeVars, prompted, executed, misused>>

\* The continuation goes through handle_send_message ...
Continue(f, t) ==
  /\ frame[f].at = "granted"
  /\ StartTurn(frame[f].pod, t, f)
  /\ frame' = [frame EXCEPT ![f].at = "done"]

\* ... which may refuse: a turn is in progress, storage, no gateway key.
ContinueRefused(f) ==
  /\ frame[f].at = "granted"
  /\ Faulty \/ busy[frame[f].pod] # None
  /\ frame' = [frame EXCEPT ![f].at = "done"]
  /\ UNCHANGED <<turnVars, podVars, storeVars, prompted, executed, misused>>

\* A pod dies and comes back empty; its tasks and handlers are gone.
PodDies(p) ==
  /\ Faulty
  /\ LET dead == {t \in Turn : pod[t] = p}
     IN /\ stage' = [t \in Turn |-> IF t \in dead THEN "over" ELSE stage[t]]
        /\ bridge' = [t \in Turn |-> IF t \in dead THEN "done" ELSE bridge[t]]
  /\ responder' = [responder EXCEPT ![p] = None]
  /\ grant' = [grant EXCEPT ![p] = None]
  /\ busy' = [busy EXCEPT ![p] = None]
  /\ writes' = {w \in writes : w.pod # p}
  /\ frame' = [f \in Frame |-> IF frame[f].pod = p THEN [frame[f] EXCEPT !.at = "done"]
                                                   ELSE frame[f]]
  /\ UNCHANGED <<pod, aborted, asked, tool, request, outstanding, preApproved, verdicts,
                 stored, prompted, executed, misused>>

------------------------------------------------------------------------------
TurnStep(t) ==
  \/ BridgeApprove(t) \/ BridgePark(t) \/ BridgeEnds(t)
  \/ HookResumes(t) \/ HookTimesOut(t)
  \/ CloseTurn(t) \/ EndTurn(t) \/ DropTurn(t) \/ CancelTurn(t)
  \/ \E a \in Tool : CallTool(t, a)

FrameStep(f) ==
  \/ DurableRead(f) \/ DurableRetire(f) \/ DurableRetireFails(f) \/ ContinueRefused(f)
  \/ \E t \in Turn : Continue(f, t)
  \/ \E p \in Pod, c \in prompted, ok \in BOOLEAN : Confirm(f, p, c, ok)

Next ==
  \/ \E t \in Turn : TurnStep(t)
  \/ \E f \in Frame : FrameStep(f)
  \/ \E p \in Pod : PodDies(p) \/ \E t \in Turn : SendMessage(p, t)
  \/ \E w \in writes : WriteThrough(w) \/ WriteFails(w)

Spec == Init /\ [][Next]_vars

------------------------------------------------------------------------------
(* Properties.                                                              *)

\* Every gated execution is paid for by an approval of its own: no denial, no
\* retry, race, crash, stale record or left-over grant lets one approval run
\* two calls, or any call run without one.
ApprovalSpentOnce ==
  /\ \A e \in executed : frame[e.by].ok /\ frame[e.by].at # "unsent"
  /\ \A d, e \in executed : d.by = e.by => d = e

\* A turn is never given more responses than it asked for: a prompt whose
\* sender was taken cannot be answered a second time in place.
OneVerdictPerPark ==
  \A t \in Turn :
    LET unanswered == request[t] \/ \E p \in Pod : responder[p] = t
    IN Len(verdicts[t]) + (IF unanswered THEN 1 ELSE 0) <= asked[t]

\* state.rs on take_pre_approval: "only the single turn spawned by the
\* resolving `confirm_tool_action` ever sees it".
GrantOnlyForContinuation == misused = {}

\* confirm-tool-action.schema.json on requestId: "This is how the server
\* correlates the confirmation back to the paused workflow".
VerdictForItsPrompt ==
  \A e \in executed : frame[e.by].rec = None => e.call = frame[e.by].meant

\* The prompt an execution carries out.
Carries(e) == IF frame[e.by].rec = None THEN e.call ELSE frame[e.by].rec.call

\* durable_confirmation.rs: "a duplicate confirm cannot execute the write
\* again".
ExecutedOncePerPrompt ==
  \A d, e \in executed : Carries(d) = Carries(e) => d = e

\* runner.rs on record_outstanding: "clear it, so a resolved-or-dead park can't
\* later masquerade as pending".
NoStaleRecord ==
  /\ \A t \in Turn : stage[t] \in {"free", "over"} /\ bridge[t] # "on"
  /\ writes = {}
  => stored = None

\* handler.rs on the fast path: "the parked turn lives on THIS pod - feed its
\* sender the verdict and it resumes in place".
ParkReachable ==
  \A t \in Turn :
    /\ stage[t] = "parked" /\ ~aborted[t]
    /\ Current(t) \in prompted
    /\ \A f \in Frame : frame[f].pod # pod[t]
    => responder[pod[t]] = t
=============================================================================

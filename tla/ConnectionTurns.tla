--------------------------- MODULE ConnectionTurns ---------------------------
(***************************************************************************)
(* Turns and the connections that start them: the reader and writer tasks  *)
(* of a WebSocket connection (server.rs connection_loop and                *)
(* handle_text_frame), the send_message handler up to the spawn            *)
(* (handler.rs handle_send_message) and the turn task with its tail        *)
(* (the spawned future, runner.rs run_streaming_turn, offer_otp,           *)
(* persist_turn_error), on top of the registry of RunningTurns.            *)
(*                                                                         *)
(* One step of the turn task stands for a stretch between two points where *)
(* another task can intervene.  A cancelled flag is read and acted upon in *)
(* separate steps, because the runtime is multi-threaded.  An aborted task *)
(* is dropped at an await, but need not be: an await whose future is       *)
(* already ready does not yield (cancel_is_terminal.rs).                   *)
(***************************************************************************)
EXTENDS RunningTurns, Sequences

\* A session is named by its conversation.
CONSTANTS Conn,       \* connections
          MaxEvents,  \* bound on streamed agent events of one turn
          Workflow,   \* the agents have a conversation workflow
          Otp         \* an OTP service and an authLevel gate are installed

ASSUME ConnectionAssumption == /\ MaxEvents \in Nat /\ None \notin Conn
                               /\ Workflow \in BOOLEAN /\ Otp \in BOOLEAN

VARIABLES conn,       \* the connection a turn was started on
          reader,     \* where the connection's reader task is, for which turn
          current,    \* connection_loop's current_turn
          slot,       \* connection_loop's cancelled_request
          queue,      \* the connection's sink: frames on their way to the writer
          phase,      \* where the turn task is
          made, sent, \* agent events produced, and translated into frames
          record,     \* what the turn left in the conversation's history
          stopping,   \* AppState.shutdown is cancelled
          got,        \* outcomes of the turn its client was told (not ack, stream)
          late,       \* its client was sent another frame after `cancelled`
          raisedIn    \* how far the turn was when its flag was raised

connVars == <<conn, reader, current, slot>>
taskVars == <<phase, made, sent, record>>
clientVars == <<got, late>>
vars == <<registryVars, connVars, queue, taskVars, stopping, clientVars, raisedIn>>

\* Where a reader task is.  Only an "idle" reader takes the next frame.
ReaderAt == {"idle",                                       \* ws_rx.next()
             "reserved", "acked", "spawned",               \* send_message
             "flagged", "aborted", "released", "queued",   \* cancel, own turn
             "taken", "raised", "notify",                  \* cancel by sessionId
             "draining", "drained",                        \* graceful shutdown
             "gone"}                                       \* client went away

\* Where a turn task is.  "returned", "otpGate", "otpOffer", "final", "emit",
\* "failed" and "errEmit" lie between two awaits.
Awaiting == {"running", "judging", "stepWrite", "otpSend", "errWrite"}
Phase == Awaiting \cup {"none", "returned", "otpGate", "otpOffer", "final", "emit",
                        "failed", "errEmit", "done"}

\* How much of its tail a turn has left, in the looks at the flag ahead of it.
StageOf(p) ==
  CASE p \in {"none", "running", "judging", "returned", "failed"} -> "beforeTail"
    [] p \in {"stepWrite", "otpGate"} -> "beforeOtp"
    [] p \in {"otpOffer", "otpSend", "final"} -> "beforeFinal"
    [] OTHER -> "unchecked"
Stage == {StageOf(p) : p \in Phase}

\* An absent value is no stage.
ASSUME StageAssumption == None \notin Stage

Kind == {"ack", "stream", "otp", "final", "failure", "refused", "cancelled"}
Frame == [kind : Kind, turn : Token \cup {None}]

\* What a client takes for the end of its request.
Terminal == {"final", "failure", "refused", "cancelled"}

TypeOK ==
  /\ RegistryTypeOK
  /\ conn \in [Token -> Conn \cup {None}]
  /\ reader \in [Conn -> [at : ReaderAt, turn : Token \cup {None}]]
  /\ current \in [Conn -> Token \cup {None}]
  /\ slot \in [Conn -> Token \cup {None}]
  /\ queue \in [Conn -> Seq(Frame)]
  /\ phase \in [Token -> Phase]
  /\ made \in [Token -> 0 .. MaxEvents]
  /\ sent \in [Token -> 0 .. MaxEvents]
  /\ record \in [Token -> {"none", "reply", "empty", "turnError", "lost"}]
  /\ stopping \in BOOLEAN
  /\ got \in [Token -> SUBSET (Kind \ {"ack", "stream"})]
  /\ late \in [Token -> BOOLEAN]
  /\ raisedIn \in [Token -> Stage \cup {None}]

Init ==
  /\ RegistryInit
  /\ conn = [t \in Token |-> None]
  /\ reader = [k \in Conn |-> [at |-> "idle", turn |-> None]]
  /\ current = [k \in Conn |-> None]
  /\ slot = [k \in Conn |-> None]
  /\ queue = [k \in Conn |-> <<>>]
  /\ phase = [t \in Token |-> "none"]
  /\ made = [t \in Token |-> 0]
  /\ sent = [t \in Token |-> 0]
  /\ record = [t \in Token |-> "none"]
  /\ stopping = FALSE
  /\ got = [t \in Token |-> {}]
  /\ late = [t \in Token |-> FALSE]
  /\ raisedIn = [t \in Token |-> None]

------------------------------------------------------------------------------
(* Helpers.                                                                 *)

\* Mutation: the tail looks at the flag only once, on entry.
FinalCheck_NoReread(t) ==
  /\ phase[t] = "final"
  /\ phase' = [phase EXCEPT ![t] = "emit"]
  /\ UNCHANGED <<registryVars, connVars, made, sent, stopping, clientVars, raisedIn, queue, record>>

\* Mutation: a disconnect aborts the connection's turn.
Disconnect_AbortsTurn(k) ==
  /\ reader[k].at = "idle" /\ ~stopping
  /\ reader' = [reader EXCEPT ![k] = [at |-> "gone", turn |-> None]]
  /\ state' = IF current[k] # None /\ state[current[k]] = "running"
              THEN [state EXCEPT ![current[k]] = "aborting"] ELSE state
  /\ current' = [current EXCEPT ![k] = None]
  /\ queue' = [queue EXCEPT ![k] = <<>>]
  /\ UNCHANGED <<turns, next_token, conv, cancelled, abort, owes, cancelling>>
  /\ UNCHANGED <<conn, slot, taskVars, stopping, clientVars, raisedIn>>

\* Mutation: the writer of a draining connection stops when its queue is empty.
WriterExit_NoWait(k) ==
  /\ reader[k].at = "draining"
  /\ queue[k] = <<>>
  /\ reader' = [reader EXCEPT ![k] = [at |-> "drained", turn |-> None]]
  /\ UNCHANGED <<registryVars, conn, current, slot, queue, taskVars, stopping, clientVars, raisedIn>>

\* Mutation: only the cancelling connection hears of a cancel by session.
Notify_OnlySelf(k) ==
  /\ reader[k].at = "notify"
  /\ queue' = [queue EXCEPT ![k] = Append(@, [kind |-> "cancelled", turn |-> reader[k].turn])]
  /\ reader' = [reader EXCEPT ![k] = [at |-> "idle", turn |-> None]]
  /\ UNCHANGED <<registryVars, conn, current, slot, taskVars, stopping, clientVars, raisedIn>>

\* Mutation: a clone of the sink outlives the turn it was made for.
HasSender_Undropped(k) == \E t \in Token : conn[t] = k

\* The connection's receiver still exists; sends to it are no-ops otherwise.
Open(k) == reader[k].at \notin {"gone", "drained"}

\* The queues after one frame is sent into connection k's sink.
Sent(k, kind, t) ==
  IF Open(k) THEN [queue EXCEPT ![k] = Append(@, [kind |-> kind, turn |-> t])]
             ELSE queue

\* The turn task's own sends.
Emitted(kind, t) == Sent(conn[t], kind, t)

At(k, place) == reader[k].at = place
Goto(k, place, t) == reader' = [reader EXCEPT ![k] = [at |-> place, turn |-> t]]

\* current_turn holds a turn whose task has not finished.
Tracks(k) == current[k] # None /\ state[current[k]] # "ended"

\* The slot after a finished turn's handle is forgotten, as every frame does.
Forgotten(k) == [current EXCEPT ![k] = IF Tracks(k) THEN @ ELSE None]

\* The reader is ready for the next frame: a pending shutdown wins the select.
Takes(k) == At(k, "idle") /\ ~stopping

------------------------------------------------------------------------------
(* send_message.                                                            *)

\* Bound: a client is only rejected when nothing else is on its way to it.
QuietLine(k) == queue[k] = <<>>

\* Rejected because this connection tracks a turn, or because the
\* conversation has one, from whichever connection.
RejectBusy(k, v) ==
  /\ Takes(k)
  /\ Tracks(k) \/ turns[v] # None
  /\ QuietLine(k)
  /\ queue' = Sent(k, "refused", None)
  /\ current' = Forgotten(k)
  /\ UNCHANGED <<registryVars, conn, reader, slot, taskVars, stopping, clientVars, raisedIn>>

\* handle_send_message up to the claim.
ClaimTurn(k, v) ==
  /\ TryReserve(v)
  /\ conn' = [conn EXCEPT ![next_token] = k]
  /\ Goto(k, "reserved", next_token)
  /\ current' = Forgotten(k)
  /\ UNCHANGED <<slot, queue, taskVars, stopping, clientVars, raisedIn>>

SendMessage(k, v) ==
  /\ Takes(k)
  /\ ~Tracks(k)
  /\ ClaimTurn(k, v)

\* confirm_tool_action resolving a durable record spawns a continuation turn;
\* handle_text_frame guards only the action `send_message` by current_turn.
ConfirmContinuation(k, v) ==
  /\ Takes(k)
  /\ ClaimTurn(k, v)

\* The deferred rows cannot be written, or no gateway key resolves.
RefuseTurn(k) ==
  /\ At(k, "reserved")
  /\ DropClaim(reader[k].turn)
  /\ queue' = Sent(k, "refused", reader[k].turn)
  /\ Goto(k, "idle", None)
  /\ UNCHANGED <<conn, current, slot, taskVars, stopping, clientVars, raisedIn>>

Acknowledge(k) ==
  /\ At(k, "reserved")
  /\ queue' = Sent(k, "ack", reader[k].turn)
  /\ Goto(k, "acked", reader[k].turn)
  /\ UNCHANGED <<registryVars, conn, current, slot, taskVars, stopping, clientVars, raisedIn>>

Spawn(k) ==
  /\ At(k, "acked")
  /\ SpawnTurn(reader[k].turn)
  /\ phase' = [phase EXCEPT ![reader[k].turn] = "running"]
  /\ Goto(k, "spawned", reader[k].turn)
  /\ UNCHANGED <<conn, current, slot, queue, made, sent, record, stopping, clientVars, raisedIn>>

\* set_abort, then back in handle_text_frame: the writer gate is disarmed and
\* the new turn becomes current_turn, whatever that was.
TrackTurn(k) ==
  /\ At(k, "spawned")
  /\ SetAbort(reader[k].turn)
  /\ slot' = [slot EXCEPT ![k] = None]
  /\ current' = [current EXCEPT ![k] = reader[k].turn]
  /\ Goto(k, "idle", None)
  /\ UNCHANGED <<conn, queue, taskVars, stopping, clientVars, raisedIn>>

------------------------------------------------------------------------------
(* cancel.                                                                  *)

Raise(t) == raisedIn' = [raisedIn EXCEPT ![t] = IF @ = None THEN StageOf(phase[t]) ELSE @]

CancelOwn(k) ==
  /\ Takes(k)
  /\ Tracks(k)
  /\ LocalCancel(current[k])
  /\ Raise(current[k])
  /\ Goto(k, "flagged", current[k])
  /\ current' = [current EXCEPT ![k] = None]
  /\ UNCHANGED <<conn, slot, queue, taskVars, stopping, clientVars>>

CancelAbort(k) ==
  /\ At(k, "flagged")
  /\ LocalAbort(reader[k].turn)
  /\ Goto(k, "aborted", reader[k].turn)
  /\ UNCHANGED <<conn, current, slot, queue, taskVars, stopping, clientVars, raisedIn>>

CancelRelease(k) ==
  /\ At(k, "aborted")
  /\ LocalRelease(reader[k].turn)
  /\ Goto(k, "released", reader[k].turn)
  /\ UNCHANGED <<conn, current, slot, queue, taskVars, stopping, clientVars, raisedIn>>

CancelQueue(k) ==
  /\ At(k, "released")
  /\ queue' = Sent(k, "cancelled", reader[k].turn)
  /\ Goto(k, "queued", reader[k].turn)
  /\ UNCHANGED <<registryVars, conn, current, slot, taskVars, stopping, clientVars, raisedIn>>

CancelArm(k) ==
  /\ At(k, "queued")
  /\ slot' = [slot EXCEPT ![k] = reader[k].turn]
  /\ Goto(k, "idle", None)
  /\ UNCHANGED <<registryVars, conn, current, queue, taskVars, stopping, clientVars, raisedIn>>

\* No turn of its own, but the frame names a session: cancel_conversation_turn
\* takes the turn out of the registry, then raises its flag and aborts it.
CancelBySession(k, v) ==
  /\ Takes(k)
  /\ ~Tracks(k)
  /\ CancelConversation(v)
  /\ Goto(k, "taken", turns[v])
  /\ current' = [current EXCEPT ![k] = None]
  /\ UNCHANGED <<conn, slot, queue, taskVars, stopping, clientVars, raisedIn>>

SessionFlag(k) ==
  /\ At(k, "taken")
  /\ RaiseFlag(reader[k].turn)
  /\ Raise(reader[k].turn)
  /\ Goto(k, "raised", reader[k].turn)
  /\ UNCHANGED <<conn, current, slot, queue, taskVars, stopping, clientVars>>

SessionAbort(k) ==
  /\ At(k, "raised")
  /\ AbortRemoved(reader[k].turn)
  /\ Goto(k, "notify", reader[k].turn)
  /\ UNCHANGED <<conn, current, slot, queue, taskVars, stopping, clientVars, raisedIn>>

\* `cancelled` goes to the connection that started the turn and to this one.
Notify(k) ==
  /\ At(k, "notify")
  /\ LET t == reader[k].turn
         frame == [kind |-> "cancelled", turn |-> t]
     IN queue' = [j \in Conn |-> IF j \in {k, conn[t]} /\ Open(j)
                                 THEN Append(queue[j], frame) ELSE queue[j]]
  /\ Goto(k, "idle", None)
  /\ UNCHANGED <<registryVars, conn, current, slot, taskVars, stopping, clientVars, raisedIn>>

------------------------------------------------------------------------------
(* The turn task.                                                           *)

\* The agent loop hands an event to the translator task.
AgentEvent(t) ==
  /\ phase[t] = "running"
  /\ made[t] < MaxEvents
  /\ made' = [made EXCEPT ![t] = @ + 1]
  /\ UNCHANGED <<registryVars, connVars, queue, phase, sent, record, stopping, clientVars, raisedIn>>

\* The translator is a task of its own: no abort stops it.
Translate(t) ==
  /\ sent[t] < made[t]
  /\ sent' = [sent EXCEPT ![t] = @ + 1]
  /\ queue' = Emitted("stream", t)
  /\ UNCHANGED <<registryVars, connVars, phase, made, record, stopping, clientVars, raisedIn>>

\* A step of the task that only moves on.
Advance(t, from, to) ==
  /\ phase[t] = from
  /\ phase' = [phase EXCEPT ![t] = to]
  /\ UNCHANGED <<registryVars, connVars, made, sent, stopping, clientVars, raisedIn>>

\* The end of the task: the reservation is dropped with the future.
End(t) ==
  /\ EndTurn(t)
  /\ phase' = [phase EXCEPT ![t] = "done"]
  /\ UNCHANGED <<connVars, made, sent, record, stopping, clientVars, raisedIn>>

\* The executor returned and the translator drained; the reply is appended,
\* unless it is empty.  The workflow judge follows, if there is a workflow.
PersistReply(t) ==
  /\ sent[t] = made[t]
  /\ Advance(t, "running", IF Workflow THEN "judging" ELSE "returned")
  /\ \E r \in {"reply", "empty"} : record' = [record EXCEPT ![t] = r]
  /\ UNCHANGED queue

JudgeDone(t) == Advance(t, "judging", "returned") /\ UNCHANGED <<queue, record>>

\* An error leaves run_streaming_turn at once: the translator may still hold
\* events.
TurnFails(t) == Advance(t, "running", "failed") /\ UNCHANGED <<queue, record>>

\* The tail's first look at the flag; then the workflow step is persisted.
EnterTail(t) ==
  /\ ~cancelled[t]
  /\ Advance(t, "returned", IF Workflow THEN "stepWrite" ELSE "otpGate")
  /\ UNCHANGED <<queue, record>>

StepWritten(t) == Advance(t, "stepWrite", "otpGate") /\ UNCHANGED <<queue, record>>

\* An end_user tool was refused and there is a contact to reach - or not.
OtpGate(t) ==
  /\ \/ Otp /\ ~cancelled[t] /\ Advance(t, "otpGate", "otpOffer")
     \/ Advance(t, "otpGate", "final")
  /\ UNCHANGED <<queue, record>>

OfferOtp(t) ==
  /\ Advance(t, "otpOffer", "otpSend")
  /\ queue' = Emitted("otp", t)
  /\ UNCHANGED record

\* otp_sent, or OTP_SEND_FAILED, which is not the end of the request.
OtpDelivered(t) ==
  /\ Advance(t, "otpSend", "final")
  /\ queue' = Emitted("otp", t)
  /\ UNCHANGED record

FinalCheck(t) ==
  /\ ~cancelled[t]
  /\ Advance(t, "final", "emit")
  /\ UNCHANGED <<queue, record>>

EmitResponse(t) ==
  /\ phase[t] = "emit"
  /\ queue' = Emitted("final", t)
  /\ End(t)

EnterErrorTail(t) ==
  /\ ~cancelled[t]
  /\ Advance(t, "failed", "errWrite")
  /\ UNCHANGED <<queue, record>>

\* The turn-error record is appended; the append may itself fail.
PersistTurnError(t) ==
  /\ Advance(t, "errWrite", "errEmit")
  /\ \E r \in {"turnError", "lost"} : record' = [record EXCEPT ![t] = r]
  /\ UNCHANGED queue

EmitError(t) ==
  /\ phase[t] = "errEmit"
  /\ queue' = Emitted("failure", t)
  /\ End(t)

\* The three places where the tail finds the flag raised and returns.
QuietReturn(t) ==
  /\ cancelled[t]
  /\ phase[t] \in {"returned", "final", "failed"}
  /\ End(t)
  /\ UNCHANGED queue

\* abort() takes effect: the future is dropped at an await.
DropAborted(t) ==
  /\ state[t] = "aborting"
  /\ phase[t] \in Awaiting
  /\ End(t)
  /\ UNCHANGED queue

TaskStep(t) ==
  \/ PersistReply(t) \/ JudgeDone(t) \/ TurnFails(t)
  \/ EnterTail(t) \/ StepWritten(t) \/ OtpGate(t) \/ OfferOtp(t) \/ OtpDelivered(t)
  \/ FinalCheck(t) \/ EmitResponse(t)
  \/ EnterErrorTail(t) \/ PersistTurnError(t) \/ EmitError(t)
  \/ QuietReturn(t) \/ DropAborted(t)

------------------------------------------------------------------------------
(* The writer task, the client and the pod.                                 *)

\* The writer takes a frame, drops it if the gate names its turn, and sends
\* it otherwise.  `cancelled` is exempt.
Write(k) ==
  /\ Open(k)
  /\ queue[k] # <<>>
  /\ queue' = [queue EXCEPT ![k] = Tail(@)]
  /\ LET f == Head(queue[k])
         gated == f.kind # "cancelled" /\ f.turn # None /\ slot[k] = f.turn
         seen == ~gated /\ f.turn # None /\ conn[f.turn] = k
     IN /\ got' = IF seen /\ f.kind \notin {"ack", "stream"}
                  THEN [got EXCEPT ![f.turn] = @ \cup {f.kind}] ELSE got
        /\ late' = IF seen /\ "cancelled" \in got[f.turn]
                   THEN [late EXCEPT ![f.turn] = TRUE] ELSE late
  /\ UNCHANGED <<registryVars, connVars, taskVars, stopping, raisedIn>>

\* Close, error or end of stream: the turn goes on without a client.  A
\* draining connection notices on its next write.
Disconnect(k) ==
  /\ Takes(k) \/ At(k, "draining")
  /\ Goto(k, "gone", None)
  /\ current' = [current EXCEPT ![k] = None]
  /\ queue' = [queue EXCEPT ![k] = <<>>]
  /\ UNCHANGED <<registryVars, conn, slot, taskVars, stopping, clientVars, raisedIn>>

Shutdown ==
  /\ ~stopping
  /\ stopping' = TRUE
  /\ UNCHANGED <<registryVars, connVars, queue, taskVars, clientVars, raisedIn>>

StopReader(k) ==
  /\ stopping
  /\ At(k, "idle")
  /\ Goto(k, "draining", None)
  /\ current' = [current EXCEPT ![k] = None]
  /\ UNCHANGED <<registryVars, conn, slot, queue, taskVars, stopping, clientVars, raisedIn>>

\* The reader is inside RunningTurns::cancel, or has yet to pass on `cancelled`.
Cancels(j) == reader[j].at \in {"taken", "raised", "notify"}

\* Someone holds a clone of connection k's sink: a turn started on it, that
\* turn's translator, or a reader that cancels it and holds its CancelledTurn.
HasSender(k) ==
  \E t \in Token : /\ conn[t] = k
                   /\ \/ Live(t)
                      \/ sent[t] < made[t]
                      \/ \E j \in Conn : Cancels(j) /\ reader[j].turn = t

\* writer.await returns once the channel is empty and closed.
WriterExit(k) ==
  /\ At(k, "draining")
  /\ queue[k] = <<>>
  /\ ~HasSender(k)
  /\ Goto(k, "drained", None)
  /\ UNCHANGED <<registryVars, conn, current, slot, queue, taskVars, stopping, clientVars, raisedIn>>

------------------------------------------------------------------------------
\* The reader inside a handler, and the loop's exit.
ReaderStep(k) ==
  \/ RefuseTurn(k) \/ Acknowledge(k) \/ Spawn(k) \/ TrackTurn(k)
  \/ CancelAbort(k) \/ CancelRelease(k) \/ CancelQueue(k) \/ CancelArm(k)
  \/ SessionFlag(k) \/ SessionAbort(k) \/ Notify(k) \/ StopReader(k) \/ WriterExit(k)

\* What clients do.
ClientStep(k) ==
  \/ CancelOwn(k)
  \/ Disconnect(k)
  \/ \E v \in Conv : \/ RejectBusy(k, v)
                     \/ SendMessage(k, v)
                     \/ ConfirmContinuation(k, v)
                     \/ CancelBySession(k, v)

Next ==
  \/ \E k \in Conn : ReaderStep(k) \/ ClientStep(k) \/ Write(k)
  \/ \E t \in Token : AgentEvent(t) \/ Translate(t) \/ TaskStep(t)
  \/ Shutdown

Spec == Init /\ [][Next]_vars

\* Tasks that can run are run; nothing is assumed of clients, of the model or
\* of a shutdown.
Fairness ==
  /\ \A k \in Conn : WF_vars(ReaderStep(k)) /\ WF_vars(Write(k))
  /\ \A t \in Token : WF_vars(Translate(t)) /\ WF_vars(TaskStep(t))

FairSpec == Spec /\ Fairness

------------------------------------------------------------------------------
(* Properties.                                                              *)

\* What a cancelled turn's client may still be sent depends on where the
\* cancel caught the turn: before the tail nothing of the tail, before the OTP
\* look neither a code nor the response, before the last look no response.
\* (After the last look, and in the error tail once persist_turn_error has
\* begun, nothing looks at the flag again.)
CancelSilencesTail ==
  \A t \in Token :
    /\ raisedIn[t] = "beforeTail" => got[t] \cap {"otp", "final", "failure"} = {}
    /\ raisedIn[t] = "beforeOtp" => got[t] \cap {"otp", "final"} = {}
    /\ raisedIn[t] = "beforeFinal" => "final" \notin got[t]

\* A turn that ran and was not cancelled leaves its outcome behind, whether or
\* not its client is still there: a reply, an empty reply, a turn-error record
\* or an append that failed.
OutcomeRecorded ==
  \A t \in Token :
    phase[t] = "done" /\ ~cancelled[t] => record[t] # "none"

\* A connection that drained for a shutdown gave every turn started on it the
\* time to tell its client how it ended.
DrainCompletes ==
  \A k \in Conn, t \in Token :
    At(k, "drained") /\ conn[t] = k => got[t] \cap Terminal # {}

\* Every accepted turn is answered, unless its client goes away: with the
\* response, an error, a refusal or `cancelled`.
EveryTurnAnswered ==
  \A t \in Token :
    state[t] # "free" ~> \/ got[t] \cap Terminal # {}
                        \/ \E k \in Conn : conn[t] = k /\ At(k, "gone")

\* A shutdown is never held up for good.
ShutdownDrains ==
  \A k \in Conn : stopping ~> At(k, "drained") \/ At(k, "gone")

\* cancel_is_terminal.rs: "`cancelled` has to be the LAST thing a client sees
\* for that requestId."
CancelledIsLast == \A t \in Token : ~late[t]

\* server.rs on current_turn: "Only ONE turn runs at a time".
OneTurnPerConnection ==
  \A t, u \in Token :
    /\ state[t] = "running" /\ ~cancelled[t]
    /\ state[u] = "running" /\ ~cancelled[u]
    /\ conn[t] = conn[u]
    => t = u

\* Protocol Reference: "a cancelled turn leaves the user message with no
\* assistant reply".
CancelledTurnHasNoReply ==
  \A t \in Token : "cancelled" \in got[t] /\ phase[t] = "done" => record[t] # "reply"
==============================================================================

------------------------ MODULE Confirmation_proofs ------------------------
(***************************************************************************)
(* Proofs about Confirmation: an approval is a token that is in one place  *)
(* at a time, from the frame that carries it, through a responder or       *)
(* through a grant, a continuation and its bridge, to the call it lets     *)
(* through; for any number of pods, tools, turns, calls and frames.        *)
(***************************************************************************)
EXTENDS Confirmation, SequenceTheorems, TLAPS

\* Where the approval of a frame may be: with its handler, in a pod's
\* pre_approved_confirmations, with a turn's bridge, among the responses on
\* their way to a hook, or spent.
Unspent(f)  == frame[f].at \in {"unsent", "reading", "retiring"}
Granted(f)  == \E p \in Pod : grant[p] # None /\ grant[p].by = f
Carried(f)  == \E t \in Turn : preApproved[t] # None /\ preApproved[t].by = f
Answered(f) == \E t \in Turn : \E i \in 1 .. Len(verdicts[t]) : verdicts[t][i].by = f
Ran(f)      == \E e \in executed : e.by = f

\* It is in one kind of place ...
OneKind ==
  \A f \in Frame :
    /\ Unspent(f)  => ~Granted(f) /\ ~Carried(f) /\ ~Answered(f) /\ ~Ran(f)
    /\ Granted(f)  => ~Carried(f) /\ ~Answered(f) /\ ~Ran(f)
    /\ Carried(f)  => ~Answered(f) /\ ~Ran(f)
    /\ Answered(f) => ~Ran(f)

\* ... and in one place of that kind.
GrantOnce ==
  \A p, q \in Pod :
    grant[p] # None /\ grant[q] # None /\ grant[p].by = grant[q].by => p = q
CarryOnce ==
  \A t, u \in Turn :
    preApproved[t] # None /\ preApproved[u] # None /\ preApproved[t].by = preApproved[u].by => t = u
AnswerOnce ==
  \A t, u \in Turn : \A i \in 1 .. Len(verdicts[t]), j \in 1 .. Len(verdicts[u]) :
    verdicts[t][i].by = verdicts[u][j].by => t = u /\ i = j
RunOnce == \A d, e \in executed : d.by = e.by => d = e

\* What is granted or let through was approved.
OnlyApproved ==
  /\ \A p \in Pod : grant[p] # None => frame[grant[p].by].ok
  /\ \A t \in Turn : preApproved[t] # None => frame[preApproved[t].by].ok
  /\ \A t \in Turn : \A i \in 1 .. Len(verdicts[t]) :
       verdicts[t][i].ok => frame[verdicts[t][i].by].ok
  /\ \A e \in executed : frame[e.by].ok

\* A turn that has started has a pod, a request has a tool, a frame that was
\* sent has a pod, and a handler that retires a record has read one.
Placed ==
  /\ \A t \in Turn : stage[t] # "free" => pod[t] \in Pod
  /\ \A t \in Turn : bridge[t] = "on" => stage[t] # "free"
  /\ \A t \in Turn : request[t] => tool[t] \in Tool
  /\ \A f \in Frame : frame[f].at # "unsent" => frame[f].pod \in Pod
  /\ \A f \in Frame : frame[f].at = "retiring" => frame[f].rec \in Record

\* A responder is registered on the pod of its turn.
Registered ==
  \A p \in Pod, t \in Turn : responder[p] = t => pod[t] = p /\ stage[t] # "free"

\* Requests, registrations and responses on their way are of calls asked for:
\* a registration left by a call that timed out counts beside a new request.
Owed(t) == (IF request[t] THEN 1 ELSE 0) + (IF \E p \in Pod : responder[p] = t THEN 1 ELSE 0)
Balanced == \A t \in Turn : Len(verdicts[t]) + Owed(t) <= asked[t]

\* The inductive invariant.
TokenInv == OneKind /\ GrantOnce /\ CarryOnce /\ AnswerOnce /\ RunOnce /\ OnlyApproved
IInv == TypeOK /\ Placed /\ Registered /\ Balanced /\ TokenInv

-----------------------------------------------------------------------------
(* Sequences of responses.                                                 *)

\* What a response added at the end, or taken from the front, leaves behind.
LEMMA Appended ==
  ASSUME NEW s \in Seq(Verdict), NEW v \in Verdict
  PROVE  /\ Append(s, v) \in Seq(Verdict) /\ Len(s) \in Nat
         /\ Len(Append(s, v)) = Len(s) + 1
         /\ Append(s, v)[Len(s) + 1] = v
         /\ \A i \in 1 .. Len(s) : Append(s, v)[i] = s[i]
OBVIOUS

\* Taking the oldest verdict off a channel.
LEMMA TakenFirst ==
  ASSUME NEW s \in Seq(Verdict), s # <<>>
  PROVE  /\ Tail(s) \in Seq(Verdict) /\ Len(s) \in Nat /\ 1 <= Len(s)
         /\ Len(Tail(s)) = Len(s) - 1
         /\ Head(s) = s[1] /\ Head(s) \in Verdict
         /\ \A i \in 1 .. Len(s) - 1 : Tail(s)[i] = s[i + 1]
<1>1. Len(s) \in Nat \ {0} BY EmptySeq
<1> QED BY <1>1, HeadTailProperties

-----------------------------------------------------------------------------
(* Types and places.                                                       *)

\* A handler that moves on keeps what it knows.
LEMMA Moved ==
  ASSUME TypeOK, NEW f \in Frame, NEW place \in Place,
         frame' = [frame EXCEPT ![f].at = place]
  PROVE  /\ frame' \in [Frame -> Handler]
         /\ \A g \in Frame : /\ frame'[g].at = IF g = f THEN place ELSE frame[g].at
                             /\ frame'[g].pod = frame[g].pod /\ frame'[g].ok = frame[g].ok
                             /\ frame'[g].rec = frame[g].rec
<1>1. frame[f] \in Handler /\ frame \in [Frame -> Handler]
  BY DEF TypeOK
<1>2. [frame[f] EXCEPT !.at = place] \in Handler
  BY <1>1 DEF Handler
<1>3. frame' = [frame EXCEPT ![f] = [frame[f] EXCEPT !.at = place]]
  OBVIOUS
<1>4. frame' \in [Frame -> Handler]
  BY <1>1, <1>2, <1>3
<1>5. \A g \in Frame : frame'[g] = IF g = f THEN [frame[f] EXCEPT !.at = place] ELSE frame[g]
  BY <1>1, <1>3
<1> QED BY <1>1, <1>4, <1>5 DEF Handler

TypeInv == TypeOK /\ Placed

\* A turn that is asking, or owed a response, has made a call.
LEMMA OwedCalls ==
  ASSUME TypeOK, Balanced, NEW t \in Turn, request[t] \/ verdicts[t] # <<>>
  PROVE  Current(t) \in Call
<1>1. Len(verdicts[t]) \in Nat /\ (verdicts[t] # <<>> => 1 <= Len(verdicts[t]))
  BY EmptySeq DEF TypeOK
<1>2. Owed(t) \in Nat /\ (request[t] => 1 <= Owed(t))
  BY DEF Owed
<1>3. asked[t] \in Nat /\ asked[t] <= MaxCalls /\ 1 <= asked[t]
  BY <1>1, <1>2, ConfirmationAssumption DEF TypeOK, Balanced
<1> QED BY <1>3, ConfirmationAssumption DEF Current, Call

\* Nothing is sent and nobody is parked.
LEMMA InitTypeInv == Init => TypeInv
<1> SUFFICES ASSUME Init PROVE TypeOK /\ Placed
  BY DEF TypeInv
<1> USE ConfirmationAssumption
<1>1. Unsent \in Handler /\ Unsent.at = "unsent"
  BY DEF Unsent, Handler, Place
<1>2. frame \in [Frame -> Handler] /\ \A f \in Frame : frame[f].at = "unsent"
  BY <1>1 DEF Init
<1>3. <<>> \in Seq(Verdict)
  OBVIOUS
<1>4. TypeOK
  BY <1>2, <1>3 DEF Init, TypeOK, Stage
<1>5. Placed
  BY <1>2 DEF Init, Placed
<1> QED BY <1>4, <1>5

\* Every step keeps the types and the places.
LEMMA StepTypeInv == TypeInv /\ Registered /\ Balanced /\ [Next]_vars => TypeInv'
<1> SUFFICES ASSUME TypeInv, Registered, Balanced, [Next]_vars PROVE TypeInv'
  OBVIOUS
<1> USE ConfirmationAssumption DEF TypeInv
<1>1. ASSUME NEW p \in Pod, NEW t \in Turn, NEW f, StartTurn(p, t, f),
             frame' \in [Frame -> Handler],
             \A g \in Frame : /\ frame'[g].at \in {frame[g].at, "done"}
                              /\ frame'[g].at = "unsent" <=> frame[g].at = "unsent"
                              /\ frame'[g].pod = frame[g].pod /\ frame'[g].rec = frame[g].rec
      PROVE  TypeInv'
  <2>1. TypeOK'
    BY <1>1 DEF StartTurn, storeVars, TypeOK, Stage, Grant
  <2>2. Placed'
    BY <1>1 DEF StartTurn, NextTurn, TypeOK, Placed
  <2> QED BY <2>1, <2>2
<1>2. ASSUME NEW t \in Turn, NEW a \in Tool, CallTool(t, a) PROVE TypeInv'
  <2>1. TypeOK'
    BY <1>2 DEF CallTool, podVars, storeVars, clientVars, TypeOK, Stage
  <2>2. Placed'
    BY <1>2 DEF CallTool, clientVars, TypeOK, Placed
  <2> QED BY <2>1, <2>2
<1>3. ASSUME NEW t \in Turn, BridgeApprove(t) PROVE TypeInv'
  <2> DEFINE v == [ok |-> TRUE, by |-> preApproved[t].by]
  <2>1. v \in Verdict
    BY <1>3 DEF BridgeApprove, PreApproves, TypeOK, Grant, Verdict
  <2>2. verdicts'[t] \in Seq(Verdict) /\ verdicts' \in [Turn -> Seq(Verdict)]
    BY <1>3, <2>1, Appended DEF BridgeApprove, TypeOK
  <2>3. TypeOK'
    BY <1>3, <2>2 DEF BridgeApprove, podVars, storeVars, clientVars, TypeOK
  <2>4. Placed'
    BY <1>3 DEF BridgeApprove, clientVars, TypeOK, Placed
  <2> QED BY <2>3, <2>4
<1>4. ASSUME NEW t \in Turn, BridgePark(t) PROVE TypeInv'
  <2>1. Current(t) \in Call /\ tool[t] \in Tool /\ pod[t] \in Pod
    BY <1>4, OwedCalls DEF BridgePark, Placed
  <2>2. ParkRecord(t) \in Record
    BY <2>1 DEF ParkRecord, Record
  <2>3. writes' \subseteq Write
    BY <1>4, <2>1, <2>2 DEF BridgePark, Spawned, Write, Cause, TypeOK
  <2>4. TypeOK'
    BY <1>4, <2>1, <2>3 DEF BridgePark, TypeOK
  <2>5. Placed'
    BY <1>4 DEF BridgePark, TypeOK, Placed
  <2> QED BY <2>4, <2>5
<1>5. ASSUME NEW t \in Turn, BridgeEnds(t) PROVE TypeInv'
  <2>1. pod[t] \in Pod
    BY <1>5 DEF BridgeEnds, Placed
  <2>2. writes' \subseteq Write
    BY <1>5, <2>1 DEF BridgeEnds, Spawned, Write, Cause, TypeOK
  <2>3. TypeOK'
    BY <1>5, <2>2 DEF BridgeEnds, podVars, clientVars, TypeOK
  <2>4. Placed'
    BY <1>5 DEF BridgeEnds, clientVars, TypeOK, Placed
  <2> QED BY <2>3, <2>4
<1>6. ASSUME NEW t \in Turn, HookResumes(t) PROVE TypeInv'
  <2>1. /\ Tail(verdicts[t]) \in Seq(Verdict) /\ Head(verdicts[t]) \in Verdict
        /\ verdicts[t] \in Seq(Verdict)
    BY <1>6, TakenFirst DEF HookResumes, TypeOK
  <2>2. Current(t) \in Call
    BY <1>6, OwedCalls DEF HookResumes
  <2>3. executed' \subseteq [call : Call, by : Frame]
    BY <1>6, <2>1, <2>2 DEF HookResumes, TypeOK, Verdict
  <2>4. TypeOK'
    BY <1>6, <2>1, <2>3 DEF HookResumes, podVars, storeVars, TypeOK, Stage
  <2>5. Placed'
    BY <1>6 DEF HookResumes, TypeOK, Placed
  <2> QED BY <2>4, <2>5
<1>7. ASSUME NEW t \in Turn, HookTimesOut(t) \/ CloseTurn(t) PROVE TypeInv'
  <2>1. TypeOK'
    BY <1>7 DEF HookTimesOut, CloseTurn, podVars, storeVars, clientVars, TypeOK, Stage
  <2>2. Placed'
    BY <1>7 DEF HookTimesOut, CloseTurn, clientVars, TypeOK, Placed
  <2> QED BY <2>1, <2>2
<1>8. ASSUME NEW t \in Turn, EndTurn(t) \/ DropTurn(t) PROVE TypeInv'
  <2>1. Teardown(t)
    BY <1>8 DEF EndTurn, DropTurn
  <2>2. busy' \in [Pod -> Turn \cup {None}] /\ responder' \in [Pod -> Turn \cup {None}]
    BY <2>1 DEF Teardown, TypeOK
  <2>3. TypeOK'
    BY <2>1, <2>2 DEF Teardown, storeVars, clientVars, TypeOK, Stage
  <2>4. Placed'
    BY <1>8 DEF EndTurn, DropTurn, Alive, Teardown, clientVars, TypeOK, Placed
  <2> QED BY <2>3, <2>4
<1>9. ASSUME NEW t \in Turn, CancelTurn(t) PROVE TypeInv'
  <2>1. TypeOK'
    BY <1>9 DEF CancelTurn, storeVars, clientVars, TypeOK
  <2>2. Placed'
    BY <1>9 DEF CancelTurn, clientVars, TypeOK, Placed
  <2> QED BY <2>1, <2>2
<1>10. ASSUME NEW w \in writes, WriteThrough(w) \/ WriteFails(w) PROVE TypeInv'
  <2>1. TypeOK'
    BY <1>10 DEF WriteThrough, WriteFails, turnVars, podVars, clientVars, TypeOK, Write
  <2>2. Placed'
    BY <1>10 DEF WriteThrough, WriteFails, turnVars, clientVars, Placed
  <2> QED BY <2>1, <2>2
<1>11. ASSUME NEW f \in Frame, NEW p \in Pod, NEW c \in prompted, NEW ok \in BOOLEAN,
              Confirm(f, p, c, ok)
       PROVE  TypeInv'
  <2> DEFINE v == [ok |-> ok, by |-> f]
  <2>1. v \in Verdict
    BY DEF Verdict
  <2>2. verdicts' \in [Turn -> Seq(Verdict)]
    <3>1. CASE Fed(p)
      <4>1. responder[p] \in Turn
        BY <3>1 DEF Fed, TypeOK
      <4>2. Append(verdicts[responder[p]], v) \in Seq(Verdict)
        BY <2>1, <4>1, Appended DEF TypeOK
      <4> QED BY <1>11, <3>1, <4>2 DEF Confirm, TypeOK
    <3> QED BY <1>11, <3>1 DEF Confirm, TypeOK
  <2>3. writes' \subseteq Write
    BY <1>11 DEF Confirm, Spawned, Write, Cause, TypeOK
  <2> DEFINE h == [Unsent EXCEPT !.at = PlaceAfterFeed(p), !.pod = p, !.ok = ok, !.meant = c]
  <2>4. PlaceAfterFeed(p) \in {"done", "reading"} /\ c \in Call
    BY DEF PlaceAfterFeed, TypeOK
  <2>5. h \in Handler /\ h.at = PlaceAfterFeed(p) /\ h.pod = p
    BY <2>4 DEF Handler, Place, Unsent
  <2>6. frame' = [frame EXCEPT ![f] = h]
    BY <1>11 DEF Confirm
  <2> HIDE DEF h
  <2>7. TypeOK'
    BY <1>11, <2>2, <2>3, <2>5, <2>6 DEF Confirm, Taken, TypeOK
  <2>8. Placed'
    BY <1>11, <2>4, <2>5, <2>6 DEF Confirm, TypeOK, Placed
  <2> QED BY <2>7, <2>8
<1>12. ASSUME NEW f \in Frame, DurableRead(f) PROVE TypeInv'
  <2>1. CASE frame' = [frame EXCEPT ![f].at = "done"]
    <3>1. TypeOK'
      BY <1>12, <2>1, Moved DEF DurableRead, turnVars, podVars, storeVars, TypeOK, Place
    <3>2. Placed'
      BY <1>12, <2>1, Moved DEF DurableRead, turnVars, Placed, Place
    <3> QED BY <3>1, <3>2
  <2>2. ASSUME NEW fresh \in BOOLEAN, stored # None,
               frame' = [frame EXCEPT ![f].at = "retiring", ![f].rec = stored, ![f].fresh = fresh]
        PROVE  TypeInv'
    <3> DEFINE h == [frame[f] EXCEPT !.at = "retiring", !.rec = stored, !.fresh = fresh]
    <3>0. frame[f] \in Handler /\ stored \in Record
      BY <2>2 DEF TypeOK
    <3>1. h \in Handler
      BY <3>0 DEF Handler, Place
    <3>2. h.at = "retiring" /\ h.rec = stored /\ h.pod = frame[f].pod
      BY <3>0 DEF Handler
    <3>3. frame' = [frame EXCEPT ![f] = h]
      BY <2>2
    <3> HIDE DEF h
    <3>4. TypeOK'
      BY <1>12, <3>1, <3>3 DEF DurableRead, turnVars, podVars, storeVars, TypeOK
    <3>5. Placed'
      BY <1>12, <3>0, <3>2, <3>3 DEF DurableRead, turnVars, TypeOK, Placed
    <3> QED BY <3>4, <3>5
  <2> QED BY <1>12, <2>1, <2>2 DEF DurableRead
<1>13. ASSUME NEW f \in Frame, DurableRetire(f) PROVE TypeInv'
  <2>1. frame[f].rec \in Record /\ frame[f].pod \in Pod
    BY <1>13 DEF DurableRetire, Placed
  <2>2. [tool |-> frame[f].rec.tool, by |-> f] \in Grant
    BY <2>1 DEF Record, Grant
  <2>3. grant' \in [Pod -> Grant \cup {None}]
    BY <1>13, <2>2 DEF DurableRetire, TypeOK
  <2>4. PICK place \in {"granted", "done"} : frame' = [frame EXCEPT ![f].at = place]
    BY <1>13 DEF DurableRetire
  <2>5. TypeOK'
    BY <1>13, <2>3, <2>4, Moved DEF DurableRetire, turnVars, TypeOK, Place
  <2>6. Placed'
    BY <1>13, <2>4, Moved DEF DurableRetire, turnVars, Placed, Place
  <2> QED BY <2>5, <2>6
<1>14. ASSUME NEW f \in Frame, DurableRetireFails(f) \/ ContinueRefused(f) PROVE TypeInv'
  <2>1. /\ UNCHANGED <<turnVars, podVars, storeVars, prompted, executed, misused>>
        /\ frame' = [frame EXCEPT ![f].at = "done"] /\ "done" \in Place
        /\ frame[f].at # "unsent"
    BY <1>14 DEF DurableRetireFails, ContinueRefused, Place
  <2>2. /\ frame' \in [Frame -> Handler]
        /\ \A g \in Frame : /\ frame'[g].at = IF g = f THEN "done" ELSE frame[g].at
                            /\ frame'[g].pod = frame[g].pod /\ frame'[g].rec = frame[g].rec
    BY <2>1, Moved
  <2>3. TypeOK'
    BY <2>1, <2>2 DEF turnVars, podVars, storeVars, TypeOK
  <2>4. Placed'
    BY <2>1, <2>2 DEF turnVars, Placed
  <2> QED BY <2>3, <2>4
<1>15. ASSUME NEW f \in Frame, NEW t \in Turn, Continue(f, t) PROVE TypeInv'
  <2>1. frame[f].pod \in Pod
    BY <1>15 DEF Continue, Placed
  <2>2. frame' = [frame EXCEPT ![f].at = "done"] /\ "done" \in Place /\ frame[f].at = "granted"
    BY <1>15 DEF Continue, Place
  <2>3. /\ frame' \in [Frame -> Handler]
        /\ \A g \in Frame : /\ frame'[g].at = IF g = f THEN "done" ELSE frame[g].at
                            /\ frame'[g].pod = frame[g].pod /\ frame'[g].rec = frame[g].rec
    BY <2>2, Moved
  <2>4. \A g \in Frame : /\ frame'[g].at \in {frame[g].at, "done"}
                         /\ frame'[g].at = "unsent" <=> frame[g].at = "unsent"
                         /\ frame'[g].pod = frame[g].pod /\ frame'[g].rec = frame[g].rec
    BY <2>2, <2>3
  <2>5. StartTurn(frame[f].pod, t, f)
    BY <1>15 DEF Continue
  <2> QED BY <1>1, <2>1, <2>3, <2>4, <2>5
<1>16. ASSUME NEW p \in Pod, NEW t \in Turn, SendMessage(p, t) PROVE TypeInv'
  BY <1>1, <1>16 DEF SendMessage, TypeOK
<1>17. ASSUME NEW p \in Pod, PodDies(p) PROVE TypeInv'
  <2>1. \A f \in Frame : /\ frame'[f] = frame[f] \/ frame'[f] = [frame[f] EXCEPT !.at = "done"]
                         /\ frame[f].pod = p => frame'[f] = [frame[f] EXCEPT !.at = "done"]
                         /\ frame[f].pod # p => frame'[f] = frame[f]
    BY <1>17 DEF PodDies
  <2>2. \A f \in Frame : frame[f] \in Handler
    BY DEF TypeOK
  <2>3. \A f \in Frame : /\ [frame[f] EXCEPT !.at = "done"] \in Handler
                         /\ [frame[f] EXCEPT !.at = "done"].at = "done"
                         /\ [frame[f] EXCEPT !.at = "done"].pod = frame[f].pod
                         /\ [frame[f] EXCEPT !.at = "done"].rec = frame[f].rec
    BY <2>2 DEF Handler, Place
  <2>4. \A f \in Frame : frame'[f] \in Handler
    BY <2>1, <2>2, <2>3
  <2>5. frame' \in [Frame -> Handler]
    BY <1>17, <2>4 DEF PodDies
  <2>6. TypeOK'
    BY <1>17, <2>5 DEF PodDies, TypeOK, Stage
  <2>7. Placed'
    <3>1. \A f \in Frame : /\ frame'[f].at # "unsent" => frame'[f].pod \in Pod
                           /\ frame'[f].at = "retiring" => frame'[f].rec \in Record
      <4> SUFFICES ASSUME NEW f \in Frame
                   PROVE  /\ frame'[f].at # "unsent" => frame'[f].pod \in Pod
                          /\ frame'[f].at = "retiring" => frame'[f].rec \in Record
        OBVIOUS
      <4>1. CASE frame[f].pod = p
        <5>1. frame'[f].at = "done" /\ frame'[f].pod = p
          BY <2>1, <2>3, <4>1
        <5> QED BY <5>1
      <4>2. CASE frame[f].pod # p
        <5>1. frame'[f] = frame[f]
          BY <2>1, <4>2
        <5> QED BY <5>1 DEF Placed
      <4> QED BY <4>1, <4>2
    <3>2. \A t \in Turn : /\ stage'[t] = IF pod[t] = p THEN "over" ELSE stage[t]
                          /\ bridge'[t] = IF pod[t] = p THEN "done" ELSE bridge[t]
      BY <1>17 DEF PodDies
    <3>3. UNCHANGED <<pod, request, tool>>
      BY <1>17 DEF PodDies
    <3> QED BY <3>1, <3>2, <3>3 DEF Placed
  <2> QED BY <2>6, <2>7
<1>18. CASE UNCHANGED vars
  BY <1>18 DEF vars, turnVars, podVars, storeVars, clientVars, TypeOK, Placed
<1> QED BY <1>2, <1>3, <1>4, <1>5, <1>6, <1>7, <1>8, <1>9, <1>10, <1>11, <1>12, <1>13, <1>14,
           <1>15, <1>16, <1>17, <1>18
        DEF Next, TurnStep, FrameStep

-----------------------------------------------------------------------------
(* Requests, registrations and responses.                                  *)

BalanceInv == Registered /\ Balanced

\* Whatever is owed to a turn is a number, and losing registrations owes no more.
LEMMA OwedLess ==
  ASSUME NEW t \in Turn, request'[t] => request[t],
         (\E p \in Pod : responder'[p] = t) => \E p \in Pod : responder[p] = t
  PROVE  Owed(t) \in Nat /\ Owed(t)' \in Nat /\ Owed(t)' <= Owed(t)
BY DEF Owed

\* Steps that neither ask nor answer, and at most lose registrations.
LEMMA BalanceKept ==
  ASSUME TypeOK, BalanceInv, UNCHANGED <<asked, verdicts, request>>,
         \A p \in Pod : responder'[p] = responder[p] \/ responder'[p] = None,
         \A t \in Turn : stage[t] # "free" => stage'[t] # "free" /\ pod'[t] = pod[t]
  PROVE  BalanceInv'
<1>1. None \notin Turn BY ConfirmationAssumption DEF Turn
<1>2. \A p \in Pod, t \in Turn : responder'[p] = t => responder[p] = t
  BY <1>1
<1>3. Registered'
  BY <1>2 DEF BalanceInv, Registered
<1>4. Balanced'
  <2> SUFFICES ASSUME NEW t \in Turn PROVE Len(verdicts[t]) + Owed(t)' <= asked[t]
    BY DEF Balanced
  <2>1. Owed(t) \in Nat /\ Owed(t)' \in Nat /\ Owed(t)' <= Owed(t)
    BY <1>2, OwedLess
  <2>2. Len(verdicts[t]) \in Nat /\ asked[t] \in Nat
    BY DEF TypeOK
  <2> QED BY <2>1, <2>2 DEF BalanceInv, Balanced
<1> QED BY <1>3, <1>4 DEF BalanceInv

\* The hook asks for one more response.
LEMMA CallToolBalance ==
  ASSUME TypeInv, BalanceInv, NEW t \in Turn, NEW a \in Tool, CallTool(t, a)
  PROVE  BalanceInv'
<1>1. Registered'
  BY DEF CallTool, podVars, BalanceInv, Registered, TypeInv, TypeOK
<1>2. ASSUME NEW u \in Turn PROVE Len(verdicts[u]) + Owed(u)' <= asked'[u]
  <2>1. Len(verdicts[u]) \in Nat /\ asked[u] \in Nat
    BY DEF TypeInv, TypeOK
  <2>2. Owed(u) \in Nat /\ Owed(u)' \in Nat /\ Owed(u)' <= Owed(u) + (IF u = t THEN 1 ELSE 0)
    BY DEF Owed, CallTool, podVars, TypeInv, TypeOK
  <2>3. asked'[u] = asked[u] + (IF u = t THEN 1 ELSE 0)
    BY <2>1 DEF CallTool, TypeInv, TypeOK
  <2> QED BY <2>1, <2>2, <2>3 DEF BalanceInv, Balanced
<1>3. Balanced'
  BY <1>2 DEF Balanced, CallTool
<1> QED BY <1>1, <1>3 DEF BalanceInv

\* The bridge answers the request itself ...
LEMMA BridgeApproveBalance ==
  ASSUME TypeInv, BalanceInv, NEW t \in Turn, BridgeApprove(t)
  PROVE  BalanceInv'
<1>1. Registered'
  BY DEF BridgeApprove, podVars, BalanceInv, Registered
<1>2. [ok |-> TRUE, by |-> preApproved[t].by] \in Verdict
  BY DEF BridgeApprove, PreApproves, TypeInv, TypeOK, Grant, Verdict
<1>3. ASSUME NEW u \in Turn PROVE Len(verdicts'[u]) + Owed(u)' <= asked[u]
  <2>1. Len(verdicts[u]) \in Nat /\ asked[u] \in Nat /\ verdicts[u] \in Seq(Verdict)
    BY DEF TypeInv, TypeOK
  <2>2. Len(verdicts'[u]) = Len(verdicts[u]) + (IF u = t THEN 1 ELSE 0)
    BY <1>2, <2>1, Appended DEF BridgeApprove, TypeInv, TypeOK
  <2>3. /\ Owed(u) \in Nat /\ Owed(u)' \in Nat
        /\ Owed(u) = Owed(u)' + (IF u = t THEN 1 ELSE 0)
    BY DEF Owed, BridgeApprove, podVars, TypeInv, TypeOK
  <2>4. Len(verdicts[u]) + Owed(u) <= asked[u]
    BY DEF BalanceInv, Balanced
  <2>5. Len(verdicts'[u]) + Owed(u)' = Len(verdicts[u]) + Owed(u)
    <3>1. CASE u = t
      <4>1. Len(verdicts'[u]) = Len(verdicts[u]) + 1 /\ Owed(u) = Owed(u)' + 1
        BY <2>2, <2>3, <3>1
      <4> QED BY <2>1, <2>3, <4>1
    <3>2. CASE u # t
      <4>1. Len(verdicts'[u]) = Len(verdicts[u]) /\ Owed(u) = Owed(u)'
        BY <2>1, <2>2, <2>3, <3>2
      <4> QED BY <4>1
    <3> QED BY <3>1, <3>2
  <2> QED BY <2>4, <2>5
<1>4. Balanced'
  BY <1>3 DEF Balanced, BridgeApprove
<1> QED BY <1>1, <1>4 DEF BalanceInv

\* ... or registers a responder for it.
LEMMA BridgeParkBalance ==
  ASSUME TypeInv, BalanceInv, NEW t \in Turn, BridgePark(t)
  PROVE  BalanceInv'
<1>1. pod[t] \in Pod /\ stage[t] # "free"
  BY DEF BridgePark, TypeInv, Placed
<1>2. \A p \in Pod : responder'[p] = IF p = pod[t] THEN t ELSE responder[p]
  BY DEF BridgePark, TypeInv, TypeOK
<1>3. Registered'
  BY <1>1, <1>2 DEF BridgePark, BalanceInv, Registered
<1>4. ASSUME NEW u \in Turn PROVE Len(verdicts[u]) + Owed(u)' <= asked[u]
  <2>1. Len(verdicts[u]) \in Nat /\ asked[u] \in Nat
    BY DEF TypeInv, TypeOK
  <2>2. CASE u # t
    <3>1. request'[u] = request[u]
      BY <2>2 DEF BridgePark, TypeInv, TypeOK
    <3>2. \A p \in Pod : responder'[p] = u => responder[p] = u
      BY <1>2, <2>2
    <3>3. Owed(u) \in Nat /\ Owed(u)' \in Nat /\ Owed(u)' <= Owed(u)
      BY <3>1, <3>2, OwedLess
    <3> QED BY <2>1, <3>3 DEF BalanceInv, Balanced
  <2>3. CASE u = t
    <3>1. ~request'[t] /\ request[t]
      BY DEF BridgePark, TypeInv, TypeOK
    <3>2. Owed(t) \in Nat /\ Owed(t)' \in Nat /\ Owed(t)' <= 1 /\ 1 <= Owed(t)
      BY <3>1 DEF Owed
    <3> QED BY <2>1, <2>3, <3>2 DEF BalanceInv, Balanced
  <2> QED BY <2>2, <2>3
<1>5. Balanced'
  BY <1>4 DEF Balanced, BridgePark
<1> QED BY <1>3, <1>5 DEF BalanceInv

\* The hook takes a response off the channel.
LEMMA HookResumesBalance ==
  ASSUME TypeInv, BalanceInv, NEW t \in Turn, HookResumes(t)
  PROVE  BalanceInv'
<1>1. Registered'
  BY DEF HookResumes, podVars, BalanceInv, Registered, TypeInv, TypeOK
<1>2. ASSUME NEW u \in Turn PROVE Len(verdicts'[u]) + Owed(u)' <= asked[u]
  <2>1. Len(verdicts[u]) \in Nat /\ asked[u] \in Nat /\ verdicts[u] \in Seq(Verdict)
    BY DEF TypeInv, TypeOK
  <2>2. Len(verdicts'[u]) \in Nat /\ Len(verdicts'[u]) <= Len(verdicts[u])
    BY <2>1, TakenFirst DEF HookResumes, TypeInv, TypeOK
  <2>3. Owed(u) \in Nat /\ Owed(u)' = Owed(u)
    BY DEF Owed, HookResumes, podVars
  <2> QED BY <2>1, <2>2, <2>3 DEF BalanceInv, Balanced
<1>3. Balanced'
  BY <1>2 DEF Balanced, HookResumes
<1> QED BY <1>1, <1>3 DEF BalanceInv

\* The handler takes the registration and sends what is owed for it.
LEMMA ConfirmBalance ==
  ASSUME TypeInv, BalanceInv, NEW f \in Frame, NEW p \in Pod, NEW c, NEW ok \in BOOLEAN,
         Confirm(f, p, c, ok)
  PROVE  BalanceInv'
<1>0. None \notin Turn BY ConfirmationAssumption DEF Turn
<1>1. \A q \in Pod : responder'[q] = IF q = p THEN None ELSE responder[q]
  BY DEF Confirm, Taken, TypeInv, TypeOK
<1>2. CASE ~Fed(p)
  BY <1>1, <1>2, BalanceKept DEF Confirm, TypeInv
<1>3. CASE Fed(p)
  <2>1. responder[p] \in Turn
    BY <1>3 DEF Fed, TypeInv, TypeOK
  <2> PICK t \in Turn : t = responder[p]
    BY <2>1
  <2>2. pod[t] = p
    BY DEF BalanceInv, Registered
  <2>3. [ok |-> ok, by |-> f] \in Verdict
    BY DEF Verdict
  <2>4. verdicts' = [verdicts EXCEPT ![t] = Append(verdicts[t], [ok |-> ok, by |-> f])]
    BY <1>3 DEF Confirm
  <2>5. Registered'
    BY <1>0, <1>1 DEF Confirm, BalanceInv, Registered
  <2>6. ASSUME NEW u \in Turn PROVE Len(verdicts'[u]) + Owed(u)' <= asked[u]
    <3>1. Len(verdicts[u]) \in Nat /\ asked[u] \in Nat /\ verdicts[u] \in Seq(Verdict)
      BY DEF TypeInv, TypeOK
    <3>2. CASE u # t
      <4>1. verdicts'[u] = verdicts[u] /\ request'[u] = request[u]
        BY <2>4, <3>2 DEF Confirm, TypeInv, TypeOK
      <4>2. \A q \in Pod : responder'[q] = u => responder[q] = u
        BY <1>0, <1>1
      <4>3. Owed(u) \in Nat /\ Owed(u)' \in Nat /\ Owed(u)' <= Owed(u)
        BY <4>1, <4>2, OwedLess
      <4> QED BY <3>1, <4>1, <4>3 DEF BalanceInv, Balanced
    <3>3. CASE u = t
      <4>1. verdicts'[t] = Append(verdicts[t], [ok |-> ok, by |-> f])
        BY <2>2, <2>4 DEF TypeInv, TypeOK
      <4>2. Len(verdicts'[t]) = Len(verdicts[t]) + 1
        BY <2>3, <3>1, <3>3, <4>1, Appended
      <4>3. ~\E q \in Pod : responder'[q] = t
        BY <1>0, <1>1, <2>2 DEF BalanceInv, Registered
      <4>4. request' = request /\ \E q \in Pod : responder[q] = t
        BY DEF Confirm
      <4>5. Owed(t) \in Nat /\ Owed(t)' \in Nat /\ Owed(t)' = Owed(t) - 1
        BY <4>3, <4>4 DEF Owed
      <4>6. Len(verdicts[t]) + Owed(t) <= asked[t]
        BY <2>2 DEF BalanceInv, Balanced
      <4> QED BY <3>1, <3>3, <4>2, <4>5, <4>6
    <3> QED BY <3>2, <3>3
  <2>7. Balanced'
    BY <2>6 DEF Balanced, Confirm
  <2> QED BY <2>5, <2>7 DEF BalanceInv
<1> QED BY <1>2, <1>3

\* Every step keeps the balance.
LEMMA StepBalanceInv == TypeInv /\ BalanceInv /\ [Next]_vars => BalanceInv'
<1> SUFFICES ASSUME TypeInv, BalanceInv, [Next]_vars PROVE BalanceInv'
  OBVIOUS
<1> USE DEF turnVars, podVars, storeVars, clientVars
<1>1. ASSUME NEW p, NEW t \in Turn, NEW f, StartTurn(p, t, f) PROVE BalanceInv'
  <2>1. \A u \in Turn : stage[u] # "free" => stage'[u] # "free" /\ pod'[u] = pod[u]
    BY <1>1 DEF StartTurn, NextTurn, TypeInv, TypeOK
  <2> QED BY <1>1, <2>1, BalanceKept DEF StartTurn, TypeInv
<1>2. ASSUME NEW t \in Turn,
             BridgeEnds(t) \/ HookTimesOut(t) \/ CloseTurn(t) \/ EndTurn(t) \/ DropTurn(t)
               \/ CancelTurn(t)
      PROVE  BalanceInv'
  <2>1. UNCHANGED <<asked, verdicts, request, pod>>
    BY <1>2 DEF BridgeEnds, HookTimesOut, CloseTurn, EndTurn, DropTurn, Teardown, CancelTurn
  <2>2. \A p \in Pod : responder'[p] = responder[p] \/ responder'[p] = None
    BY <1>2 DEF BridgeEnds, HookTimesOut, CloseTurn, EndTurn, DropTurn, Teardown, CancelTurn,
                TypeInv, TypeOK
  <2>3. \A u \in Turn : stage[u] # "free" => stage'[u] # "free"
    BY <1>2 DEF BridgeEnds, HookTimesOut, CloseTurn, EndTurn, DropTurn, Teardown, CancelTurn,
                TypeInv, TypeOK
  <2> QED BY <2>1, <2>2, <2>3, BalanceKept DEF TypeInv
<1>3. ASSUME NEW p \in Pod, PodDies(p) PROVE BalanceInv'
  <2>1. \A q \in Pod : responder'[q] = responder[q] \/ responder'[q] = None
    BY <1>3 DEF PodDies, TypeInv, TypeOK
  <2>2. \A u \in Turn : stage[u] # "free" => stage'[u] # "free"
    BY <1>3 DEF PodDies
  <2>3. UNCHANGED <<asked, verdicts, request, pod>>
    BY <1>3 DEF PodDies
  <2> QED BY <2>1, <2>2, <2>3, BalanceKept DEF TypeInv
<1>4. CASE UNCHANGED <<asked, verdicts, request, responder, stage, pod>>
  BY <1>4, BalanceKept DEF TypeInv
<1>5. ASSUME NEW t \in Turn, TurnStep(t) PROVE BalanceInv'
  BY <1>2, <1>5, CallToolBalance, BridgeApproveBalance, BridgeParkBalance, HookResumesBalance
     DEF TurnStep
<1>6. ASSUME NEW f \in Frame, FrameStep(f) PROVE BalanceInv'
  <2>1. CASE DurableRead(f) \/ DurableRetire(f) \/ DurableRetireFails(f) \/ ContinueRefused(f)
    BY <1>4, <2>1 DEF DurableRead, DurableRetire, DurableRetireFails, ContinueRefused
  <2>2. ASSUME NEW t \in Turn, Continue(f, t) PROVE BalanceInv'
    BY <1>1, <2>2 DEF Continue
  <2>3. ASSUME NEW p \in Pod, NEW c \in prompted, NEW ok \in BOOLEAN, Confirm(f, p, c, ok)
        PROVE  BalanceInv'
    BY <2>3, ConfirmBalance
  <2> QED BY <1>6, <2>1, <2>2, <2>3 DEF FrameStep
<1>7. ASSUME NEW p \in Pod, NEW t \in Turn, SendMessage(p, t) PROVE BalanceInv'
  BY <1>1, <1>7 DEF SendMessage
<1>8. ASSUME NEW w \in writes, WriteThrough(w) \/ WriteFails(w) PROVE BalanceInv'
  BY <1>4, <1>8 DEF WriteThrough, WriteFails
<1>9. CASE UNCHANGED vars
  BY <1>4, <1>9 DEF vars
<1> QED BY <1>3, <1>5, <1>6, <1>7, <1>8, <1>9 DEF Next

-----------------------------------------------------------------------------
(* Approvals as tokens.                                                    *)

\* No verdict exists yet.
LEMMA InitTokenInv == Init => TokenInv
<1> SUFFICES ASSUME Init PROVE TokenInv
  OBVIOUS
<1>1. \A f \in Frame : ~Granted(f) /\ ~Carried(f) /\ ~Answered(f) /\ ~Ran(f)
  BY DEF Init, Granted, Carried, Answered, Ran
<1>2. OneKind
  BY <1>1 DEF OneKind
<1>3. GrantOnce /\ CarryOnce /\ AnswerOnce /\ RunOnce /\ OnlyApproved
  BY DEF Init, GrantOnce, CarryOnce, AnswerOnce, RunOnce, OnlyApproved
<1> QED BY <1>2, <1>3 DEF TokenInv

\* Every response on its way is a frame's, or stands for one.
LEMMA AnswerFrames ==
  ASSUME TypeOK
  PROVE  \A t \in Turn : \A i \in 1 .. Len(verdicts[t]) :
           verdicts[t][i] \in Verdict /\ verdicts[t][i].by \in Frame
<1> SUFFICES ASSUME NEW t \in Turn, NEW i \in 1 .. Len(verdicts[t])
             PROVE  verdicts[t][i] \in Verdict /\ verdicts[t][i].by \in Frame
  OBVIOUS
<1>1. verdicts[t] \in Seq(Verdict) BY DEF TypeOK
<1>2. verdicts[t][i] \in Verdict BY <1>1, ElementOfSeq
<1> QED BY <1>2 DEF Verdict

\* A step that moves no approval and at most loses some.
LEMMA TokensLost ==
  ASSUME TypeOK, TokenInv, UNCHANGED <<preApproved, verdicts, executed>>,
         \A p \in Pod : grant'[p] = grant[p] \/ grant'[p] = None,
         \A f \in Frame : (Unspent(f)' => Unspent(f)) /\ frame'[f].ok = frame[f].ok
  PROVE  TokenInv'
<1>1. \A f \in Frame : /\ Granted(f)' => Granted(f)
                       /\ Carried(f)' <=> Carried(f)
                       /\ Answered(f)' <=> Answered(f)
                       /\ Ran(f)' <=> Ran(f)
  BY DEF Granted, Carried, Answered, Ran
<1>2. OneKind'
  BY <1>1 DEF TokenInv, OneKind
<1>3. GrantOnce'
  BY DEF TokenInv, GrantOnce
<1>4. CarryOnce' /\ AnswerOnce' /\ RunOnce'
  BY DEF TokenInv, CarryOnce, AnswerOnce, RunOnce
<1>5. OnlyApproved'
  <2>1. \A p \in Pod : grant[p] # None => grant[p].by \in Frame
    BY DEF TypeOK, Grant
  <2>2. \A t \in Turn : preApproved[t] # None => preApproved[t].by \in Frame
    BY DEF TypeOK, Grant
  <2>3. \A t \in Turn : \A i \in 1 .. Len(verdicts[t]) : verdicts[t][i].by \in Frame
    BY AnswerFrames
  <2>4. \A e \in executed : e.by \in Frame
    BY DEF TypeOK
  <2> QED BY <2>1, <2>2, <2>3, <2>4 DEF TokenInv, OnlyApproved
<1> QED BY <1>2, <1>3, <1>4, <1>5 DEF TokenInv

\* A new response is the last of its channel, and the others stay.
LEMMA AnswerAdded ==
  ASSUME TypeOK, AnswerOnce, NEW t \in Turn, NEW v \in Verdict, ~Answered(v.by),
         verdicts' = [verdicts EXCEPT ![t] = Append(verdicts[t], v)]
  PROVE  /\ AnswerOnce'
         /\ \A f \in Frame : Answered(f)' => Answered(f) \/ f = v.by
         /\ \A u \in Turn : \A i \in 1 .. Len(verdicts'[u]) :
              \/ verdicts'[u][i] = v
              \/ i \in 1 .. Len(verdicts[u]) /\ verdicts'[u][i] = verdicts[u][i]
<1>1. ASSUME NEW u \in Turn, NEW i \in 1 .. Len(verdicts'[u])
      PROVE  \/ u = t /\ i = Len(verdicts[t]) + 1 /\ verdicts'[u][i] = v
             \/ i \in 1 .. Len(verdicts[u]) /\ verdicts'[u][i] = verdicts[u][i]
  <2>1. CASE u = t
    <3>1. verdicts[t] \in Seq(Verdict) /\ verdicts'[t] = Append(verdicts[t], v)
      BY DEF TypeOK
    <3> QED BY <2>1, <3>1, Appended
  <2>2. CASE u # t
    BY <2>2 DEF TypeOK
  <2> QED BY <2>1, <2>2
<1>2. \A f \in Frame : Answered(f)' => Answered(f) \/ f = v.by
  BY <1>1 DEF Answered
<1>3. ASSUME NEW u \in Turn, NEW w \in Turn,
             NEW i \in 1 .. Len(verdicts'[u]), NEW j \in 1 .. Len(verdicts'[w]),
             verdicts'[u][i].by = verdicts'[w][j].by
      PROVE  u = w /\ i = j
  <2>1. \A x \in Turn : \A k \in 1 .. Len(verdicts[x]) : verdicts[x][k].by # v.by
    BY DEF Answered
  <2>2. CASE verdicts'[u][i] = v
    BY <1>1, <1>3, <2>1, <2>2
  <2>3. CASE verdicts'[u][i] # v
    <3>1. i \in 1 .. Len(verdicts[u]) /\ verdicts'[u][i] = verdicts[u][i]
      BY <1>1, <2>3
    <3>2. j \in 1 .. Len(verdicts[w]) /\ verdicts'[w][j] = verdicts[w][j]
      BY <1>1, <1>3, <2>1, <3>1
    <3> QED BY <1>3, <3>1, <3>2 DEF AnswerOnce
  <2> QED BY <2>2, <2>3
<1>4. AnswerOnce'
  BY <1>3 DEF AnswerOnce
<1> QED BY <1>1, <1>2, <1>4

\* A turn that starts takes its pod's grant.
LEMMA StartTurnTokens ==
  ASSUME TypeOK, TokenInv, NEW p \in Pod, NEW t \in Turn, NEW h, StartTurn(p, t, h),
         \A f \in Frame : (Unspent(f)' => Unspent(f)) /\ frame'[f].ok = frame[f].ok
  PROVE  TokenInv'
<1> DEFINE Takes(f) == grant[p] # None /\ grant[p].by = f
<1>1. \A q \in Pod : grant'[q] = IF q = p THEN None ELSE grant[q]
  BY DEF StartTurn, TypeOK
<1>2. \A u \in Turn : preApproved'[u] = IF u = t THEN grant[p] ELSE preApproved[u]
  BY DEF StartTurn, TypeOK
<1>3. verdicts' = verdicts /\ executed' = executed
  BY DEF StartTurn
<1>4. /\ grant[p] # None => grant[p].by \in Frame
      /\ \A q \in Pod : grant[q] # None => grant[q].by \in Frame
      /\ \A u \in Turn : preApproved[u] # None => preApproved[u].by \in Frame
  BY DEF TypeOK, Grant
<1>5. \A f \in Frame : Granted(f)' => Granted(f) /\ ~Takes(f)
  BY <1>1 DEF Granted, TokenInv, GrantOnce
<1>6. \A f \in Frame : Carried(f)' => Carried(f) \/ Takes(f)
  BY <1>2 DEF Carried
<1>7. \A f \in Frame : Takes(f) => Granted(f)
  BY DEF Granted
<1>8. \A f \in Frame : (Answered(f)' <=> Answered(f)) /\ (Ran(f)' <=> Ran(f))
  BY <1>3 DEF Answered, Ran
<1>9. CarryOnce'
  <2>1. ASSUME NEW u \in Turn, preApproved[u] # None, grant[p] # None PROVE preApproved[u].by # grant[p].by
    BY <1>4, <2>1 DEF TokenInv, OneKind, Carried, Granted
  <2> QED BY <1>2, <2>1 DEF TokenInv, CarryOnce
<1>10. GrantOnce' /\ AnswerOnce' /\ RunOnce'
  BY <1>1, <1>3 DEF TokenInv, GrantOnce, AnswerOnce, RunOnce
<1>11. OnlyApproved'
  <2>1. \A u \in Turn : \A i \in 1 .. Len(verdicts[u]) : verdicts[u][i].by \in Frame
    BY AnswerFrames
  <2>2. \A e \in executed : e.by \in Frame
    BY DEF TypeOK
  <2> QED BY <1>1, <1>2, <1>3, <1>4, <2>1, <2>2 DEF TokenInv, OnlyApproved
<1> HIDE DEF Takes
<1>12. OneKind'
  BY <1>5, <1>6, <1>7, <1>8 DEF TokenInv, OneKind
<1> QED BY <1>9, <1>10, <1>11, <1>12 DEF TokenInv

\* Its bridge turns the grant into a response.
LEMMA BridgeApproveTokens ==
  ASSUME TypeOK, TokenInv, NEW t \in Turn, BridgeApprove(t)
  PROVE  TokenInv'
<1> DEFINE v == [ok |-> TRUE, by |-> preApproved[t].by]
<1>1. preApproved[t] # None /\ preApproved[t].by \in Frame /\ v \in Verdict /\ v.by = preApproved[t].by
  BY DEF BridgeApprove, PreApproves, TypeOK, Grant, Verdict
<1>2. Carried(v.by) /\ ~Answered(v.by) /\ ~Ran(v.by) /\ ~Granted(v.by) /\ ~Unspent(v.by)
  BY <1>1 DEF Carried, TokenInv, OneKind
<1>3. verdicts' = [verdicts EXCEPT ![t] = Append(verdicts[t], v)]
  BY DEF BridgeApprove
<1>4. frame[v.by].ok
  BY <1>1 DEF TokenInv, OnlyApproved
<1>5. \A u \in Turn : preApproved'[u] = IF u = t THEN None ELSE preApproved[u]
  BY DEF BridgeApprove, TypeOK
<1>6. UNCHANGED <<grant, frame, executed>>
  BY DEF BridgeApprove, podVars, clientVars
<1> HIDE DEF v
<1>7. /\ AnswerOnce'
      /\ \A f \in Frame : Answered(f)' => Answered(f) \/ f = v.by
      /\ \A u \in Turn : \A i \in 1 .. Len(verdicts'[u]) :
           \/ verdicts'[u][i] = v
           \/ i \in 1 .. Len(verdicts[u]) /\ verdicts'[u][i] = verdicts[u][i]
  BY <1>1, <1>2, <1>3, AnswerAdded DEF TokenInv
<1>8. \A f \in Frame : Carried(f)' => Carried(f) /\ f # v.by
  BY <1>1, <1>5 DEF Carried, TokenInv, CarryOnce
<1>9. \A f \in Frame : /\ Granted(f)' <=> Granted(f)
                       /\ Ran(f)' <=> Ran(f)
                       /\ Unspent(f)' <=> Unspent(f)
  BY <1>6 DEF Granted, Ran, Unspent
<1>10. OneKind'
  BY <1>2, <1>7, <1>8, <1>9 DEF TokenInv, OneKind
<1>11. GrantOnce' /\ CarryOnce' /\ RunOnce'
  BY <1>5, <1>6 DEF TokenInv, GrantOnce, CarryOnce, RunOnce
<1>12. OnlyApproved'
  BY <1>4, <1>5, <1>6, <1>7 DEF TokenInv, OnlyApproved
<1> QED BY <1>7, <1>10, <1>11, <1>12 DEF TokenInv

\* The hook spends the response it takes, when that is an approval.
LEMMA HookResumesTokens ==
  ASSUME TypeOK, TokenInv, NEW t \in Turn, HookResumes(t)
  PROVE  TokenInv'
<1> DEFINE v == Head(verdicts[t])
<1>1. /\ verdicts[t] \in Seq(Verdict) /\ verdicts[t] # <<>>
      /\ verdicts' = [verdicts EXCEPT ![t] = Tail(verdicts[t])]
  BY DEF HookResumes, TypeOK
<1>2. /\ Len(verdicts[t]) \in Nat /\ 1 <= Len(verdicts[t])
      /\ Len(Tail(verdicts[t])) = Len(verdicts[t]) - 1
      /\ v = verdicts[t][1] /\ v \in Verdict
      /\ \A i \in 1 .. Len(verdicts[t]) - 1 : Tail(verdicts[t])[i] = verdicts[t][i + 1]
  BY <1>1, TakenFirst
<1>3. v.by \in Frame /\ Answered(v.by) /\ 1 \in 1 .. Len(verdicts[t])
  BY <1>2 DEF Verdict, Answered
<1>4. ~Ran(v.by) /\ ~Granted(v.by) /\ ~Carried(v.by) /\ ~Unspent(v.by)
  BY <1>3 DEF TokenInv, OneKind
<1>5. v.ok => frame[v.by].ok
  BY <1>2, <1>3 DEF TokenInv, OnlyApproved
<1>6. UNCHANGED <<grant, preApproved, frame>>
  BY DEF HookResumes, podVars
<1>7. \A e \in executed' : e \in executed \/ (v.ok /\ e = [call |-> Current(t), by |-> v.by])
  BY DEF HookResumes
<1> HIDE DEF v
<1>8. ASSUME NEW u \in Turn, NEW i \in 1 .. Len(verdicts'[u])
      PROVE  IF u = t THEN i + 1 \in 1 .. Len(verdicts[u]) /\ verdicts'[u][i] = verdicts[u][i + 1]
                      ELSE i \in 1 .. Len(verdicts[u]) /\ verdicts'[u][i] = verdicts[u][i]
  <2>1. CASE u = t
    <3>1. verdicts'[t] = Tail(verdicts[t])
      BY <1>1 DEF TypeOK
    <3> QED BY <1>2, <2>1, <3>1
  <2>2. CASE u # t
    BY <1>1, <2>2 DEF TypeOK
  <2> QED BY <2>1, <2>2
<1>9. \A u \in Turn : \A i \in 1 .. Len(verdicts'[u]) :
         verdicts'[u][i].by # v.by /\ i \in Int
  <2> SUFFICES ASSUME NEW u \in Turn, NEW i \in 1 .. Len(verdicts'[u])
               PROVE  verdicts'[u][i].by # v.by
    OBVIOUS
  <2>1. CASE u = t
    <3>1. i + 1 # 1 /\ i + 1 \in 1 .. Len(verdicts[t])
      BY <1>8, <2>1
    <3>2. verdicts[t][i + 1].by # verdicts[t][1].by
      BY <1>3, <3>1 DEF TokenInv, AnswerOnce
    <3> QED BY <1>2, <1>8, <2>1, <3>2
  <2>2. CASE u # t
    <3>1. verdicts[u][i].by # verdicts[t][1].by
      BY <1>3, <1>8, <2>2 DEF TokenInv, AnswerOnce
    <3> QED BY <1>2, <1>8, <2>2, <3>1
  <2> QED BY <2>1, <2>2
<1>10. \A f \in Frame : Answered(f)' => Answered(f) /\ f # v.by
  <2> SUFFICES ASSUME NEW f \in Frame, Answered(f)' PROVE Answered(f) /\ f # v.by
    OBVIOUS
  <2>1. PICK u \in Turn : \E i \in 1 .. Len(verdicts'[u]) : verdicts'[u][i].by = f
    BY DEF Answered
  <2>2. PICK i \in 1 .. Len(verdicts'[u]) : verdicts'[u][i].by = f
    BY <2>1
  <2>3. f # v.by
    BY <1>9, <2>2
  <2>4. \E k \in 1 .. Len(verdicts[u]) : verdicts[u][k].by = f
    BY <1>8, <2>2
  <2> QED BY <2>3, <2>4 DEF Answered
<1>11. AnswerOnce'
  <2> SUFFICES ASSUME NEW u \in Turn, NEW w \in Turn,
                      NEW i \in 1 .. Len(verdicts'[u]), NEW j \in 1 .. Len(verdicts'[w]),
                      verdicts'[u][i].by = verdicts'[w][j].by
               PROVE  u = w /\ i = j
    BY DEF AnswerOnce
  <2>1. PICK k \in 1 .. Len(verdicts[u]) :
          k = (IF u = t THEN i + 1 ELSE i) /\ verdicts'[u][i] = verdicts[u][k]
    BY <1>8
  <2>2. PICK l \in 1 .. Len(verdicts[w]) :
          l = (IF w = t THEN j + 1 ELSE j) /\ verdicts'[w][j] = verdicts[w][l]
    BY <1>8
  <2>3. u = w /\ k = l
    BY <2>1, <2>2 DEF TokenInv, AnswerOnce
  <2> QED BY <2>1, <2>2, <2>3
<1>12. \A f \in Frame : /\ Ran(f)' => Ran(f) \/ f = v.by
                        /\ Granted(f)' <=> Granted(f)
                        /\ Carried(f)' <=> Carried(f)
                        /\ Unspent(f)' <=> Unspent(f)
  BY <1>6, <1>7 DEF Ran, Granted, Carried, Unspent
<1>13. OneKind'
  BY <1>4, <1>10, <1>12 DEF TokenInv, OneKind
<1>14. RunOnce'
  BY <1>4, <1>7 DEF TokenInv, RunOnce, Ran
<1>15. GrantOnce' /\ CarryOnce'
  BY <1>6 DEF TokenInv, GrantOnce, CarryOnce
<1>16. OnlyApproved'
  <2>1. \A u \in Turn : \A i \in 1 .. Len(verdicts'[u]) :
          verdicts'[u][i].ok => frame[verdicts'[u][i].by].ok
    <3> SUFFICES ASSUME NEW u \in Turn, NEW i \in 1 .. Len(verdicts'[u]), verdicts'[u][i].ok
                 PROVE  frame[verdicts'[u][i].by].ok
      OBVIOUS
    <3>1. PICK k \in 1 .. Len(verdicts[u]) : verdicts'[u][i] = verdicts[u][k]
      BY <1>8
    <3> QED BY <3>1 DEF TokenInv, OnlyApproved
  <2>2. \A e \in executed' : frame[e.by].ok
    BY <1>5, <1>7 DEF TokenInv, OnlyApproved
  <2> QED BY <1>6, <2>1, <2>2 DEF TokenInv, OnlyApproved
<1> QED BY <1>11, <1>13, <1>14, <1>15, <1>16 DEF TokenInv

\* A new frame answers a park in place, or is read from storage.
LEMMA ConfirmTokens ==
  ASSUME TypeInv, TokenInv, NEW f \in Frame, NEW p \in Pod, NEW c, NEW ok \in BOOLEAN,
         Confirm(f, p, c, ok)
  PROVE  TokenInv'
<1>1. Unspent(f)
  BY DEF Confirm, NextFrame, Unspent
<1>2. ~Granted(f) /\ ~Carried(f) /\ ~Answered(f) /\ ~Ran(f)
  BY <1>1 DEF TokenInv, OneKind
<1>3. UNCHANGED <<grant, preApproved, executed>>
  BY DEF Confirm
<1>4. frame'[f].at = PlaceAfterFeed(p) /\ frame'[f].ok = ok
  BY DEF Confirm, Unsent, TypeInv, TypeOK
<1>5. \A g \in Frame \ {f} : frame'[g] = frame[g]
  BY DEF Confirm, TypeInv, TypeOK
<1>6. \A g \in Frame : /\ Granted(g)' <=> Granted(g)
                       /\ Carried(g)' <=> Carried(g)
                       /\ Ran(g)' <=> Ran(g)
  BY <1>3 DEF Granted, Carried, Ran
<1>7. \A g \in Frame : Unspent(g)' => Unspent(g)
  BY <1>1, <1>5 DEF Unspent
<1>8. GrantOnce' /\ CarryOnce' /\ RunOnce'
  BY <1>3 DEF TokenInv, GrantOnce, CarryOnce, RunOnce
<1>9. /\ \A q \in Pod : grant[q] # None => grant[q].by \in Frame /\ grant[q].by # f
      /\ \A t \in Turn : preApproved[t] # None => preApproved[t].by \in Frame /\ preApproved[t].by # f
      /\ \A e \in executed : e.by \in Frame /\ e.by # f
  BY <1>2 DEF TypeInv, TypeOK, Grant, Granted, Carried, Ran
<1>10. \A t \in Turn : \A i \in 1 .. Len(verdicts[t]) :
          verdicts[t][i].by \in Frame /\ verdicts[t][i].by # f
  BY <1>2, AnswerFrames DEF TypeInv, Answered
<1>11. CASE ~Fed(p)
  <2>1. verdicts' = verdicts
    BY <1>11 DEF Confirm
  <2>2. AnswerOnce' /\ \A g \in Frame : Answered(g)' <=> Answered(g)
    BY <2>1 DEF TokenInv, AnswerOnce, Answered
  <2>3. OneKind'
    BY <1>2, <1>6, <1>7, <2>2 DEF TokenInv, OneKind
  <2>4. OnlyApproved'
    BY <1>3, <1>5, <1>9, <1>10, <2>1 DEF TokenInv, OnlyApproved
  <2> QED BY <1>8, <2>2, <2>3, <2>4 DEF TokenInv
<1>12. CASE Fed(p)
  <2> DEFINE v == [ok |-> ok, by |-> f]
  <2>1. PICK t \in Turn : t = responder[p]
    BY <1>12 DEF Fed, TypeInv, TypeOK
  <2>2. v \in Verdict /\ v.by = f /\ v.ok = ok
    BY DEF Verdict
  <2>3. verdicts' = [verdicts EXCEPT ![t] = Append(verdicts[t], v)]
    BY <1>12, <2>1 DEF Confirm
  <2> HIDE DEF v
  <2>4. /\ AnswerOnce'
        /\ \A g \in Frame : Answered(g)' => Answered(g) \/ g = f
        /\ \A u \in Turn : \A i \in 1 .. Len(verdicts'[u]) :
             \/ verdicts'[u][i] = v
             \/ i \in 1 .. Len(verdicts[u]) /\ verdicts'[u][i] = verdicts[u][i]
    BY <1>2, <2>2, <2>3, AnswerAdded DEF TokenInv, TypeInv
  <2>5. ~Unspent(f)'
    BY <1>4, <1>12 DEF Unspent, PlaceAfterFeed
  <2>6. OneKind'
    BY <1>2, <1>6, <1>7, <2>4, <2>5 DEF TokenInv, OneKind
  <2>7. OnlyApproved'
    BY <1>3, <1>4, <1>5, <1>9, <1>10, <2>2, <2>4 DEF TokenInv, OnlyApproved
  <2> QED BY <1>8, <2>4, <2>6, <2>7 DEF TokenInv
<1> QED BY <1>11, <1>12

\* An approved record that could be retired becomes a grant.
LEMMA DurableRetireTokens ==
  ASSUME TypeInv, TokenInv, NEW f \in Frame, DurableRetire(f)
  PROVE  TokenInv'
<1>1. PICK place \in {"granted", "done"} :
        /\ frame' = [frame EXCEPT ![f].at = place]
        /\ place = "granted" <=> frame[f].fresh /\ frame[f].ok
  <2>1. CASE frame[f].fresh /\ frame[f].ok BY <2>1 DEF DurableRetire
  <2>2. CASE ~(frame[f].fresh /\ frame[f].ok) BY <2>2 DEF DurableRetire
  <2> QED BY <2>1, <2>2
<1>2. \A g \in Frame : /\ frame'[g].at = IF g = f THEN place ELSE frame[g].at
                       /\ frame'[g].ok = frame[g].ok
  <2>1. TypeOK /\ place \in Place /\ frame' = [frame EXCEPT ![f].at = place]
    BY <1>1 DEF TypeInv, Place
  <2> QED BY <2>1, Moved
<1>3. \A g \in Frame : Unspent(g)' => Unspent(g) /\ g # f
  BY <1>1, <1>2 DEF Unspent
<1>4. UNCHANGED <<preApproved, verdicts, executed>>
  BY DEF DurableRetire, turnVars
<1>5. CASE ~(frame[f].fresh /\ frame[f].ok)
  <2>1. grant' = grant
    BY <1>5 DEF DurableRetire
  <2> QED BY <1>2, <1>3, <1>4, <2>1, TokensLost DEF TypeInv
<1>6. CASE frame[f].fresh /\ frame[f].ok
  <2> DEFINE r == [tool |-> frame[f].rec.tool, by |-> f]
  <2>1. PICK p \in Pod : p = frame[f].pod
    BY DEF DurableRetire, TypeInv, Placed
  <2>2. \A q \in Pod : grant'[q] = IF q = p THEN r ELSE grant[q]
    BY <1>6, <2>1 DEF DurableRetire, TypeInv, TypeOK
  <2>3. r.by = f
    OBVIOUS
  <2> HIDE DEF r
  <2>4. Unspent(f)
    BY DEF DurableRetire, Unspent
  <2>5. ~Granted(f) /\ ~Carried(f) /\ ~Answered(f) /\ ~Ran(f)
    BY <2>4 DEF TokenInv, OneKind
  <2>6. \A g \in Frame : /\ Granted(g)' => Granted(g) \/ g = f
                         /\ Carried(g)' <=> Carried(g)
                         /\ Answered(g)' <=> Answered(g)
                         /\ Ran(g)' <=> Ran(g)
    BY <1>4, <2>2, <2>3 DEF Granted, Carried, Answered, Ran
  <2>7. OneKind'
    BY <1>3, <2>5, <2>6 DEF TokenInv, OneKind
  <2>8. GrantOnce'
    BY <2>2, <2>3, <2>5 DEF TokenInv, GrantOnce, Granted
  <2>9. CarryOnce' /\ AnswerOnce' /\ RunOnce'
    BY <1>4 DEF TokenInv, CarryOnce, AnswerOnce, RunOnce
  <2>10. /\ \A q \in Pod : grant[q] # None => grant[q].by \in Frame
         /\ \A t \in Turn : preApproved[t] # None => preApproved[t].by \in Frame
         /\ \A e \in executed : e.by \in Frame
    BY DEF TypeInv, TypeOK, Grant
  <2>11. \A t \in Turn : \A i \in 1 .. Len(verdicts[t]) : verdicts[t][i].by \in Frame
    BY AnswerFrames DEF TypeInv
  <2>12. OnlyApproved'
    BY <1>2, <1>4, <1>6, <2>2, <2>3, <2>10, <2>11 DEF TokenInv, OnlyApproved
  <2> QED BY <2>7, <2>8, <2>9, <2>12 DEF TokenInv
<1> QED BY <1>5, <1>6

\* Every step moves an approval to one other place at most.
LEMMA StepTokenInv == TypeInv /\ TokenInv /\ [Next]_vars => TokenInv'
<1> SUFFICES ASSUME TypeInv, TokenInv, [Next]_vars PROVE TokenInv'
  OBVIOUS
<1> USE DEF turnVars, podVars, storeVars, clientVars
<1>0. TypeOK BY DEF TypeInv
<1>1. CASE UNCHANGED <<preApproved, verdicts, executed, grant, frame>>
  BY <1>0, <1>1, TokensLost DEF Unspent
<1>2. ASSUME NEW t \in Turn, TurnStep(t) PROVE TokenInv'
  <2>1. CASE BridgePark(t) \/ BridgeEnds(t) \/ HookTimesOut(t) \/ CloseTurn(t) \/ EndTurn(t)
               \/ DropTurn(t) \/ CancelTurn(t) \/ \E a \in Tool : CallTool(t, a)
    BY <1>1, <2>1 DEF BridgePark, BridgeEnds, HookTimesOut, CloseTurn, EndTurn, DropTurn,
                      Teardown, CancelTurn, CallTool
  <2> QED BY <1>0, <1>2, <2>1, BridgeApproveTokens, HookResumesTokens DEF TurnStep
<1>3. ASSUME NEW f \in Frame, FrameStep(f) PROVE TokenInv'
  <2>1. ASSUME NEW place \in {"retiring", "done"}, frame' \in [Frame -> Handler],
               UNCHANGED <<preApproved, verdicts, executed, grant>>,
               frame[f].at = "reading" \/ place = "done",
               \A g \in Frame : /\ frame'[g].at = IF g = f THEN place ELSE frame[g].at
                                /\ frame'[g].ok = frame[g].ok
        PROVE  TokenInv'
    <3>1. \A g \in Frame : Unspent(g)' => Unspent(g)
      BY <2>1 DEF Unspent
    <3> QED BY <1>0, <2>1, <3>1, TokensLost
  <2>2. CASE frame' = [frame EXCEPT ![f].at = "done"]
             /\ UNCHANGED <<preApproved, verdicts, executed, grant>>
    <3>1. "done" \in Place BY DEF Place
    <3>2. /\ frame' \in [Frame -> Handler]
          /\ \A g \in Frame : /\ frame'[g].at = IF g = f THEN "done" ELSE frame[g].at
                              /\ frame'[g].ok = frame[g].ok
      BY <1>0, <2>2, <3>1, Moved
    <3> QED BY <2>1, <2>2, <3>2
  <2>3. CASE DurableRead(f)
    <3>1. CASE frame' = [frame EXCEPT ![f].at = "done"]
      BY <2>2, <2>3, <3>1 DEF DurableRead
    <3>2. ASSUME NEW fresh \in BOOLEAN, stored # None,
                 frame' = [frame EXCEPT ![f].at = "retiring", ![f].rec = stored, ![f].fresh = fresh]
          PROVE  TokenInv'
      <4> DEFINE h == [frame[f] EXCEPT !.at = "retiring", !.rec = stored, !.fresh = fresh]
      <4>1. frame[f] \in Handler /\ stored \in Record
        BY <1>0, <3>2 DEF TypeOK
      <4>2. h \in Handler
        BY <4>1 DEF Handler, Place
      <4>3. h.at = "retiring" /\ h.ok = frame[f].ok
        BY <4>1 DEF Handler
      <4>4. frame' = [frame EXCEPT ![f] = h]
        BY <3>2
      <4> HIDE DEF h
      <4>5. frame' \in [Frame -> Handler]
        BY <1>0, <4>2, <4>4 DEF TypeOK
      <4>6. \A g \in Frame : /\ frame'[g].at = IF g = f THEN "retiring" ELSE frame[g].at
                             /\ frame'[g].ok = frame[g].ok
        BY <1>0, <4>3, <4>4 DEF TypeOK
      <4> QED BY <2>1, <2>3, <4>5, <4>6 DEF DurableRead
    <3> QED BY <2>3, <3>1, <3>2 DEF DurableRead
  <2>4. CASE DurableRetireFails(f) \/ ContinueRefused(f)
    BY <2>2, <2>4 DEF DurableRetireFails, ContinueRefused
  <2>5. ASSUME NEW t \in Turn, Continue(f, t) PROVE TokenInv'
    <3>1. /\ frame' = [frame EXCEPT ![f].at = "done"] /\ "done" \in Place
          /\ StartTurn(frame[f].pod, t, f)
      BY <2>5 DEF Continue, Place
    <3>2. \A g \in Frame : /\ frame'[g].at = IF g = f THEN "done" ELSE frame[g].at
                           /\ frame'[g].ok = frame[g].ok
      BY <1>0, <3>1, Moved
    <3>3. \A g \in Frame : Unspent(g)' => Unspent(g)
      BY <3>2 DEF Unspent
    <3>4. frame[f].pod \in Pod
      BY <2>5 DEF Continue, TypeInv, Placed
    <3> QED BY <1>0, <3>1, <3>2, <3>3, <3>4, StartTurnTokens
  <2> QED BY <1>3, <2>3, <2>4, <2>5, ConfirmTokens, DurableRetireTokens DEF FrameStep
<1>4. ASSUME NEW p \in Pod, NEW t \in Turn, SendMessage(p, t) PROVE TokenInv'
  BY <1>0, <1>4, StartTurnTokens DEF SendMessage, Unspent
<1>5. ASSUME NEW p \in Pod, PodDies(p) PROVE TokenInv'
  <2>1. \A f \in Frame : frame[f] \in Handler
    BY <1>0 DEF TypeOK
  <2>2. \A f \in Frame : (frame'[f].at = "done" \/ frame'[f] = frame[f]) /\ frame'[f].ok = frame[f].ok
    <3> SUFFICES ASSUME NEW f \in Frame
                 PROVE  (frame'[f].at = "done" \/ frame'[f] = frame[f]) /\ frame'[f].ok = frame[f].ok
      OBVIOUS
    <3>1. frame'[f] = IF frame[f].pod = p THEN [frame[f] EXCEPT !.at = "done"] ELSE frame[f]
      BY <1>5 DEF PodDies
    <3> QED BY <2>1, <3>1 DEF Handler
  <2>3. \A f \in Frame : Unspent(f)' => Unspent(f)
    BY <2>2 DEF Unspent
  <2>4. \A q \in Pod : grant'[q] = grant[q] \/ grant'[q] = None
    BY <1>0, <1>5 DEF PodDies, TypeOK
  <2>5. UNCHANGED <<preApproved, verdicts, executed>>
    BY <1>5 DEF PodDies
  <2> QED BY <1>0, <2>2, <2>3, <2>4, <2>5, TokensLost
<1>6. ASSUME NEW w \in writes, WriteThrough(w) \/ WriteFails(w) PROVE TokenInv'
  BY <1>1, <1>6 DEF WriteThrough, WriteFails
<1>7. CASE UNCHANGED vars
  BY <1>1, <1>7 DEF vars
<1> QED BY <1>2, <1>3, <1>4, <1>5, <1>6, <1>7 DEF Next

-----------------------------------------------------------------------------
\* The invariant holds before the first turn, and in every state after it.
LEMMA AlwaysIInv == Spec => []IInv
<1>1. Init => IInv
  <2> SUFFICES ASSUME Init PROVE IInv
    OBVIOUS
  <2>1. Registered /\ Balanced
    <3>1. None \notin Turn BY ConfirmationAssumption DEF Turn
    <3> QED BY <3>1 DEF Init, Registered, Balanced, Owed
  <2> QED BY <2>1, InitTypeInv, InitTokenInv DEF IInv, TypeInv
<1>2. IInv /\ [Next]_vars => IInv'
  BY StepTypeInv, StepBalanceInv, StepTokenInv DEF IInv, TypeInv, BalanceInv
<1> QED BY <1>1, <1>2, PTL DEF Spec

\* Every variable keeps its type (runner.rs, state.rs, handler.rs).
THEOREM TypeCorrect == Spec => []TypeOK
<1>1. IInv => TypeOK BY DEF IInv
<1> QED BY <1>1, AlwaysIInv, PTL

\* No approval lets two calls through, and no call goes through without one,
\* whatever pods, turns, retries, crashes and left-over grants there are
\* (handler.rs, handle_confirm_tool_action; runner.rs, the bridge; state.rs).
THEOREM ApprovalsSpentOnce == Spec => []ApprovalSpentOnce
<1>1. IInv => ApprovalSpentOnce
  <2> SUFFICES ASSUME IInv PROVE ApprovalSpentOnce
    OBVIOUS
  <2>1. \A e \in executed : e.by \in Frame /\ Ran(e.by)
    BY DEF IInv, TypeOK, Ran
  <2>2. \A e \in executed : ~Unspent(e.by)
    BY <2>1 DEF IInv, TokenInv, OneKind
  <2> QED BY <2>2 DEF IInv, TokenInv, RunOnce, OnlyApproved, Unspent, ApprovalSpentOnce
<1> QED BY <1>1, AlwaysIInv, PTL

\* A turn never has more responses than it asked for, whatever registrations
\* outlive the calls they were made for (runner.rs, spawn_confirmation_bridge).
THEOREM OneVerdictEach == Spec => []OneVerdictPerPark
<1>1. IInv => OneVerdictPerPark
  <2> SUFFICES ASSUME IInv, NEW t \in Turn
               PROVE  LET unanswered == request[t] \/ \E p \in Pod : responder[p] = t
                      IN  Len(verdicts[t]) + (IF unanswered THEN 1 ELSE 0) <= asked[t]
    BY DEF OneVerdictPerPark
  <2>1. Len(verdicts[t]) \in Nat /\ asked[t] \in Nat
    BY DEF IInv, TypeOK
  <2>2. Len(verdicts[t]) + Owed(t) <= asked[t]
    BY DEF IInv, Balanced
  <2>3. CASE request[t] \/ \E p \in Pod : responder[p] = t
    <3>1. Owed(t) \in Nat /\ 1 <= Owed(t)
      BY <2>3 DEF Owed
    <3>2. Len(verdicts[t]) + 1 <= asked[t]
      BY <2>1, <2>2, <3>1
    <3> QED BY <2>3, <3>2
  <2>4. CASE ~(request[t] \/ \E p \in Pod : responder[p] = t)
    <3>1. Owed(t) = 0
      BY <2>4 DEF Owed
    <3> QED BY <2>1, <2>2, <2>4, <3>1
  <2> QED BY <2>3, <2>4
<1> QED BY <1>1, AlwaysIInv, PTL
=============================================================================

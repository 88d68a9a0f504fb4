--------------------------- MODULE AgentTurn_proofs ---------------------------
(***************************************************************************)
(* Proofs about what one process makes of an agent's turns, for every set  *)
(* of sessions, rows, deployments and settings, and every bound.           *)
(***************************************************************************)
EXTENDS AgentTurn, FiniteSetTheorems, FunctionTheorems, SequenceTheorems, WellFoundedInduction, TLAPS

------------------------------------------------------------------------------
(* The inductive invariant.                                                 *)

RunFields == {"at", "n", "model", "prior", "prompt", "tools", "gate", "pointer", "asked",
              "refused"}
HistoryFields == {"codes", "accepted", "ran", "approvals", "held", "lost", "kept"}

PointerShape(p) == DOMAIN p = {"step", "attempts"} /\ p.attempts \in Nat
MetaShape(m) == DOMAIN m = {"pointer", "supports"} /\ PointerShape(m.pointer)

\* The places of a turn that still carry what it was started with.
Gating == {"prepare", "running", "asking"}
Pointing == {"prepare", "running", "asking", "persist", "write"}

ConfigShape ==
  /\ server \in Deployment
  /\ \E r \in Row : agent = IF r = None THEN None ELSE from_row_values(r)
TurnShape ==
  /\ DOMAIN turn = Session
  /\ \A s \in Session :
       /\ turn[s].at \in {"running", "asking"} => DOMAIN turn[s] = RunFields
       /\ turn[s].at \in Pointing => turn[s].n \in Nat /\ PointerShape(turn[s].pointer)
       /\ turn[s].at = "write" => MetaShape(turn[s].read) /\ PointerShape(turn[s].next)
RowShape ==
  /\ DOMAIN row = Session
  /\ \A s \in Session : DOMAIN row[s] = {"name", "meta"} /\ MetaShape(row[s].meta)
  /\ \A r \in resume : r.session \in Session /\ MetaShape(r.read)
TaskShape ==
  /\ \A k \in titler : k.session \in Session /\ DOMAIN k = {"session", "n", "at"}
  /\ DOMAIN approver = {"current", "requests", "verdicts"}
HistoryShape ==
  /\ verified \in [Session -> BOOLEAN]
  /\ DOMAIN budget = {"turns", "calls", "events"} /\ budget.turns \in Nat
  /\ DOMAIN history = HistoryFields
  /\ history.accepted \in [Session -> Nat]
  /\ history.held \in [Session -> Nat] /\ history.lost \in [Session -> Nat]
  /\ history.approvals \in Int
  /\ \A c \in history.ran : c.session \in Session /\ c.n \in Nat
ShapeInv == ConfigShape /\ TurnShape /\ RowShape /\ TaskShape /\ HistoryShape

\* Behind TitleKept: no titler past its second look works on a conversation that
\* was renamed, and no second look takes the name for a default one.
TitleInv ==
  \A s \in history.kept : /\ s \in Session /\ row[s].name = Name("hand", FALSE)
                          /\ \A k \in titler : k.session = s => k.at # "write"

\* Behind AskedFailsClosed: every approval in the channel is a human's.
Approved(verdicts) == {i \in DOMAIN verdicts : verdicts[i] = "approved"}
AskInv ==
  /\ approver.verdicts \in Seq({"approved", "denied"})
  /\ history.approvals >= Cardinality(Approved(approver.verdicts))

\* Behind AllowListHolds: what a turn offers is what its lists allow.
Listed(tool) ==
  /\ agent # None /\ agent.tools # <<>> =>
       \E e \in Range(agent.tools) : e.tool_id = tool /\ e.enabled
  /\ \/ tool \in server.builtin \cup server.host_tools
     \/ \E x \in server.extensions :
          /\ tool \in x.eager \cup x.deferred
          /\ x.name \in server.allow /\ (agent = None \/ x.name \in agent.extensions)
ListInv ==
  /\ \A s \in Session :
       /\ turn[s].at = "prepare" =>
            /\ turn[s].hosted = build_extension_host
            /\ agent # None /\ agent.tools # <<>> => turn[s].allowed = enabled_tool_ids(agent)
       /\ turn[s].at \in {"running", "asking"} => \A tool \in turn[s].tools : Listed(tool)
       /\ turn[s].at = "asking" => Listed(turn[s].asked)
  /\ \A c \in history.ran : Listed(c.tool)

\* Behind GateSound: a turn's gate lets a visitor through only if a code of the
\* session was accepted before the turn began.
GateInv ==
  /\ \A s \in Session :
       /\ verified[s] \/ history.accepted[s] # 0 => history.accepted[s] >= budget.turns
       /\ turn[s].at \in Gating /\ agent # None =>
            \E b \in BOOLEAN : /\ turn[s].gate = build_auth_gate(agent, server.auth_tools, b)
                               /\ b => history.accepted[s] >= turn[s].n
  /\ GateSound

\* Behind StepBounded.  A pointer with somewhere else to go ...
Leaves(p) ==
  LET step == resolve_current_step(agent.workflow, p.step)
      next == next_step(agent.workflow, step)
  IN next # None /\ next.id # step.id
\* ... and what the judge may make of it.
Judgements(p) ==
  LET step == resolve_current_step(agent.workflow, p.step)
      next == next_step(agent.workflow, step)
  IN {step.id} \cup (IF next = None THEN {} ELSE {next.id})
StepInv ==
  HasWorkflow =>
    /\ \A s \in Session :
         /\ Leaves(row[s].meta.pointer) =>
              /\ row[s].meta.pointer.attempts < StepAttemptCap
              /\ history.held[s] <= row[s].meta.pointer.attempts + StepAttemptCap * history.lost[s]
         /\ turn[s].at \in Pointing /\ Leaves(turn[s].pointer) =>
              turn[s].pointer.attempts < StepAttemptCap
         /\ turn[s].at = "persist" => turn[s].judged \in Judgements(turn[s].pointer)
         /\ turn[s].at = "write" =>
              \E j \in Judgements(turn[s].pointer) :
                turn[s].next = apply_step_cap(agent.workflow, turn[s].pointer.step, j,
                                              turn[s].pointer.attempts)
    /\ \A r \in resume : Leaves(r.read.pointer) => r.read.pointer.attempts < StepAttemptCap

IInv == ShapeInv /\ TitleInv /\ AskInv /\ ListInv /\ GateInv /\ StepInv

------------------------------------------------------------------------------
(* What the steps do to records.                                            *)

\* A rename, to whatever name.
Renamed(s) == \E prefixed \in BOOLEAN : Rename(s, prefixed)

\* The turns of the other sessions stay as they are.
OnlyTurn(s) == DOMAIN turn' = Session /\ \A u \in Session \ {s} : turn'[u] = turn[u]

\* Only the fields F of the history change.
OnlyHistory(F) == /\ DOMAIN history' = HistoryFields
                  /\ \A f \in HistoryFields \ F : history'[f] = history[f]

\* A turn is replaced as a whole.
LEMMA TurnReplaced ==
  ASSUME TurnShape, NEW s \in Session, NEW w, turn' = [turn EXCEPT ![s] = w]
  PROVE  OnlyTurn(s) /\ turn'[s] = w
BY DEF TurnShape, OnlyTurn

\* Spending leaves the budget a record of naturals.
LEMMA SpendEffect ==
  ASSUME HistoryShape, NEW b \in {"turns", "calls", "events"}, Spend(b)
  PROVE  /\ DOMAIN budget' = {"turns", "calls", "events"} /\ budget'.turns \in Nat
         /\ budget'.turns = IF b = "turns" THEN budget.turns - 1 ELSE budget.turns
<1>1. budget' = [budget EXCEPT ![b] = budget[b] - 1] /\ budget[b] > 0
  BY DEF Spend
<1>2. DOMAIN budget' = {"turns", "calls", "events"}
  BY <1>1 DEF HistoryShape
<1>3. CASE b = "turns"
  BY <1>1, <1>2, <1>3 DEF HistoryShape
<1>4. CASE b # "turns"
  BY <1>1, <1>2, <1>4 DEF HistoryShape
<1> QED BY <1>3, <1>4

\* A call leaves the turn running with what it offers, and is refused by the
\* gate or enters the history.
LEMMA GatedEffect ==
  ASSUME ShapeInv, NEW s \in Session, NEW tool, NEW asked \in BOOLEAN,
         turn[s].at \in {"running", "asking"}, Gated(s, tool, asked)
  PROVE  /\ OnlyTurn(s) /\ OnlyHistory({"ran", "approvals"})
         /\ turn'[s].at = "running" /\ DOMAIN turn'[s] = RunFields
         /\ turn'[s].n = turn[s].n /\ turn'[s].tools = turn[s].tools
         /\ turn'[s].gate = turn[s].gate /\ turn'[s].pointer = turn[s].pointer
         /\ turn'[s].prior = turn[s].prior
         /\ \/ history'.ran = history.ran /\ history'.approvals = history.approvals
            \/ /\ ~GateRefuses(turn[s].gate, tool)
               /\ history'.ran = history.ran \cup {[tool |-> tool, n |-> turn[s].n, session |-> s]}
               /\ history'.approvals = IF asked THEN history.approvals - 1 ELSE history.approvals
<1> USE DEF ShapeInv, TurnShape, HistoryShape, RunFields, HistoryFields
<1>0. DOMAIN turn = Session /\ DOMAIN turn[s] = RunFields /\ DOMAIN history = HistoryFields
  OBVIOUS
<1>1. CASE GateRefuses(turn[s].gate, tool)
  <2>1. PICK x : /\ turn' = [turn EXCEPT ![s].at = "running", ![s].asked = None, ![s].refused = x]
                 /\ history' = history
    BY <1>1 DEF Gated
  <2> QED BY <1>0, <2>1 DEF OnlyTurn, OnlyHistory
<1>2. CASE ~GateRefuses(turn[s].gate, tool)
  <2>1. /\ turn' = [turn EXCEPT ![s].at = "running", ![s].asked = None]
        /\ history' = [history EXCEPT
               !.ran = @ \cup {[tool |-> tool, n |-> turn[s].n, session |-> s]},
               !.approvals = IF asked THEN @ - 1 ELSE @]
    BY <1>2 DEF Gated
  <2>2. PICK R : R = history.ran \cup {[tool |-> tool, n |-> turn[s].n, session |-> s]}
    OBVIOUS
  <2>3. PICK a : a = IF asked THEN history.approvals - 1 ELSE history.approvals
    OBVIOUS
  <2>4. history' = [history EXCEPT !.ran = R, !.approvals = a]
    BY <2>1, <2>2, <2>3
  <2>5. OnlyHistory({"ran", "approvals"}) /\ history'.ran = R /\ history'.approvals = a
    BY <1>0, <2>4 DEF OnlyHistory
  <2>6. /\ OnlyTurn(s) /\ turn'[s].at = "running" /\ DOMAIN turn'[s] = RunFields
        /\ turn'[s].n = turn[s].n /\ turn'[s].tools = turn[s].tools
        /\ turn'[s].gate = turn[s].gate /\ turn'[s].pointer = turn[s].pointer
        /\ turn'[s].prior = turn[s].prior
    BY <1>0, <2>1 DEF OnlyTurn
  <2> QED BY <1>2, <2>2, <2>3, <2>5, <2>6
<1> QED BY <1>1, <1>2

\* The turn goes on with what it offers.
Goes(s, at) ==
  /\ OnlyTurn(s) /\ turn'[s].at = at /\ DOMAIN turn'[s] = RunFields
  /\ turn'[s].n = turn[s].n /\ turn'[s].tools = turn[s].tools
  /\ turn'[s].gate = turn[s].gate /\ turn'[s].pointer = turn[s].pointer
  /\ turn'[s].prior = turn[s].prior

\* A prompt is asked, or no longer waited for.
LEMMA AskEffect ==
  ASSUME ShapeInv, NEW s \in Session
  PROVE  /\ \A tool : AskHost(s, tool) =>
              /\ Goes(s, "asking") /\ turn'[s].asked = tool /\ tool \in turn[s].tools
              /\ turn[s].at = "running"
         /\ AskTimesOut(s) => Goes(s, "running") /\ turn[s].at = "asking"
<1> USE DEF ShapeInv, TurnShape, RunFields
<1>1. ASSUME NEW tool, AskHost(s, tool)
      PROVE  /\ Goes(s, "asking") /\ turn'[s].asked = tool /\ tool \in turn[s].tools
             /\ turn[s].at = "running"
  <2>1. /\ turn' = [turn EXCEPT ![s].at = "asking", ![s].asked = tool]
        /\ turn[s].at = "running" /\ tool \in turn[s].tools
    BY <1>1 DEF AskHost
  <2> QED BY <2>1 DEF Goes, OnlyTurn
<1>2. ASSUME AskTimesOut(s) PROVE Goes(s, "running") /\ turn[s].at = "asking"
  <2>1. turn' = [turn EXCEPT ![s].at = "running", ![s].asked = None] /\ turn[s].at = "asking"
    BY <1>2 DEF AskTimesOut
  <2> QED BY <2>1 DEF Goes, OnlyTurn
<1> QED BY <1>1, <1>2

\* What a call that the gate lets through leaves in the history.
Ran(s, tool) == /\ ~GateRefuses(turn[s].gate, tool)
                /\ history'.ran = history.ran \cup {[tool |-> tool, n |-> turn[s].n, session |-> s]}

\* A call that nobody asks about.
LEMMA CallEffect ==
  ASSUME ShapeInv, NEW s \in Session, NEW tool, CallTool(s, tool)
  PROVE  /\ Goes(s, "running") /\ OnlyHistory({"ran"}) /\ tool \in turn[s].tools
         /\ turn[s].at = "running"
         /\ history'.ran = history.ran \/ Ran(s, tool)
<1>1. turn[s].at = "running" /\ Gated(s, tool, FALSE) /\ tool \in turn[s].tools
  BY DEF CallTool
<1>2. FALSE \in BOOLEAN
  OBVIOUS
<1>3. PICK no \in BOOLEAN : no = FALSE
  BY <1>2
<1>4. Gated(s, tool, no)
  BY <1>1, <1>3
<1>5. /\ OnlyTurn(s) /\ OnlyHistory({"ran", "approvals"})
      /\ turn'[s].at = "running" /\ DOMAIN turn'[s] = RunFields
      /\ turn'[s].n = turn[s].n /\ turn'[s].tools = turn[s].tools
      /\ turn'[s].gate = turn[s].gate /\ turn'[s].pointer = turn[s].pointer
      /\ turn'[s].prior = turn[s].prior
  BY <1>1, <1>4, GatedEffect
<1>6. \/ history'.ran = history.ran /\ history'.approvals = history.approvals
      \/ /\ Ran(s, tool)
         /\ history'.approvals = IF no THEN history.approvals - 1 ELSE history.approvals
  BY <1>1, <1>4, GatedEffect DEF Ran
<1>7. OnlyHistory({"ran"})
  BY <1>3, <1>5, <1>6 DEF OnlyHistory, HistoryFields
<1> QED BY <1>1, <1>5, <1>6, <1>7 DEF Goes

\* A verdict: an approval is spent on the call, or the call is dropped.
LEMMA VerdictEffect ==
  ASSUME ShapeInv, NEW s \in Session, TakeVerdict(s)
  PROVE  /\ Goes(s, "running") /\ OnlyHistory({"ran", "approvals"}) /\ turn[s].at = "asking"
         /\ DOMAIN approver' = {"current", "requests", "verdicts"}
         /\ approver.verdicts # <<>> /\ approver'.verdicts = Tail(approver.verdicts)
         /\ \/ history'.ran = history.ran /\ history'.approvals = history.approvals
            \/ /\ Head(approver.verdicts) = "approved" /\ Ran(s, turn[s].asked)
               /\ history'.approvals = history.approvals - 1
<1>1. /\ turn[s].at = "asking" /\ approver.verdicts # <<>>
      /\ approver' = [approver EXCEPT !.verdicts = Tail(@)]
  BY DEF TakeVerdict
<1>2. /\ DOMAIN approver' = {"current", "requests", "verdicts"}
      /\ approver'.verdicts = Tail(approver.verdicts)
  BY <1>1 DEF ShapeInv, TaskShape
<1>3. CASE Head(approver.verdicts) = "approved" /\ Gated(s, turn[s].asked, TRUE)
  <2>1. PICK yes \in BOOLEAN : yes = TRUE
    OBVIOUS
  <2>2. PICK tool : tool = turn[s].asked
    OBVIOUS
  <2>3. Gated(s, tool, yes)
    BY <1>3, <2>1, <2>2
  <2>4. /\ OnlyTurn(s) /\ OnlyHistory({"ran", "approvals"})
        /\ turn'[s].at = "running" /\ DOMAIN turn'[s] = RunFields
        /\ turn'[s].n = turn[s].n /\ turn'[s].tools = turn[s].tools
        /\ turn'[s].gate = turn[s].gate /\ turn'[s].pointer = turn[s].pointer
        /\ turn'[s].prior = turn[s].prior
    BY <1>1, <2>3, GatedEffect
  <2>5. \/ history'.ran = history.ran /\ history'.approvals = history.approvals
        \/ /\ Ran(s, tool)
           /\ history'.approvals = IF yes THEN history.approvals - 1 ELSE history.approvals
    BY <1>1, <2>3, GatedEffect DEF Ran
  <2> QED BY <1>1, <1>2, <1>3, <2>1, <2>2, <2>4, <2>5 DEF Goes
<1>4. CASE turn' = [turn EXCEPT ![s].at = "running", ![s].asked = None] /\ history' = history
  <2>1. Goes(s, "running") /\ OnlyHistory({"ran", "approvals"})
    BY <1>1, <1>4 DEF Goes, OnlyTurn, OnlyHistory, ShapeInv, TurnShape, HistoryShape, RunFields
  <2> QED BY <1>1, <1>2, <1>4, <2>1
<1> QED BY <1>3, <1>4 DEF TakeVerdict

\* A turn is started.
LEMMA SendEffect ==
  ASSUME ShapeInv, NEW s \in Session, NEW f, SendMessage(s, f)
  PROVE  /\ OnlyTurn(s) /\ turn'[s].at = "prepare" /\ turn'[s].n = budget.turns
         /\ turn'[s].allowed = AllowedTools /\ turn'[s].hosted = build_extension_host
         /\ turn'[s].gate = IF agent = None THEN None
                            ELSE build_auth_gate(agent, server.auth_tools, verified[s])
         /\ turn'[s].pointer \in {row[s].meta.pointer, NoPointer}
         /\ turn[s].at = "none"
<1>0. NoMeta.pointer = NoPointer
  BY DEF NoMeta
<1>1. PICK gate, allowed, hosted, model, base :
        /\ gate = IF agent = None THEN None
                  ELSE build_auth_gate(agent, server.auth_tools, verified[s])
        /\ allowed = AllowedTools /\ hosted = build_extension_host
        /\ model = resolve_turn_model(f) /\ base = resolve_base_prompt
  OBVIOUS
<1>2. PICK pointer \in {row[s].meta.pointer, NoPointer} :
        turn' = [turn EXCEPT ![s] =
          [at |-> "prepare", n |-> budget.turns, frame |-> f, model |-> model, base |-> base,
           allowed |-> allowed, hosted |-> hosted, gate |-> gate, pointer |-> pointer]]
  BY <1>0, <1>1 DEF SendMessage, load_workflow_step, ReadMeta
<1>3. PICK w : w = [at |-> "prepare", n |-> budget.turns, frame |-> f, model |-> model, base |-> base,
         allowed |-> allowed, hosted |-> hosted, gate |-> gate, pointer |-> pointer]
  OBVIOUS
<1>4. /\ w.at = "prepare" /\ w.n = budget.turns /\ w.allowed = allowed /\ w.hosted = hosted
      /\ w.gate = gate /\ w.pointer = pointer
  BY <1>3
<1>5. OnlyTurn(s) /\ turn'[s] = w
  BY <1>2, <1>3, TurnReplaced DEF ShapeInv
<1> QED BY <1>1, <1>4, <1>5 DEF SendMessage

\* Its history is read and its tools are gathered.
LEMMA PrepareEffect ==
  ASSUME ShapeInv, NEW s \in Session, Prepare(s)
  PROVE  /\ OnlyTurn(s) /\ turn'[s].at = "running" /\ DOMAIN turn'[s] = RunFields
         /\ turn'[s].n = turn[s].n /\ turn'[s].tools = ToolSet(turn[s])
         /\ turn'[s].gate = turn[s].gate /\ turn'[s].pointer = turn[s].pointer
         /\ turn[s].at = "prepare" /\ turn'[s].prior = load_prior_messages(log[s])
<1>1. PICK prior, prompt, tools : /\ prior = load_prior_messages(log[s])
                                  /\ prompt = compose(turn[s], prior) /\ tools = ToolSet(turn[s])
  OBVIOUS
<1>2. turn' = [turn EXCEPT ![s] =
          [at |-> "running", n |-> turn[s].n, model |-> turn[s].model, prior |-> prior,
           prompt |-> prompt, tools |-> tools, gate |-> turn[s].gate, pointer |-> turn[s].pointer,
           asked |-> None, refused |-> None]]
  BY <1>1 DEF Prepare
<1>3. PICK w : w = [at |-> "running", n |-> turn[s].n, model |-> turn[s].model, prior |-> prior,
           prompt |-> prompt, tools |-> tools, gate |-> turn[s].gate, pointer |-> turn[s].pointer,
           asked |-> None, refused |-> None]
  OBVIOUS
<1>4. /\ w.at = "running" /\ w.n = turn[s].n /\ w.tools = tools /\ w.gate = turn[s].gate
      /\ w.pointer = turn[s].pointer /\ DOMAIN w = RunFields
      /\ w.prior = prior
  BY <1>3 DEF RunFields
<1>5. OnlyTurn(s) /\ turn'[s] = w
  BY <1>2, <1>3, TurnReplaced DEF ShapeInv
<1> QED BY <1>1, <1>4, <1>5 DEF Prepare

\* The loop ends, and the judge has spoken.
LEMMA FinishEffect ==
  ASSUME ShapeInv, NEW s \in Session, NEW replied, NEW verdict, FinishRun(s, replied, verdict)
  PROVE  /\ OnlyTurn(s) /\ turn'[s].at = IF HasWorkflow THEN "persist" ELSE "answer"
         /\ turn'[s].n = turn[s].n /\ turn'[s].pointer = turn[s].pointer
         /\ HasWorkflow => \E v : turn'[s].judged = advance_after_verdict(agent.workflow,
                                                      turn[s].pointer.step, v)
         /\ turn[s].at = "running"
<1>1. PICK v : v = IF replied THEN verdict ELSE "maybe"
  OBVIOUS
<1>2. PICK at, judged : /\ at = IF HasWorkflow THEN "persist" ELSE "answer"
                        /\ judged = IF ~HasWorkflow THEN None
                                    ELSE advance_after_verdict(agent.workflow, turn[s].pointer.step, v)
  OBVIOUS
<1>3. turn' = [turn EXCEPT ![s] = [at |-> at, n |-> turn[s].n, pointer |-> turn[s].pointer,
                                   judged |-> judged, refused |-> turn[s].refused]]
  BY <1>1, <1>2 DEF FinishRun
<1>4. PICK w : w = [at |-> at, n |-> turn[s].n, pointer |-> turn[s].pointer,
                    judged |-> judged, refused |-> turn[s].refused]
  OBVIOUS
<1>5. w.at = at /\ w.n = turn[s].n /\ w.pointer = turn[s].pointer /\ w.judged = judged
  BY <1>4
<1>6. OnlyTurn(s) /\ turn'[s] = w
  BY <1>3, <1>4, TurnReplaced DEF ShapeInv
<1> QED BY <1>2, <1>5, <1>6 DEF FinishRun

\* The cap gives a pointer.
LEMMA CapShape ==
  ASSUME NEW wf, NEW before, NEW judged, NEW attempts \in Nat
  PROVE  PointerShape(apply_step_cap(wf, before, judged, attempts))
<1>1. \A x, n : n \in Nat => PointerShape([step |-> x, attempts |-> n])
  BY DEF PointerShape
<1>2. attempts + 1 \in Nat /\ 0 \in Nat
  OBVIOUS
<1> QED BY <1>1, <1>2 DEF apply_step_cap

\* What a read that failed gives.
LEMMA NoShape == MetaShape(NoMeta) /\ PointerShape(NoPointer) /\ NoMeta.pointer = NoPointer
BY DEF MetaShape, PointerShape, NoMeta, NoPointer

\* The metadata is read for the new pointer.
LEMMA ReadEffect ==
  ASSUME ShapeInv, NEW s \in Session, ReadPointer(s)
  PROVE  /\ OnlyTurn(s) /\ turn'[s].at = "write" /\ turn'[s].n = turn[s].n
         /\ turn'[s].read \in {row[s].meta, NoMeta} /\ turn'[s].pointer = turn[s].pointer
         /\ turn'[s].next = apply_step_cap(agent.workflow, turn[s].pointer.step, turn[s].judged,
                                           turn[s].pointer.attempts)
         /\ turn[s].at = "persist"
<1>1. PICK next : next = apply_step_cap(agent.workflow, turn[s].pointer.step, turn[s].judged,
                                        turn[s].pointer.attempts)
  OBVIOUS
<1>2. PICK read \in {row[s].meta, NoMeta} :
        turn' = [turn EXCEPT ![s] =
          [at |-> "write", n |-> turn[s].n, read |-> read, refused |-> turn[s].refused,
           pointer |-> turn[s].pointer, next |-> next]]
  BY <1>1 DEF ReadPointer, ReadMeta
<1>3. PICK w : w = [at |-> "write", n |-> turn[s].n, read |-> read,
                    refused |-> turn[s].refused, pointer |-> turn[s].pointer, next |-> next]
  OBVIOUS
<1>4. /\ w.at = "write" /\ w.n = turn[s].n /\ w.read = read /\ w.pointer = turn[s].pointer
      /\ w.next = next
  BY <1>3
<1>5. OnlyTurn(s) /\ turn'[s] = w
  BY <1>2, <1>3, TurnReplaced DEF ShapeInv
<1> QED BY <1>1, <1>4, <1>5 DEF ReadPointer

\* The rows of the other sessions stay as they are, and this one's name.
OnlyMeta(s) == /\ DOMAIN row' = Session /\ \A u \in Session \ {s} : row'[u] = row[u]
               /\ DOMAIN row'[s] = {"name", "meta"} /\ row'[s].name = row[s].name

\* One field of a metadata map is replaced, and the map is stored.
LEMMA MetaWritten ==
  ASSUME RowShape, NEW s \in Session, NEW m, row' = [row EXCEPT ![s].meta = m]
  PROVE  OnlyMeta(s) /\ row'[s].meta = m
BY DEF RowShape, OnlyMeta

\* The pointer is written into the map that was read, or the write fails.
LEMMA WriteEffect ==
  ASSUME ShapeInv, NEW s \in Session, WritePointer(s)
  PROVE  /\ OnlyTurn(s) /\ turn'[s].at = "answer" /\ turn[s].at = "write"
         /\ OnlyHistory({"held", "lost"})
         /\ \A u \in Session \ {s} : /\ history'.held[u] = history.held[u]
                                     /\ history'.lost[u] = history.lost[u]
         /\ history'.held \in [Session -> Nat] /\ history'.lost \in [Session -> Nat]
         /\ \/ /\ OnlyMeta(s) /\ MetaShape(row'[s].meta) /\ row'[s].meta.pointer = turn[s].next
               /\ history'.held[s] = IF StepOf(turn[s].next) # StepOf(row[s].meta.pointer)
                                     THEN 0 ELSE history.held[s] + 1
               /\ \/ history'.lost[s] = history.lost[s] + 1
                  \/ history'.lost[s] = history.lost[s] /\ turn[s].pointer = row[s].meta.pointer
            \/ /\ row' = row /\ history'.held[s] = history.held[s] + 1
               /\ history'.lost[s] = history.lost[s] + 1
<1>0. turn[s].at = "write"
  BY DEF WritePointer
<1>1. PICK w : w = [at |-> "answer", n |-> turn[s].n, refused |-> turn[s].refused]
  OBVIOUS
<1>2. turn' = [turn EXCEPT ![s] = w] /\ w.at = "answer"
  BY <1>1 DEF WritePointer
<1>3. OnlyTurn(s) /\ turn'[s] = w
  BY <1>2, TurnReplaced DEF ShapeInv
<1>4. /\ DOMAIN history = HistoryFields
      /\ history.held \in [Session -> Nat] /\ history.lost \in [Session -> Nat]
  BY DEF ShapeInv, HistoryShape
<1>5. ASSUME NEW h \in Nat, NEW l \in Nat,
             history' = [history EXCEPT !.held[s] = h, !.lost[s] = l]
      PROVE  /\ OnlyHistory({"held", "lost"})
             /\ \A u \in Session \ {s} : /\ history'.held[u] = history.held[u]
                                         /\ history'.lost[u] = history.lost[u]
             /\ history'.held \in [Session -> Nat] /\ history'.lost \in [Session -> Nat]
             /\ history'.held[s] = h /\ history'.lost[s] = l
  <2>1. history' = [history EXCEPT !.held = [history.held EXCEPT ![s] = h],
                                   !.lost = [history.lost EXCEPT ![s] = l]]
    BY <1>4, <1>5 DEF HistoryFields
  <2>2. /\ OnlyHistory({"held", "lost"})
        /\ history'.held = [history.held EXCEPT ![s] = h]
        /\ history'.lost = [history.lost EXCEPT ![s] = l]
    BY <1>4, <2>1 DEF OnlyHistory, HistoryFields
  <2> QED BY <1>4, <2>2
<1>6. PICK moved, lost : /\ moved = (StepOf(turn[s].next) # StepOf(row[s].meta.pointer))
                         /\ lost = (\/ turn[s].read # row[s].meta
                                    \/ turn[s].pointer # row[s].meta.pointer)
  OBVIOUS
<1>7. CASE /\ row' = [row EXCEPT ![s].meta = [turn[s].read EXCEPT !.pointer = turn[s].next]]
           /\ history' = [history EXCEPT !.held[s] = IF moved THEN 0 ELSE @ + 1,
                                         !.lost[s] = IF lost THEN @ + 1 ELSE @]
  <2>1. PICK h, l : /\ h = IF moved THEN 0 ELSE history.held[s] + 1
                    /\ l = IF lost THEN history.lost[s] + 1 ELSE history.lost[s]
    OBVIOUS
  <2>2. h \in Nat /\ l \in Nat /\ history' = [history EXCEPT !.held[s] = h, !.lost[s] = l]
    BY <1>4, <1>7, <2>1 DEF HistoryFields
  <2>3. PICK m : m = [turn[s].read EXCEPT !.pointer = turn[s].next]
    OBVIOUS
  <2>4. MetaShape(m) /\ m.pointer = turn[s].next
    BY <1>0, <2>3 DEF ShapeInv, TurnShape, MetaShape
  <2>5. OnlyMeta(s) /\ row'[s].meta = m
    BY <1>7, <2>3, MetaWritten DEF ShapeInv
  <2>6. /\ OnlyHistory({"held", "lost"})
        /\ \A u \in Session \ {s} : /\ history'.held[u] = history.held[u]
                                    /\ history'.lost[u] = history.lost[u]
        /\ history'.held \in [Session -> Nat] /\ history'.lost \in [Session -> Nat]
        /\ history'.held[s] = h /\ history'.lost[s] = l
    BY <1>5, <2>2
  <2> QED BY <1>0, <1>2, <1>3, <1>6, <2>1, <2>4, <2>5, <2>6
<1>8. CASE row' = row /\ history' = [history EXCEPT !.held[s] = @ + 1, !.lost[s] = @ + 1]
  <2>1. PICK h, l : h = history.held[s] + 1 /\ l = history.lost[s] + 1
    OBVIOUS
  <2>2. h \in Nat /\ l \in Nat /\ history' = [history EXCEPT !.held[s] = h, !.lost[s] = l]
    BY <1>4, <1>8, <2>1 DEF HistoryFields
  <2>3. /\ OnlyHistory({"held", "lost"})
        /\ \A u \in Session \ {s} : /\ history'.held[u] = history.held[u]
                                    /\ history'.lost[u] = history.lost[u]
        /\ history'.held \in [Session -> Nat] /\ history'.lost \in [Session -> Nat]
        /\ history'.held[s] = h /\ history'.lost[s] = l
    BY <1>5, <2>2
  <2> QED BY <1>0, <1>2, <1>3, <1>8, <2>1, <2>3
<1> QED BY <1>6, <1>7, <1>8 DEF WritePointer

\* A reconnect's write: the whole map as it was read, with its capabilities.
LEMMA ResumeEffect ==
  ASSUME ShapeInv, NEW r \in resume, ResumeWrite(r), NEW s, s = r.session
  PROVE  /\ s \in Session /\ OnlyMeta(s) /\ MetaShape(row'[s].meta)
         /\ row'[s].meta.pointer = r.read.pointer
         /\ OnlyHistory({"held", "lost"})
         /\ history'.held \in [Session -> Nat] /\ history'.lost \in [Session -> Nat]
         /\ \A u \in Session \ {s} : /\ history'.held[u] = history.held[u]
                                     /\ history'.lost[u] = history.lost[u]
         /\ history'.held[s] = IF HasWorkflow /\ StepOf(r.read.pointer) # StepOf(row[s].meta.pointer)
                               THEN 0 ELSE history.held[s]
         /\ history'.lost[s] = IF r.read = row[s].meta THEN history.lost[s] ELSE history.lost[s] + 1
<1>1. s \in Session /\ MetaShape(r.read) /\ RowShape
  BY DEF ShapeInv, RowShape
<1>2. /\ DOMAIN history = HistoryFields
      /\ history.held \in [Session -> Nat] /\ history.lost \in [Session -> Nat]
  BY DEF ShapeInv, HistoryShape
<1>3. PICK m : m = [r.read EXCEPT !.supports = r.supports]
  OBVIOUS
<1>4. MetaShape(m) /\ m.pointer = r.read.pointer
  BY <1>1, <1>3 DEF MetaShape
<1>5. row' = [row EXCEPT ![s].meta = m]
  BY <1>3 DEF ResumeWrite
<1>6. OnlyMeta(s) /\ row'[s].meta = m
  BY <1>1, <1>5, MetaWritten
<1>7. PICK moved, h, l :
        /\ moved = (HasWorkflow /\ StepOf(r.read.pointer) # StepOf(row[s].meta.pointer))
        /\ h = IF moved THEN 0 ELSE history.held[s]
        /\ l = IF r.read = row[s].meta THEN history.lost[s] ELSE history.lost[s] + 1
  OBVIOUS
<1>8. history' = [history EXCEPT !.held[s] = h, !.lost[s] = l] /\ h \in Nat /\ l \in Nat
  <2>1. history' = [history EXCEPT !.held[s] = IF moved THEN 0 ELSE @,
                                   !.lost[s] = IF r.read = row[s].meta THEN @ ELSE @ + 1]
    BY <1>7 DEF ResumeWrite
  <2>2. h \in Nat /\ l \in Nat
    BY <1>1, <1>2, <1>7
  <2> QED BY <1>2, <1>7, <2>1, <2>2 DEF HistoryFields
<1>9. history' = [history EXCEPT !.held = [history.held EXCEPT ![s] = h],
                                 !.lost = [history.lost EXCEPT ![s] = l]]
  BY <1>2, <1>8 DEF HistoryFields
<1>10. /\ OnlyHistory({"held", "lost"})
       /\ history'.held = [history.held EXCEPT ![s] = h]
       /\ history'.lost = [history.lost EXCEPT ![s] = l]
  BY <1>2, <1>9 DEF OnlyHistory, HistoryFields
<1>11. /\ history'.held \in [Session -> Nat] /\ history'.lost \in [Session -> Nat]
       /\ \A u \in Session \ {s} : /\ history'.held[u] = history.held[u]
                                   /\ history'.lost[u] = history.lost[u]
       /\ history'.held[s] = h /\ history'.lost[s] = l
  BY <1>1, <1>2, <1>8, <1>10
<1> QED BY <1>1, <1>4, <1>6, <1>7, <1>10, <1>11

\* The metadata of every row stays as it is, and the names of the other rows.
OnlyName(s, x) == /\ DOMAIN row' = Session /\ \A u \in Session \ {s} : row'[u] = row[u]
                  /\ DOMAIN row'[s] = {"name", "meta"} /\ row'[s].name = x
                  /\ row'[s].meta = row[s].meta

\* A name is written.
LEMMA NameWritten ==
  ASSUME RowShape, NEW s \in Session, NEW x, row' = [row EXCEPT ![s].name = x]
  PROVE  OnlyName(s, x)
BY DEF RowShape, OnlyName

\* A rename, and when it enters the history.
LEMMA RenameEffect ==
  ASSUME ShapeInv, NEW s \in Session, Renamed(s)
  PROVE  /\ OnlyHistory({"kept"})
         /\ \E prefixed \in BOOLEAN :
              /\ OnlyName(s, Name("hand", prefixed))
              /\ \/ history'.kept = history.kept \ {s}
                 \/ /\ history'.kept = history.kept \cup {s} /\ prefixed = FALSE
                    /\ \A k \in titler : k.session = s => k.at # "write"
<1>0. PICK prefixed \in BOOLEAN : Rename(s, prefixed)
  BY DEF Renamed
<1>1. OnlyName(s, Name("hand", prefixed))
  BY <1>0, NameWritten DEF Rename, ShapeInv
<1>2. DOMAIN history = HistoryFields
  BY DEF ShapeInv, HistoryShape
<1>3. CASE prefixed \/ \E k \in titler : k.session = s /\ k.at = "write"
  <2>1. history' = [history EXCEPT !.kept = history.kept \ {s}]
    BY <1>0, <1>3 DEF Rename
  <2>2. OnlyHistory({"kept"}) /\ history'.kept = history.kept \ {s}
    BY <1>2, <2>1 DEF OnlyHistory, HistoryFields
  <2> QED BY <1>1, <2>2
<1>4. CASE ~prefixed /\ \A k \in titler : k.session = s => k.at # "write"
  <2>1. history' = [history EXCEPT !.kept = history.kept \cup {s}]
    BY <1>0, <1>4 DEF Rename
  <2>2. OnlyHistory({"kept"}) /\ history'.kept = history.kept \cup {s}
    BY <1>2, <2>1 DEF OnlyHistory, HistoryFields
  <2>3. prefixed = FALSE
    BY <1>4
  <2> QED BY <1>1, <1>4, <2>2, <2>3
<1> QED BY <1>3, <1>4

\* The titler's second look: whoever it lets through writes over a name that is no
\* longer counted as kept.
LEMMA RecheckEffect ==
  ASSUME ShapeInv, NEW k \in titler, TitleRecheck(k)
  PROVE  /\ OnlyHistory({"kept"}) /\ verified' = verified /\ row' = row /\ resume' = resume
         /\ \/ /\ history'.kept = history.kept
               /\ \E at : Move(k, at) /\ (at = None \/ StillDefault(k.session))
            \/ /\ history'.kept = history.kept \ {k.session}
               /\ \E at : Move(k, at)
<1>1. DOMAIN history = HistoryFields
  BY DEF ShapeInv, HistoryShape
<1>2. verified' = verified /\ row' = row /\ resume' = resume
  BY DEF TitleRecheck
<1>3. CASE /\ Move(k, IF StillDefault(k.session) THEN "write" ELSE None)
           /\ UNCHANGED history
  <2>1. PICK at : at = IF StillDefault(k.session) THEN "write" ELSE None
    OBVIOUS
  <2>2. Move(k, at) /\ (at = None \/ StillDefault(k.session))
    BY <1>3, <2>1
  <2> QED BY <1>1, <1>2, <1>3, <2>2 DEF OnlyHistory
<1>4. CASE Move(k, "write") /\ history' = [history EXCEPT !.kept = @ \ {k.session}]
  <2>1. OnlyHistory({"kept"}) /\ history'.kept = history.kept \ {k.session}
    BY <1>1, <1>4 DEF OnlyHistory, HistoryFields
  <2> QED BY <1>2, <1>4, <2>1
<1> QED BY <1>3, <1>4 DEF TitleRecheck

\* An auto-title task moves on or is over.
LEMMA MoveEffect ==
  ASSUME TaskShape, NEW task \in titler, NEW at, Move(task, at)
  PROVE  \A k \in titler' : \/ k \in titler
                            \/ /\ k.session = task.session /\ k.at = at /\ at # None
                               /\ DOMAIN k = {"session", "n", "at"}
<1>1. PICK w : w = [task EXCEPT !.at = at]
  OBVIOUS
<1>2. w.session = task.session /\ w.at = at /\ DOMAIN w = {"session", "n", "at"}
  BY <1>1 DEF TaskShape
<1>3. titler' = (titler \ {task}) \cup (IF at = None THEN {} ELSE {w})
  BY <1>1 DEF Move
<1> QED BY <1>2, <1>3

\* A code is accepted or not.
LEMMA VerifyEffect ==
  ASSUME ShapeInv, NEW s \in Session, NEW ok \in BOOLEAN, VerifyOtp(s, ok)
  PROVE  /\ OnlyHistory({"accepted"}) /\ history'.accepted \in [Session -> Nat]
         /\ verified' \in [Session -> BOOLEAN]
         /\ \A u \in Session : u # s \/ ~ok => /\ verified'[u] = verified[u]
                                               /\ history'.accepted[u] = history.accepted[u]
         /\ ok => history'.accepted[s] = IF history.accepted[s] = 0 THEN budget.turns
                                         ELSE history.accepted[s]
<1>1. /\ DOMAIN history = HistoryFields /\ history.accepted \in [Session -> Nat]
      /\ verified \in [Session -> BOOLEAN] /\ budget.turns \in Nat
  BY DEF ShapeInv, HistoryShape
<1>2. verified' = [verified EXCEPT ![s] = verified[s] \/ ok]
  BY DEF VerifyOtp, set_session_authenticated
<1>3. verified' \in [Session -> BOOLEAN] /\ \A u \in Session : u # s \/ ~ok => verified'[u] = verified[u]
  BY <1>1, <1>2
<1>4. CASE ok /\ history.accepted[s] = 0
  <2>1. PICK a : a = [history.accepted EXCEPT ![s] = budget.turns]
    OBVIOUS
  <2>2. history' = [history EXCEPT !.accepted = a]
    BY <1>4, <2>1 DEF VerifyOtp
  <2>3. OnlyHistory({"accepted"}) /\ history'.accepted = a
    BY <1>1, <2>2 DEF OnlyHistory, HistoryFields
  <2>4. a \in [Session -> Nat] /\ a[s] = budget.turns /\ \A u \in Session : u # s => a[u] = history.accepted[u]
    BY <1>1, <2>1
  <2> QED BY <1>3, <1>4, <2>3, <2>4
<1>5. CASE ~(ok /\ history.accepted[s] = 0)
  <2>1. history' = history
    BY <1>5 DEF VerifyOtp
  <2> QED BY <1>1, <1>3, <1>5, <2>1 DEF OnlyHistory
<1> QED BY <1>4, <1>5

\* A code is offered; the titler starts.
LEMMA RespondEffect ==
  ASSUME ShapeInv, NEW s \in Session, Respond(s)
  PROVE  /\ OnlyTurn(s) /\ turn'[s].at = "none" /\ OnlyHistory({"codes"})
         /\ \A k \in titler' : \/ k \in titler
                               \/ k.session = s /\ k.at = "look" /\ DOMAIN k = {"session", "n", "at"}
<1>1. turn' = [turn EXCEPT ![s] = NoTurn]
  BY DEF Respond
<1>2. OnlyTurn(s) /\ turn'[s] = NoTurn /\ NoTurn.at = "none"
  BY <1>1, TurnReplaced DEF ShapeInv, NoTurn
<1>3. history' = history \/ history' = [history EXCEPT !.codes = history.codes \cup {s}]
  BY DEF Respond
<1>4. OnlyHistory({"codes"})
  BY <1>3 DEF OnlyHistory, HistoryFields, ShapeInv, HistoryShape
<1>5. PICK w : w = [session |-> s, n |-> turn[s].n, at |-> "look"]
  OBVIOUS
<1>6. titler' = titler \/ titler' = titler \cup {w}
  BY <1>5 DEF Respond
<1>7. w.session = s /\ w.at = "look" /\ DOMAIN w = {"session", "n", "at"}
  BY <1>5
<1> QED BY <1>2, <1>4, <1>6, <1>7

\* A failed turn is over.
LEMMA FailEffect ==
  ASSUME ShapeInv, NEW s \in Session, FailRun(s)
  PROVE  OnlyTurn(s) /\ turn'[s].at = "none"
<1>1. turn' = [turn EXCEPT ![s] = NoTurn]
  BY DEF FailRun
<1>2. OnlyTurn(s) /\ turn'[s] = NoTurn /\ NoTurn.at = "none"
  BY <1>1, TurnReplaced DEF ShapeInv, NoTurn
<1> QED BY <1>2

------------------------------------------------------------------------------
(* The shapes are kept.                                                     *)

\* One turn changes, and what it becomes has its shape.
LEMMA TurnShapeKept ==
  ASSUME TurnShape, NEW s \in Session, OnlyTurn(s),
         turn'[s].at \in {"running", "asking"} => DOMAIN turn'[s] = RunFields,
         turn'[s].at \in Pointing => turn'[s].n \in Nat /\ PointerShape(turn'[s].pointer),
         turn'[s].at = "write" => MetaShape(turn'[s].read) /\ PointerShape(turn'[s].next)
  PROVE  TurnShape'
<1>1. DOMAIN turn' = Session
  BY DEF OnlyTurn
<1>2. ASSUME NEW u \in Session
      PROVE  /\ turn'[u].at \in {"running", "asking"} => DOMAIN turn'[u] = RunFields
             /\ turn'[u].at \in Pointing => turn'[u].n \in Nat /\ PointerShape(turn'[u].pointer)
             /\ turn'[u].at = "write" => MetaShape(turn'[u].read) /\ PointerShape(turn'[u].next)
  <2>1. CASE u = s
    BY <2>1
  <2>2. CASE u # s
    BY <2>2 DEF TurnShape, OnlyTurn
  <2> QED BY <2>1, <2>2
<1> QED BY <1>1, <1>2 DEF TurnShape

\* Every step of a turn keeps the shape of the turns.
LEMMA StepTurnShape ==
  ASSUME ShapeInv, [Next]_vars
  PROVE  TurnShape'
<1> DEFINE Goal == TurnShape'
<1> HIDE DEF Goal
<1>0. TurnShape
  BY DEF ShapeInv
<1>a. ASSUME turn' = turn PROVE Goal
  BY <1>0, <1>a DEF Goal, TurnShape
<1>b. ASSUME NEW s \in Session, OnlyTurn(s), turn'[s].at \notin Pointing PROVE Goal
  BY <1>0, <1>b, TurnShapeKept DEF Goal, Pointing
<1>c. ASSUME NEW s \in Session, NEW at \in {"running", "asking"}, Goes(s, at),
             turn[s].at \in {"running", "asking"}
      PROVE  Goal
  <2>1. turn'[s].n \in Nat /\ PointerShape(turn'[s].pointer)
    BY <1>0, <1>c DEF TurnShape, Goes, Pointing
  <2> QED BY <1>0, <1>c, <2>1, TurnShapeKept DEF Goal, Goes
<1>1. ASSUME NEW s \in Session, NEW f \in Frame, SendMessage(s, f) PROVE Goal
  <2>1. OnlyTurn(s) /\ turn'[s].at = "prepare" /\ turn'[s].n = budget.turns
        /\ turn'[s].pointer \in {row[s].meta.pointer, NoPointer}
    BY <1>1, SendEffect
  <2>2. turn'[s].n \in Nat /\ PointerShape(turn'[s].pointer)
    BY <2>1, NoShape DEF ShapeInv, HistoryShape, RowShape, MetaShape
  <2> QED BY <1>0, <2>1, <2>2, TurnShapeKept DEF Goal
<1>2. ASSUME NEW s \in Session, Prepare(s) PROVE Goal
  <2>1. /\ OnlyTurn(s) /\ turn'[s].at = "running" /\ DOMAIN turn'[s] = RunFields
        /\ turn'[s].n = turn[s].n /\ turn'[s].pointer = turn[s].pointer /\ turn[s].at = "prepare"
    BY <1>2, PrepareEffect
  <2>2. turn'[s].n \in Nat /\ PointerShape(turn'[s].pointer)
    BY <1>0, <2>1 DEF TurnShape, Pointing
  <2> QED BY <1>0, <2>1, <2>2, TurnShapeKept DEF Goal
<1>3. ASSUME NEW s \in Session, FailRun(s) PROVE Goal
  BY <1>3, <1>b, FailEffect DEF Pointing
<1>4. ASSUME NEW s \in Session, ReadPointer(s) PROVE Goal
  <2>1. /\ OnlyTurn(s) /\ turn'[s].at = "write" /\ turn'[s].n = turn[s].n
        /\ turn'[s].read \in {row[s].meta, NoMeta} /\ turn'[s].pointer = turn[s].pointer
        /\ turn[s].at = "persist"
    BY <1>4, ReadEffect
  <2>2. PICK wf, before, judged, attempts :
          /\ turn'[s].next = apply_step_cap(wf, before, judged, attempts)
          /\ attempts = turn[s].pointer.attempts
    BY <1>4, ReadEffect
  <2>3. /\ turn'[s].n \in Nat /\ PointerShape(turn'[s].pointer) /\ attempts \in Nat
        /\ MetaShape(turn'[s].read)
    BY <1>0, <2>1, <2>2, NoShape DEF TurnShape, Pointing, PointerShape, ShapeInv, RowShape
  <2>4. PointerShape(turn'[s].next)
    BY <2>2, <2>3, CapShape
  <2> QED BY <1>0, <2>1, <2>3, <2>4, TurnShapeKept DEF Goal
<1>5. ASSUME NEW s \in Session, WritePointer(s) PROVE Goal
  BY <1>5, <1>b, WriteEffect DEF Pointing
<1>6. ASSUME NEW s \in Session, Respond(s) PROVE Goal
  BY <1>6, <1>b, RespondEffect DEF Pointing
<1>7. ASSUME NEW s \in Session, NEW tool, CallTool(s, tool) PROVE Goal
  BY <1>7, <1>c, CallEffect
<1>8. ASSUME NEW s \in Session, NEW tool, AskHost(s, tool) PROVE Goal
  BY <1>8, <1>c, AskEffect
<1>9. ASSUME NEW s \in Session, TakeVerdict(s) PROVE Goal
  BY <1>9, <1>c, VerdictEffect
<1>10. ASSUME NEW s \in Session, AskTimesOut(s) PROVE Goal
  BY <1>10, <1>c, AskEffect
<1>11. ASSUME NEW s \in Session, NEW replied \in BOOLEAN, NEW verdict, FinishRun(s, replied, verdict)
       PROVE  Goal
  <2>1. /\ OnlyTurn(s) /\ turn'[s].at \in {"persist", "answer"}
        /\ turn'[s].n = turn[s].n /\ turn'[s].pointer = turn[s].pointer /\ turn[s].at = "running"
    BY <1>11, FinishEffect
  <2>2. turn'[s].n \in Nat /\ PointerShape(turn'[s].pointer)
    BY <1>0, <2>1 DEF TurnShape, Pointing
  <2> QED BY <1>0, <2>1, <2>2, TurnShapeKept DEF Goal
<1>12. ASSUME \/ \E s \in Session : \/ \E v \in {"approved", "denied"} : ConfirmHost(s, v)
                                    \/ Renamed(s) \/ \E c \in Supports : ResumeRead(s, c)
                                    \/ \E ok \in BOOLEAN : VerifyOtp(s, ok)
              \/ Drain \/ UNCHANGED vars
              \/ \E k \in titler : TitleLook(k) \/ TitleModel(k) \/ TitleRecheck(k) \/ TitleWrite(k)
              \/ \E r \in resume : ResumeWrite(r)
              \/ \E v \in Setting : SaveSettings(v)
       PROVE  Goal
  <2>1. turn' = turn
    BY <1>12 DEF ConfirmHost, Renamed, Rename, ResumeRead, VerifyOtp, Drain, vars, TitleLook, TitleModel,
                 TitleRecheck, TitleWrite, ResumeWrite, SaveSettings
  <2> QED BY <2>1, <1>a
<1> QED
  <2>1. Goal
    BY <1>1, <1>2, <1>3, <1>4, <1>5, <1>6, <1>7, <1>8, <1>9, <1>10, <1>11, <1>12 DEF Next, Renamed
  <2> QED BY <2>1 DEF Goal

\* One row changes, and its metadata keeps its shape.
LEMMA RowShapeKept ==
  ASSUME RowShape, NEW s \in Session, DOMAIN row' = Session,
         \A u \in Session \ {s} : row'[u] = row[u],
         DOMAIN row'[s] = {"name", "meta"}, MetaShape(row'[s].meta),
         \A r \in resume' : r \in resume
  PROVE  RowShape'
<1>1. ASSUME NEW u \in Session
      PROVE  DOMAIN row'[u] = {"name", "meta"} /\ MetaShape(row'[u].meta)
  <2>1. CASE u = s
    BY <2>1
  <2>2. CASE u # s
    BY <2>2 DEF RowShape
  <2> QED BY <2>1, <2>2
<1> QED BY <1>1 DEF RowShape

\* The steps that leave rows and reconnects alone.
Rowless ==
  \/ \E s \in Session :
       \/ \E f \in Frame : SendMessage(s, f)
       \/ Prepare(s) \/ FailRun(s) \/ ReadPointer(s) \/ Respond(s)
       \/ \E tool \in turn[s].tools : CallTool(s, tool) \/ AskHost(s, tool)
       \/ TakeVerdict(s) \/ AskTimesOut(s)
       \/ \E v \in {"approved", "denied"} : ConfirmHost(s, v)
       \/ \E replied \in BOOLEAN : \E v : FinishRun(s, replied, v)
       \/ \E ok \in BOOLEAN : VerifyOtp(s, ok)
  \/ Drain \/ UNCHANGED vars
  \/ \E k \in titler : TitleLook(k) \/ TitleModel(k) \/ TitleRecheck(k)
  \/ \E v \in Setting : SaveSettings(v)

\* Indeed they do.
LEMMA RowlessEffect == Rowless => row' = row /\ resume' = resume
BY DEF Rowless, SendMessage, Prepare, FailRun, ReadPointer, Respond, CallTool, AskHost,
       TakeVerdict, AskTimesOut, ConfirmHost, FinishRun, VerifyOtp, Drain, vars, TitleLook,
       TitleModel, TitleRecheck, SaveSettings

\* A step leaves the rows alone or is one of those that write or read them.
LEMMA RowCases ==
  ASSUME [Next]_vars, NEW Goal,
         Rowless => Goal,
         \A s \in Session : WritePointer(s) \/ Renamed(s) => Goal,
         \A s \in Session, c \in Supports : ResumeRead(s, c) => Goal,
         \A k \in titler : TitleWrite(k) => Goal,
         \A r \in resume : ResumeWrite(r) => Goal
  PROVE  Goal
BY DEF Next, Rowless, Renamed

\* Every step keeps the shape of the rows.
LEMMA StepRowShape ==
  ASSUME ShapeInv, [Next]_vars
  PROVE  RowShape'
<1>0. RowShape
  BY DEF ShapeInv
<1>1. ASSUME Rowless PROVE RowShape'
  BY <1>0, <1>1, RowlessEffect DEF RowShape
<1>2. ASSUME NEW s \in Session, WritePointer(s) PROVE RowShape'
  <2>1. resume' = resume
    BY <1>2 DEF WritePointer
  <2>2. CASE row' = row
    BY <1>0, <2>1, <2>2 DEF RowShape
  <2>3. CASE OnlyMeta(s) /\ MetaShape(row'[s].meta)
    BY <1>0, <2>1, <2>3, RowShapeKept DEF OnlyMeta
  <2> QED BY <1>2, <2>2, <2>3, WriteEffect
<1>3. ASSUME NEW s \in Session, NEW x, OnlyName(s, x), resume' = resume PROVE RowShape'
  <2>1. MetaShape(row'[s].meta)
    BY <1>0, <1>3 DEF OnlyName, RowShape
  <2> QED BY <1>0, <1>3, <2>1, RowShapeKept DEF OnlyName
<1>4. ASSUME NEW s \in Session, Renamed(s) PROVE RowShape'
  <2>1. resume' = resume
    BY <1>4 DEF Renamed, Rename
  <2>2. \E x : OnlyName(s, x)
    BY <1>4, RenameEffect
  <2> QED BY <1>3, <2>1, <2>2
<1>5. ASSUME NEW s \in Session, NEW c \in Supports, ResumeRead(s, c) PROVE RowShape'
  <2>0. PICK read \in {row[s].meta, NoMeta} :
          resume' = resume \cup {[session |-> s, supports |-> c, read |-> read]}
    BY <1>5 DEF ResumeRead, ReadMeta
  <2>1. PICK w : w = [session |-> s, supports |-> c, read |-> read]
    OBVIOUS
  <2>2. row' = row /\ resume' = resume \cup {w}
    BY <1>5, <2>0, <2>1 DEF ResumeRead
  <2>3. w.session = s /\ MetaShape(w.read)
    BY <1>0, <2>1, NoShape DEF RowShape
  <2> QED BY <1>0, <2>2, <2>3 DEF RowShape
<1>6. ASSUME NEW k \in titler, TitleWrite(k) PROVE RowShape'
  <2>1. PICK s \in Session : s = k.session
    BY DEF ShapeInv, TaskShape
  <2>2. resume' = resume /\ (row' = row \/ \E x : row' = [row EXCEPT ![s].name = x])
    BY <1>6, <2>1 DEF TitleWrite
  <2>3. CASE row' = row
    BY <1>0, <2>2, <2>3 DEF RowShape
  <2>4. CASE \E x : row' = [row EXCEPT ![s].name = x]
    BY <1>0, <1>3, <2>2, <2>4, NameWritten
  <2> QED BY <2>2, <2>3, <2>4
<1>7. ASSUME NEW r \in resume, ResumeWrite(r) PROVE RowShape'
  <2>1. PICK s : s = r.session
    OBVIOUS
  <2>2. s \in Session /\ OnlyMeta(s) /\ MetaShape(row'[s].meta)
    BY <1>7, <2>1, ResumeEffect
  <2>3. \A x \in resume' : x \in resume
    BY <1>7 DEF ResumeWrite
  <2> QED BY <1>0, <2>2, <2>3, RowShapeKept DEF OnlyMeta
<1> HIDE DEF RowShape
<1> QED BY <1>1, <1>2, <1>4, <1>5, <1>6, <1>7, RowCases

\* Every step keeps the shape of the auto-title tasks and of the approver.
LEMMA StepTaskShape ==
  ASSUME ShapeInv, [Next]_vars
  PROVE  TaskShape'
<1> DEFINE Tasks == \A k \in titler' : k.session \in Session /\ DOMAIN k = {"session", "n", "at"}
           Prompts == DOMAIN approver' = {"current", "requests", "verdicts"}
<1> HIDE DEF Tasks, Prompts
<1>0. TaskShape
  BY DEF ShapeInv
<1>1. ASSUME NEW k \in titler, NEW at, Move(k, at) PROVE Tasks
  BY <1>0, <1>1, MoveEffect DEF TaskShape, Tasks
<1>2. ASSUME NEW k \in titler, TitleLook(k) \/ TitleModel(k) \/ TitleRecheck(k) \/ TitleWrite(k)
      PROVE  \E at : Move(k, at)
  BY <1>2 DEF TitleLook, TitleModel, TitleRecheck, TitleWrite
<1>3. ASSUME NEW s \in Session, Respond(s) PROVE Tasks
  BY <1>0, <1>3, RespondEffect DEF TaskShape, Tasks
<1>4. ASSUME titler' = titler PROVE Tasks
  BY <1>0, <1>4 DEF TaskShape, Tasks
<1>5. \/ \E k \in titler : TitleLook(k) \/ TitleModel(k) \/ TitleRecheck(k) \/ TitleWrite(k)
      \/ \E s \in Session : Respond(s)
      \/ titler' = titler
  BY DEF Next, SendMessage, Prepare, FailRun, ReadPointer, WritePointer, CallTool, AskHost,
         TakeVerdict, AskTimesOut, ConfirmHost, FinishRun, VerifyOtp, Drain, vars, Rename,
         ResumeRead, ResumeWrite, SaveSettings
<1>6. Tasks
  BY <1>1, <1>2, <1>3, <1>4, <1>5
<1>7. ASSUME \E c, q, v : \/ approver' = [approver EXCEPT !.current = c]
                          \/ approver' = [approver EXCEPT !.requests = q]
                          \/ approver' = [approver EXCEPT !.verdicts = v]
                          \/ approver' = [approver EXCEPT !.requests = q, !.verdicts = v]
                          \/ approver' = approver
      PROVE  Prompts
  BY <1>0, <1>7 DEF TaskShape, Prompts
<1>8. ASSUME \E s \in Session : \/ Prepare(s) \/ FailRun(s) \/ TakeVerdict(s)
                                \/ \E tool : AskHost(s, tool)
                                \/ \E v : ConfirmHost(s, v)
                                \/ \E replied, verdict : FinishRun(s, replied, verdict)
      PROVE  Prompts
  <2>1. \E c, q, v : \/ approver' = [approver EXCEPT !.current = c]
                     \/ approver' = [approver EXCEPT !.requests = q]
                     \/ approver' = [approver EXCEPT !.verdicts = v]
                     \/ approver' = approver
    BY <1>8 DEF Prepare, FailRun, TakeVerdict, AskHost, ConfirmHost, FinishRun, Teardown
  <2> QED BY <1>7, <2>1
<1>9. ASSUME Drain PROVE Prompts
  <2>1. \E q, v : \/ approver' = [approver EXCEPT !.requests = q]
                  \/ approver' = [approver EXCEPT !.requests = q, !.verdicts = v]
    BY <1>9 DEF Drain
  <2> QED BY <1>7, <2>1
<1>10. ASSUME approver' = approver PROVE Prompts
  BY <1>0, <1>10 DEF TaskShape, Prompts
<1>11. \/ \E s \in Session : \/ Prepare(s) \/ FailRun(s) \/ TakeVerdict(s)
                             \/ \E tool : AskHost(s, tool)
                             \/ \E v : ConfirmHost(s, v)
                             \/ \E replied, verdict : FinishRun(s, replied, verdict)
       \/ Drain \/ approver' = approver
  BY DEF Next, SendMessage, ReadPointer, WritePointer, CallTool, Respond, AskTimesOut, VerifyOtp,
         vars, Rename, ResumeRead, ResumeWrite, SaveSettings, TitleLook, TitleModel, TitleRecheck,
         TitleWrite
<1>12. Prompts
  BY <1>8, <1>9, <1>10, <1>11
<1> QED BY <1>6, <1>12 DEF Tasks, Prompts, TaskShape

\* The steps that leave the history and the verification bits alone.
Silent ==
  \/ \E s \in Session :
       \/ \E f \in Frame : SendMessage(s, f)
       \/ Prepare(s) \/ FailRun(s) \/ ReadPointer(s)
       \/ \E tool \in turn[s].tools : AskHost(s, tool)
       \/ AskTimesOut(s)
       \/ \E replied \in BOOLEAN : \E v : FinishRun(s, replied, v)
       \/ \E c \in Supports : ResumeRead(s, c)
  \/ Drain \/ UNCHANGED vars
  \/ \E k \in titler : TitleLook(k) \/ TitleModel(k) \/ TitleWrite(k)
  \/ \E v \in Setting : SaveSettings(v)

\* Indeed they do.
LEMMA SilentEffect == Silent => history' = history /\ verified' = verified
BY DEF Silent, SendMessage, Prepare, FailRun, ReadPointer, AskHost, AskTimesOut, FinishRun,
       ResumeRead, Drain, vars, TitleLook, TitleModel, TitleWrite, SaveSettings

\* A step is silent or one of those that enter the history.
LEMMA HistoryCases ==
  ASSUME [Next]_vars, NEW Goal,
         Silent => Goal,
         \A s \in Session : WritePointer(s) \/ Respond(s) \/ TakeVerdict(s) \/ Renamed(s) => Goal,
         \A s \in Session : \A tool \in turn[s].tools : CallTool(s, tool) => Goal,
         \A s \in Session, v \in {"approved", "denied"} : ConfirmHost(s, v) => Goal,
         \A s \in Session, ok \in BOOLEAN : VerifyOtp(s, ok) => Goal,
         \A r \in resume : ResumeWrite(r) => Goal,
         \A k \in titler : TitleRecheck(k) => Goal
  PROVE  Goal
BY DEF Next, Silent, Renamed

\* An answer of a human.
LEMMA ConfirmEffect ==
  ASSUME ShapeInv, NEW s \in Session, NEW v \in {"approved", "denied"}, ConfirmHost(s, v)
  PROVE  /\ OnlyHistory({"approvals"})
         /\ history'.approvals = IF v = "approved" THEN history.approvals + 1 ELSE history.approvals
         /\ approver'.verdicts = Append(approver.verdicts, v)
<1>1. PICK a : a = IF v = "approved" THEN history.approvals + 1 ELSE history.approvals
  OBVIOUS
<1>2. PICK w : w = Append(approver.verdicts, v)
  OBVIOUS
<1>3. history' = [history EXCEPT !.approvals = a] /\ approver' = [approver EXCEPT !.verdicts = w]
  BY <1>1, <1>2 DEF ConfirmHost
<1>4. OnlyHistory({"approvals"}) /\ history'.approvals = a
  BY <1>3 DEF OnlyHistory, HistoryFields, ShapeInv, HistoryShape
<1>5. approver'.verdicts = w
  BY <1>3 DEF ShapeInv, TaskShape
<1> QED BY <1>1, <1>2, <1>4, <1>5

\* Every step keeps the budget a budget.
LEMMA StepBudget ==
  ASSUME ShapeInv, [Next]_vars
  PROVE  /\ DOMAIN budget' = {"turns", "calls", "events"} /\ budget'.turns \in Nat
         /\ budget'.turns <= budget.turns
         /\ (\E s \in Session, f \in Frame : SendMessage(s, f)) => budget'.turns < budget.turns
<1> DEFINE Goal == /\ DOMAIN budget' = {"turns", "calls", "events"} /\ budget'.turns \in Nat
                   /\ budget'.turns <= budget.turns
<1>0. HistoryShape /\ budget.turns \in Nat /\ DOMAIN budget = {"turns", "calls", "events"}
  BY DEF ShapeInv, HistoryShape
<1>1. Spend("turns") \/ Spend("calls") \/ Spend("events") \/ budget' = budget
  BY DEF Next, SendMessage, Prepare, FailRun, ReadPointer, WritePointer, CallTool, AskHost, Respond,
         TakeVerdict, AskTimesOut, ConfirmHost, FinishRun, VerifyOtp, Drain, vars, Rename,
         ResumeRead, ResumeWrite, SaveSettings, TitleLook, TitleModel, TitleRecheck, TitleWrite
<1>2. ASSUME NEW b \in {"turns", "calls", "events"}, Spend(b)
      PROVE  Goal /\ (b = "turns" => budget'.turns < budget.turns)
  BY <1>0, <1>2, SpendEffect
<1>3. ASSUME budget' = budget PROVE Goal
  BY <1>0, <1>3
<1>4. ASSUME NEW s \in Session, NEW f \in Frame, SendMessage(s, f) PROVE budget'.turns < budget.turns
  BY <1>2, <1>4 DEF SendMessage
<1> HIDE DEF Goal
<1>5. Goal
  BY <1>1, <1>2, <1>3
<1> QED BY <1>4, <1>5 DEF Goal

\* Every step keeps the shape of the history and of the verification bits.
LEMMA StepHistoryShape ==
  ASSUME ShapeInv, [Next]_vars
  PROVE  HistoryShape'
<1> DEFINE Goal == /\ verified' \in [Session -> BOOLEAN]
                   /\ DOMAIN history' = HistoryFields
                   /\ history'.accepted \in [Session -> Nat]
                   /\ history'.held \in [Session -> Nat] /\ history'.lost \in [Session -> Nat]
                   /\ history'.approvals \in Int
                   /\ \A c \in history'.ran : c.session \in Session /\ c.n \in Nat
<1>0. /\ verified \in [Session -> BOOLEAN] /\ DOMAIN history = HistoryFields
      /\ history.accepted \in [Session -> Nat]
      /\ history.held \in [Session -> Nat] /\ history.lost \in [Session -> Nat]
      /\ history.approvals \in Int
      /\ \A c \in history.ran : c.session \in Session /\ c.n \in Nat
  BY DEF ShapeInv, HistoryShape
<1>1. ASSUME Silent PROVE Goal
  BY <1>0, <1>1, SilentEffect
<1>2. ASSUME NEW s \in Session, WritePointer(s) PROVE Goal
  <2>1. verified' = verified
    BY <1>2 DEF WritePointer
  <2>2. /\ OnlyHistory({"held", "lost"})
        /\ history'.held \in [Session -> Nat] /\ history'.lost \in [Session -> Nat]
    BY <1>2, WriteEffect
  <2> QED BY <1>0, <2>1, <2>2 DEF OnlyHistory, HistoryFields
<1>3. ASSUME NEW s \in Session, Respond(s) PROVE Goal
  <2>1. verified' = verified /\ OnlyHistory({"codes"})
    BY <1>3, RespondEffect DEF Respond
  <2> QED BY <1>0, <2>1 DEF OnlyHistory, HistoryFields
<1>4. ASSUME NEW s \in Session, Renamed(s) PROVE Goal
  <2>1. verified' = verified /\ OnlyHistory({"kept"})
    BY <1>4, RenameEffect DEF Renamed, Rename
  <2> QED BY <1>0, <2>1 DEF OnlyHistory, HistoryFields
<1>5. ASSUME NEW s \in Session, NEW tool, Ran(s, tool), turn[s].at \in {"running", "asking"}
      PROVE  \A c \in history'.ran : c.session \in Session /\ c.n \in Nat
  <2>1. turn[s].n \in Nat
    BY <1>5 DEF ShapeInv, TurnShape, Pointing
  <2> QED BY <1>0, <1>5, <2>1 DEF Ran
<1>6. ASSUME NEW s \in Session, TakeVerdict(s) PROVE Goal
  <2>1. verified' = verified
    BY <1>6 DEF TakeVerdict
  <2>2. /\ OnlyHistory({"ran", "approvals"}) /\ turn[s].at = "asking"
        /\ \/ history'.ran = history.ran /\ history'.approvals = history.approvals
           \/ Ran(s, turn[s].asked) /\ history'.approvals = history.approvals - 1
    BY <1>6, VerdictEffect
  <2>3. \A c \in history'.ran : c.session \in Session /\ c.n \in Nat
    BY <1>0, <1>5, <2>2
  <2>4. history'.approvals \in Int
    BY <1>0, <2>2
  <2> QED BY <1>0, <2>1, <2>2, <2>3, <2>4 DEF OnlyHistory, HistoryFields
<1>7. ASSUME NEW s \in Session, NEW tool, CallTool(s, tool) PROVE Goal
  <2>1. verified' = verified
    BY <1>7 DEF CallTool
  <2>2. /\ OnlyHistory({"ran"}) /\ turn[s].at = "running"
        /\ history'.ran = history.ran \/ Ran(s, tool)
    BY <1>7, CallEffect
  <2>3. \A c \in history'.ran : c.session \in Session /\ c.n \in Nat
    BY <1>0, <1>5, <2>2
  <2> QED BY <1>0, <2>1, <2>2, <2>3 DEF OnlyHistory, HistoryFields
<1>8. ASSUME NEW s \in Session, NEW v \in {"approved", "denied"}, ConfirmHost(s, v) PROVE Goal
  <2>1. verified' = verified
    BY <1>8 DEF ConfirmHost
  <2>2. /\ OnlyHistory({"approvals"})
        /\ history'.approvals = IF v = "approved" THEN history.approvals + 1 ELSE history.approvals
    BY <1>8, ConfirmEffect
  <2> QED BY <1>0, <2>1, <2>2 DEF OnlyHistory, HistoryFields
<1>9. ASSUME NEW s \in Session, NEW ok \in BOOLEAN, VerifyOtp(s, ok) PROVE Goal
  <2>1. /\ OnlyHistory({"accepted"}) /\ history'.accepted \in [Session -> Nat]
        /\ verified' \in [Session -> BOOLEAN]
    BY <1>9, VerifyEffect
  <2> QED BY <1>0, <2>1 DEF OnlyHistory, HistoryFields
<1>10. ASSUME NEW r \in resume, ResumeWrite(r) PROVE Goal
  <2>1. verified' = verified
    BY <1>10 DEF ResumeWrite
  <2>2. PICK s : s = r.session
    OBVIOUS
  <2>3. /\ OnlyHistory({"held", "lost"})
        /\ history'.held \in [Session -> Nat] /\ history'.lost \in [Session -> Nat]
    BY <1>10, <2>2, ResumeEffect
  <2> QED BY <1>0, <2>1, <2>3 DEF OnlyHistory, HistoryFields
<1>12. ASSUME NEW k \in titler, TitleRecheck(k) PROVE Goal
  <2>1. verified' = verified /\ OnlyHistory({"kept"})
    BY <1>12, RecheckEffect
  <2> QED BY <1>0, <2>1 DEF OnlyHistory, HistoryFields
<1> HIDE DEF Goal
<1>11. Goal
  BY <1>12, <1>1, <1>2, <1>3, <1>4, <1>6, <1>7, <1>8, <1>9, <1>10, HistoryCases
<1> QED BY <1>11, StepBudget DEF Goal, HistoryShape

\* Every step keeps the shapes; configuration never changes.
LEMMA StepShape ==
  ASSUME ShapeInv, [Next]_vars
  PROVE  ShapeInv' /\ server' = server /\ agent' = agent
<1>0. UNCHANGED <<server, agent>>
  BY ZenonT(60) DEF Next, SendMessage, Prepare, FailRun, ReadPointer, WritePointer, CallTool, AskHost, Respond,
         TakeVerdict, AskTimesOut, ConfirmHost, FinishRun, VerifyOtp, Drain, vars, Rename,
         ResumeRead, ResumeWrite, SaveSettings, TitleLook, TitleModel, TitleRecheck, TitleWrite
<1>1. server' = server /\ agent' = agent
  BY <1>0
<1>2. ConfigShape'
  BY <1>1 DEF ShapeInv, ConfigShape
<1> QED BY <1>1, <1>2, StepTurnShape, StepRowShape, StepTaskShape, StepHistoryShape DEF ShapeInv

------------------------------------------------------------------------------
(* Titles.                                                                  *)

\* Every step keeps renamed conversations out of the titlers' reach.
LEMMA StepTitle ==
  ASSUME ShapeInv, TitleInv, [Next]_vars
  PROVE  TitleInv'
<1>0. RowShape /\ TaskShape /\ DOMAIN row = Session
  BY DEF ShapeInv, RowShape
<1>a. ASSUME history'.kept = history.kept, \A u \in Session : row'[u].name = row[u].name,
             \A k \in titler' : k \in titler \/ k.at = "look"
      PROVE  TitleInv'
  BY <1>a DEF TitleInv
<1>b. ASSUME NEW s \in Session, OnlyMeta(s) PROVE \A u \in Session : row'[u].name = row[u].name
  BY <1>b DEF OnlyMeta
<1>1. ASSUME NEW s \in Session, Renamed(s) PROVE TitleInv'
  <2>1. titler' = titler
    BY <1>1 DEF Renamed, Rename
  <2>2. PICK prefixed \in BOOLEAN :
          /\ OnlyName(s, Name("hand", prefixed))
          /\ \/ history'.kept = history.kept \ {s}
             \/ /\ history'.kept = history.kept \cup {s} /\ prefixed = FALSE
                /\ \A k \in titler : k.session = s => k.at # "write"
    BY <1>1, RenameEffect
  <2>3. ASSUME NEW u \in history'.kept PROVE u \in Session /\ row'[u].name = Name("hand", FALSE)
    <3>1. CASE u = s
      BY <3>1, <2>2 DEF OnlyName
    <3>2. CASE u # s
      BY <3>2, <2>2 DEF OnlyName, TitleInv
    <3> QED BY <3>1, <3>2
  <2> QED BY <2>1, <2>2, <2>3 DEF TitleInv
<1>2. ASSUME NEW k \in titler, TitleWrite(k) PROVE TitleInv'
  <2>1. PICK s \in Session : s = k.session
    BY <1>0 DEF TaskShape
  <2>2. PICK at : at = None
    OBVIOUS
  <2>3. /\ k.at = "write" /\ history' = history /\ Move(k, at)
        /\ row' = row \/ \E x : row' = [row EXCEPT ![s].name = x]
    BY <1>2, <2>1, <2>2 DEF TitleWrite
  <2>4. row' = row \/ \E x : OnlyName(s, x)
    BY <1>0, <2>3, NameWritten
  <2>5. s \notin history.kept
    BY <2>1, <2>3 DEF TitleInv
  <2>6. \A x \in titler' : x \in titler
    BY <1>0, <2>2, <2>3, MoveEffect
  <2>7. ASSUME NEW u \in history.kept PROVE u \in Session /\ row'[u].name = Name("hand", FALSE)
    <3>1. u \in Session /\ row[u].name = Name("hand", FALSE) /\ u # s
      BY <2>5 DEF TitleInv
    <3>2. row'[u] = row[u]
      BY <2>4, <3>1 DEF OnlyName
    <3> QED BY <3>1, <3>2
  <2> QED BY <2>3, <2>6, <2>7 DEF TitleInv
<1>3. ASSUME NEW k \in titler, NEW at, Move(k, at), row' = row, history' = history,
             at = None \/ at # "write" \/ StillDefault(k.session)
      PROVE  TitleInv'
  <2>1. \A x \in titler' : x \in titler \/ (x.session = k.session /\ x.at = at /\ at # None)
    BY <1>0, <1>3, MoveEffect
  <2>2. Name("hand", FALSE).prefixed = FALSE
    BY DEF Name
  <2>3. ASSUME NEW u \in history.kept PROVE ~StillDefault(u)
    BY <2>2 DEF TitleInv, StillDefault
  <2> QED BY <1>3, <2>1, <2>3 DEF TitleInv
<1>4. ASSUME NEW k \in titler, TitleLook(k) PROVE TitleInv'
  <2>1. PICK at : Move(k, at) /\ (at = None \/ at = "model") /\ row' = row /\ history' = history
    BY <1>4 DEF TitleLook
  <2> QED BY <1>3, <2>1
<1>5. ASSUME NEW k \in titler, TitleModel(k) PROVE TitleInv'
  <2>1. PICK at \in {None, "recheck"} : Move(k, at)
    BY <1>5 DEF TitleModel
  <2>2. row' = row /\ history' = history
    BY <1>5 DEF TitleModel
  <2> QED BY <1>3, <2>1, <2>2
<1>6. ASSUME NEW k \in titler, TitleRecheck(k) PROVE TitleInv'
  <2>1. PICK at : /\ Move(k, at) /\ row' = row
                  /\ \/ history'.kept = history.kept /\ (at = None \/ StillDefault(k.session))
                     \/ history'.kept = history.kept \ {k.session}
    BY <1>6, RecheckEffect
  <2>2. \A x \in titler' : x \in titler \/ (x.session = k.session /\ x.at = at /\ at # None)
    BY <1>0, <2>1, MoveEffect
  <2>3. Name("hand", FALSE).prefixed = FALSE
    BY DEF Name
  <2>4. ASSUME NEW u \in history.kept PROVE ~StillDefault(u)
    BY <2>3 DEF TitleInv, StillDefault
  <2>5. ASSUME NEW u \in history'.kept, NEW x \in titler', x.session = u PROVE x.at # "write"
    <3>1. CASE x \in titler
      BY <2>1, <2>5, <3>1 DEF TitleInv
    <3>2. CASE x.session = k.session /\ x.at = at /\ at # None
      BY <2>1, <2>4, <2>5, <3>2
    <3> QED BY <2>2, <2>5, <3>1, <3>2
  <2>6. \A u \in history'.kept : u \in Session /\ row'[u].name = Name("hand", FALSE)
    BY <2>1 DEF TitleInv
  <2> QED BY <2>5, <2>6 DEF TitleInv
<1>7. ASSUME NEW s \in Session, WritePointer(s) PROVE TitleInv'
  <2>1. titler' = titler
    BY <1>7 DEF WritePointer
  <2>2. OnlyHistory({"held", "lost"}) /\ (OnlyMeta(s) \/ row' = row)
    BY <1>7, WriteEffect
  <2> QED BY <1>a, <1>b, <2>1, <2>2 DEF OnlyHistory, HistoryFields
<1>8. ASSUME NEW r \in resume, ResumeWrite(r) PROVE TitleInv'
  <2>1. titler' = titler
    BY <1>8 DEF ResumeWrite
  <2>2. PICK s : s = r.session
    OBVIOUS
  <2>3. s \in Session /\ OnlyHistory({"held", "lost"}) /\ OnlyMeta(s)
    BY <1>8, <2>2, ResumeEffect
  <2> QED BY <1>a, <1>b, <2>1, <2>3 DEF OnlyHistory, HistoryFields
<1>9. ASSUME NEW s \in Session, Respond(s) PROVE TitleInv'
  <2>1. row' = row
    BY <1>9 DEF Respond
  <2>2. OnlyHistory({"codes"}) /\ \A k \in titler' : k \in titler \/ k.at = "look"
    BY <1>9, RespondEffect
  <2> QED BY <1>a, <2>1, <2>2 DEF OnlyHistory, HistoryFields
<1>10. ASSUME NEW s \in Session, TakeVerdict(s) PROVE TitleInv'
  <2>1. row' = row /\ titler' = titler
    BY <1>10 DEF TakeVerdict
  <2>2. OnlyHistory({"ran", "approvals"})
    BY <1>10, VerdictEffect
  <2> QED BY <1>a, <2>1, <2>2 DEF OnlyHistory, HistoryFields
<1>11. ASSUME NEW s \in Session, NEW tool \in turn[s].tools, CallTool(s, tool) PROVE TitleInv'
  <2>1. row' = row /\ titler' = titler
    BY <1>11 DEF CallTool
  <2>2. OnlyHistory({"ran"})
    BY <1>11, CallEffect
  <2> QED BY <1>a, <2>1, <2>2 DEF OnlyHistory, HistoryFields
<1>12. ASSUME NEW s \in Session, NEW v \in {"approved", "denied"}, ConfirmHost(s, v) PROVE TitleInv'
  <2>1. row' = row /\ titler' = titler
    BY <1>12 DEF ConfirmHost
  <2>2. OnlyHistory({"approvals"})
    BY <1>12, ConfirmEffect
  <2> QED BY <1>a, <2>1, <2>2 DEF OnlyHistory, HistoryFields
<1>13. ASSUME NEW s \in Session, NEW ok \in BOOLEAN, VerifyOtp(s, ok) PROVE TitleInv'
  <2>1. row' = row /\ titler' = titler
    BY <1>13 DEF VerifyOtp
  <2>2. OnlyHistory({"accepted"})
    BY <1>13, VerifyEffect
  <2> QED BY <1>a, <2>1, <2>2 DEF OnlyHistory, HistoryFields
<1>14. ASSUME Silent PROVE TitleInv'
  <2>1. CASE \E k \in titler : TitleLook(k) \/ TitleModel(k) \/ TitleWrite(k)
    BY <2>1, <1>2, <1>4, <1>5
  <2>2. CASE ~\E k \in titler : TitleLook(k) \/ TitleModel(k) \/ TitleWrite(k)
    <3>1. row' = row /\ titler' = titler /\ history' = history
      BY <1>14, <2>2 DEF Silent, SendMessage, Prepare, FailRun, ReadPointer, AskHost, AskTimesOut,
                         FinishRun, ResumeRead, Drain, vars, SaveSettings
    <3> QED BY <1>a, <3>1
  <2> QED BY <2>1, <2>2
<1> HIDE DEF TitleInv
<1> QED BY <1>1, <1>6, <1>7, <1>8, <1>9, <1>10, <1>11, <1>12, <1>13, <1>14, HistoryCases

------------------------------------------------------------------------------
(* Approvals.                                                               *)

\* The approvals in a channel are countable.
LEMMA ApprovedFinite ==
  ASSUME NEW q \in Seq({"approved", "denied"})
  PROVE  IsFiniteSet(Approved(q)) /\ Cardinality(Approved(q)) \in Nat
<1>1. Len(q) \in Nat /\ DOMAIN q = 1 .. Len(q)
  OBVIOUS
<1>2. IsFiniteSet(1 .. Len(q))
  BY <1>1, FS_Interval
<1>3. Approved(q) \in SUBSET (1 .. Len(q))
  BY <1>1 DEF Approved
<1> QED BY <1>2, <1>3, FS_Subset, FS_CardinalityType

\* A verdict joins the channel.
LEMMA ApprovedAppend ==
  ASSUME NEW q \in Seq({"approved", "denied"}), NEW v \in {"approved", "denied"}
  PROVE  /\ Append(q, v) \in Seq({"approved", "denied"})
         /\ Cardinality(Approved(Append(q, v)))
              = IF v = "approved" THEN Cardinality(Approved(q)) + 1 ELSE Cardinality(Approved(q))
<1>1. Append(q, v) \in Seq({"approved", "denied"})
  OBVIOUS
<1>2. Approved(Append(q, v)) = IF v = "approved" THEN Approved(q) \cup {Len(q) + 1} ELSE Approved(q)
  BY DEF Approved
<1>3. Len(q) + 1 \notin Approved(q)
  BY DEF Approved
<1>4. Cardinality(Approved(q) \cup {Len(q) + 1}) = Cardinality(Approved(q)) + 1
  BY <1>3, ApprovedFinite, FS_AddElement
<1> QED BY <1>1, <1>2, <1>4

\* The first verdict is taken from the channel.
LEMMA ApprovedTail ==
  ASSUME NEW q \in Seq({"approved", "denied"}), q # <<>>
  PROVE  /\ Tail(q) \in Seq({"approved", "denied"})
         /\ Cardinality(Approved(Tail(q))) <= Cardinality(Approved(q))
         /\ Head(q) = "approved" => Cardinality(Approved(Tail(q))) <= Cardinality(Approved(q)) - 1
<1> DEFINE rest == Approved(q) \ {1}
           shift == [i \in Approved(Tail(q)) |-> i + 1]
<1>1. Tail(q) \in Seq({"approved", "denied"})
  OBVIOUS
<1>2. \A i \in Approved(Tail(q)) : i \in Nat /\ i + 1 \in rest
  BY DEF Approved
<1>3. shift \in [Approved(Tail(q)) -> rest]
  BY <1>2
<1>4. \A i, j \in Approved(Tail(q)) : shift[i] = shift[j] => i = j
  BY <1>2
<1>5. shift \in Injection(Approved(Tail(q)), rest)
  BY <1>3, <1>4, Fun_IsInj
<1>6. /\ IsFiniteSet(rest)
      /\ Cardinality(rest) = IF 1 \in Approved(q) THEN Cardinality(Approved(q)) - 1
                             ELSE Cardinality(Approved(q))
  BY ApprovedFinite, FS_RemoveElement
<1>7. Cardinality(Approved(Tail(q))) <= Cardinality(rest)
  BY <1>5, <1>6, FS_Injection
<1>8. Head(q) = "approved" => 1 \in Approved(q)
  BY DEF Approved
<1>9. Cardinality(Approved(q)) \in Nat /\ Cardinality(Approved(Tail(q))) \in Nat
  BY <1>1, ApprovedFinite
<1> QED BY <1>1, <1>6, <1>7, <1>8, <1>9

\* Only the drain, humans and the host's hook touch the verdicts.
LEMMA VerdictsKept ==
  ASSUME ShapeInv, [Next]_vars, ~Drain, ~\E s \in Session : TakeVerdict(s),
         ~\E s \in Session, v \in {"approved", "denied"} : ConfirmHost(s, v)
  PROVE  approver'.verdicts = approver.verdicts
<1>0. DOMAIN approver = {"current", "requests", "verdicts"}
  BY DEF ShapeInv, TaskShape
<1>1. ASSUME \E s \in Session : \/ Prepare(s) \/ FailRun(s) \/ \E tool : AskHost(s, tool)
                                \/ \E replied, verdict : FinishRun(s, replied, verdict)
      PROVE  approver'.verdicts = approver.verdicts
  <2>1. \E c, q : \/ approver' = [approver EXCEPT !.current = c]
                  \/ approver' = [approver EXCEPT !.requests = q]
                  \/ approver' = approver
    BY <1>1 DEF Prepare, FailRun, AskHost, FinishRun, Teardown
  <2> QED BY <1>0, <2>1
<1>2. \/ \E s \in Session : \/ Prepare(s) \/ FailRun(s) \/ \E tool : AskHost(s, tool)
                            \/ \E replied, verdict : FinishRun(s, replied, verdict)
      \/ approver' = approver
  BY DEF Next, SendMessage, ReadPointer, WritePointer, CallTool, Respond, AskTimesOut, VerifyOtp,
         vars, Rename, ResumeRead, ResumeWrite, SaveSettings, TitleLook, TitleModel, TitleRecheck,
         TitleWrite
<1> QED BY <1>1, <1>2

\* Every step keeps the approvals in the channel covered by those of humans.
LEMMA StepAsk ==
  ASSUME ShapeInv, AskInv, [Next]_vars
  PROVE  AskInv'
<1> DEFINE q == approver.verdicts
           n == Cardinality(Approved(q))
           a == history.approvals
<1>0. /\ q \in Seq({"approved", "denied"}) /\ a >= n /\ n \in Nat /\ a \in Int
      /\ DOMAIN approver = {"current", "requests", "verdicts"}
  BY ApprovedFinite DEF AskInv, ShapeInv, HistoryShape, TaskShape
<1>1. ASSUME NEW s \in Session, NEW v \in {"approved", "denied"}, ConfirmHost(s, v) PROVE AskInv'
  <2>1. /\ history'.approvals = IF v = "approved" THEN a + 1 ELSE a
        /\ approver'.verdicts = Append(q, v)
    BY <1>1, ConfirmEffect
  <2>2. /\ Append(q, v) \in Seq({"approved", "denied"})
        /\ Cardinality(Approved(Append(q, v))) = IF v = "approved" THEN n + 1 ELSE n
    BY <1>0, ApprovedAppend
  <2>3. /\ approver'.verdicts \in Seq({"approved", "denied"})
        /\ Cardinality(Approved(approver'.verdicts)) = IF v = "approved" THEN n + 1 ELSE n
    BY <2>1, <2>2
  <2>4. history'.approvals >= Cardinality(Approved(approver'.verdicts))
    BY <1>0, <2>1, <2>3
  <2> QED BY <2>3, <2>4 DEF AskInv, Approved
<1>2. ASSUME NEW s \in Session, TakeVerdict(s) PROVE AskInv'
  <2>1. /\ q # <<>> /\ approver'.verdicts = Tail(q)
        /\ \/ history'.approvals = a
           \/ Head(q) = "approved" /\ history'.approvals = a - 1
    BY <1>2, VerdictEffect
  <2>2. /\ Tail(q) \in Seq({"approved", "denied"})
        /\ Cardinality(Approved(Tail(q))) <= n
        /\ Head(q) = "approved" => Cardinality(Approved(Tail(q))) <= n - 1
    BY <1>0, <2>1, ApprovedTail
  <2>3. Cardinality(Approved(Tail(q))) \in Nat
    BY <2>2, ApprovedFinite
  <2>4. history'.approvals >= Cardinality(Approved(Tail(q)))
    BY <1>0, <2>1, <2>2, <2>3
  <2> QED BY <2>1, <2>2, <2>4 DEF AskInv, Approved
<1>3. ASSUME Drain PROVE AskInv'
  <2>1. history' = history
    BY <1>3 DEF Drain
  <2>2. PICK w : w = Append(q, "denied")
    OBVIOUS
  <2>3. \E r : \/ approver' = [approver EXCEPT !.requests = r, !.verdicts = w]
               \/ approver' = [approver EXCEPT !.requests = r]
    BY <1>3, <2>2 DEF Drain, Unattended
  <2>4. approver'.verdicts = w \/ approver'.verdicts = q
    BY <1>0, <2>3
  <2>5. PICK v \in {"approved", "denied"} : v = "denied"
    OBVIOUS
  <2>6. w \in Seq({"approved", "denied"}) /\ Cardinality(Approved(w)) = n
    BY <1>0, <2>2, <2>5, ApprovedAppend
  <2>7. /\ approver'.verdicts \in Seq({"approved", "denied"})
        /\ Cardinality(Approved(approver'.verdicts)) = n
    BY <1>0, <2>4, <2>6
  <2> QED BY <1>0, <2>1, <2>7 DEF AskInv, Approved
<1>4. ASSUME approver'.verdicts = q, history'.approvals = a PROVE AskInv'
  BY <1>0, <1>4 DEF AskInv, Approved
<1>5. ASSUME ~Drain, ~\E s \in Session : TakeVerdict(s),
             ~\E s \in Session, v \in {"approved", "denied"} : ConfirmHost(s, v)
      PROVE  AskInv'
  <2>1. approver'.verdicts = q
    BY <1>5, VerdictsKept
  <2> DEFINE Goal == history'.approvals = history.approvals
  <2>2. ASSUME Silent PROVE Goal
    BY <2>2, SilentEffect
  <2>3. ASSUME NEW s \in Session, WritePointer(s) \/ Respond(s) \/ Renamed(s) PROVE Goal
    <3>1. OnlyHistory({"held", "lost"}) \/ OnlyHistory({"codes"}) \/ OnlyHistory({"kept"})
      BY <2>3, WriteEffect, RespondEffect, RenameEffect
    <3> QED BY <3>1 DEF OnlyHistory, HistoryFields
  <2>4. ASSUME NEW s \in Session, NEW tool, CallTool(s, tool) PROVE Goal
    <3>1. OnlyHistory({"ran"})
      BY <2>4, CallEffect
    <3> QED BY <3>1 DEF OnlyHistory, HistoryFields
  <2>5. ASSUME NEW s \in Session, NEW ok \in BOOLEAN, VerifyOtp(s, ok) PROVE Goal
    <3>1. OnlyHistory({"accepted"})
      BY <2>5, VerifyEffect
    <3> QED BY <3>1 DEF OnlyHistory, HistoryFields
  <2>6. ASSUME NEW r \in resume, ResumeWrite(r) PROVE Goal
    <3>1. PICK s : s = r.session
      OBVIOUS
    <3>2. OnlyHistory({"held", "lost"})
      BY <2>6, <3>1, ResumeEffect
    <3> QED BY <3>2 DEF OnlyHistory, HistoryFields
  <2>7. ASSUME NEW k \in titler, TitleRecheck(k) PROVE Goal
    <3>1. OnlyHistory({"kept"})
      BY <2>7, RecheckEffect
    <3> QED BY <3>1 DEF OnlyHistory, HistoryFields
  <2> HIDE DEF Goal
  <2>8. Goal
    BY <1>5, <2>2, <2>3, <2>4, <2>5, <2>6, <2>7, HistoryCases
  <2> QED BY <1>4, <2>1, <2>8 DEF Goal
<1> QED BY <1>1, <1>2, <1>3, <1>5

------------------------------------------------------------------------------
(* Allow-lists.                                                             *)

\* What the assumption on rows says of the agent.
LEMMA AgentFacts ==
  ASSUME ConfigShape, agent # None
  PROVE  /\ agent.tools \in Seq(Range(agent.tools))
         /\ agent.tools # <<>> => enabled_tool_ids(agent) # None
         /\ enabled_extension_ids(agent) # None
         /\ \A b \in BOOLEAN : (\E t \in server.auth_tools : Level(agent, t) # "none")
              => build_auth_gate(agent, server.auth_tools, b) # None
         /\ agent.workflow # None => /\ agent.workflow \in Seq(Range(agent.workflow))
                                     /\ agent.workflow # <<>>
<1>1. PICK r \in Row : agent = IF r = None THEN None ELSE from_row_values(r)
  BY DEF ConfigShape
<1>2. r \in Row \ {None} /\ agent = from_row_values(r) /\ server \in Deployment
  BY <1>1 DEF ConfigShape
<1>3. agent.workflow # None => agent.workflow # <<>>
  BY <1>2 DEF from_row_values
<1> QED BY <1>2, <1>3, RowAssumption

\* What newly ran was a call of a running turn that its gate let through.
LEMMA RanCases ==
  ASSUME ShapeInv, [Next]_vars
  PROVE  \/ history'.ran = history.ran
         \/ \E s \in Session :
              /\ turn[s].at \in {"running", "asking"}
              /\ \E tool : /\ Ran(s, tool)
                          /\ \/ tool \in turn[s].tools
                             \/ turn[s].at = "asking" /\ tool = turn[s].asked
<1> DEFINE Goal == \/ history'.ran = history.ran
                   \/ \E s \in Session :
                        /\ turn[s].at \in {"running", "asking"}
                        /\ \E tool : /\ Ran(s, tool)
                                    /\ \/ tool \in turn[s].tools
                                       \/ turn[s].at = "asking" /\ tool = turn[s].asked
<1>1. ASSUME Silent PROVE Goal
  BY <1>1, SilentEffect
<1>2. ASSUME NEW s \in Session, WritePointer(s) \/ Respond(s) \/ Renamed(s) PROVE Goal
  <2>1. OnlyHistory({"held", "lost"}) \/ OnlyHistory({"codes"}) \/ OnlyHistory({"kept"})
    BY <1>2, WriteEffect, RespondEffect, RenameEffect
  <2> QED BY <2>1 DEF OnlyHistory, HistoryFields
<1>3. ASSUME NEW s \in Session, NEW v \in {"approved", "denied"}, ConfirmHost(s, v) PROVE Goal
  <2>1. OnlyHistory({"approvals"})
    BY <1>3, ConfirmEffect
  <2> QED BY <2>1 DEF OnlyHistory, HistoryFields
<1>4. ASSUME NEW s \in Session, NEW ok \in BOOLEAN, VerifyOtp(s, ok) PROVE Goal
  <2>1. OnlyHistory({"accepted"})
    BY <1>4, VerifyEffect
  <2> QED BY <2>1 DEF OnlyHistory, HistoryFields
<1>5. ASSUME NEW r \in resume, ResumeWrite(r) PROVE Goal
  <2>1. PICK s : s = r.session
    OBVIOUS
  <2>2. OnlyHistory({"held", "lost"})
    BY <1>5, <2>1, ResumeEffect
  <2> QED BY <2>2 DEF OnlyHistory, HistoryFields
<1>6. ASSUME NEW s \in Session, TakeVerdict(s) PROVE Goal
  BY <1>6, VerdictEffect
<1>7. ASSUME NEW s \in Session, NEW tool, CallTool(s, tool) PROVE Goal
  BY <1>7, CallEffect
<1>8. ASSUME NEW k \in titler, TitleRecheck(k) PROVE Goal
  <2>1. OnlyHistory({"kept"})
    BY <1>8, RecheckEffect
  <2> QED BY <2>1 DEF OnlyHistory, HistoryFields
<1> HIDE DEF Goal
<1>9. Goal
  BY <1>1, <1>2, <1>3, <1>4, <1>5, <1>6, <1>7, <1>8, HistoryCases
<1> QED BY <1>9 DEF Goal

\* The steps that change a turn.
LEMMA TurnCases ==
  ASSUME [Next]_vars
  PROVE  \/ \E s \in Session : \/ FailRun(s) \/ WritePointer(s) \/ Respond(s) \/ ReadPointer(s)
                               \/ \E f \in Frame : SendMessage(s, f)
                               \/ Prepare(s) \/ AskTimesOut(s) \/ TakeVerdict(s)
                               \/ \E tool : AskHost(s, tool) \/ CallTool(s, tool)
                               \/ \E replied, verdict : FinishRun(s, replied, verdict)
         \/ turn' = turn
BY DEF Next, ConfirmHost, Renamed, Rename, ResumeRead, VerifyOtp, Drain, vars, TitleLook, TitleModel,
       TitleRecheck, TitleWrite, ResumeWrite, SaveSettings

\* What a turn offers is listed.
LEMMA ToolsListed ==
  ASSUME ConfigShape, NEW t, t.hosted = build_extension_host,
         agent # None /\ agent.tools # <<>> => t.allowed = enabled_tool_ids(agent),
         NEW tool \in ToolSet(t)
  PROVE  Listed(tool)
<1>1. ASSUME agent # None, agent.tools # <<>>
      PROVE  \E e \in Range(agent.tools) : e.tool_id = tool /\ e.enabled
  <2>1. t.allowed # None /\ t.allowed = enabled_tool_ids(agent)
    BY <1>1, AgentFacts
  <2>2. tool \in t.allowed
    BY <2>1 DEF ToolSet
  <2> QED BY <1>1, <2>1, <2>2 DEF enabled_tool_ids
<1>2. \/ tool \in server.builtin \cup server.host_tools
      \/ \E x \in t.hosted : tool \in x.eager \cup x.deferred
  BY DEF ToolSet
<1>3. ASSUME NEW x \in t.hosted
      PROVE  /\ x \in server.extensions /\ x.name \in server.allow
             /\ agent = None \/ x.name \in agent.extensions
  <2>1. CASE agent = None
    BY <1>3, <2>1 DEF build_extension_host, extension_allowed
  <2>2. CASE agent # None
    <3>1. enabled_extension_ids(agent) # None
      BY <2>2, AgentFacts
    <3> QED BY <1>3, <2>2, <3>1 DEF build_extension_host, extension_allowed, enabled_extension_ids
  <2> QED BY <2>1, <2>2
<1> QED BY <1>1, <1>2, <1>3 DEF Listed

\* Every step keeps what turns offer, and what ran, listed.
LEMMA StepList ==
  ASSUME ShapeInv, ListInv, [Next]_vars
  PROVE  ListInv'
<1> DEFINE Fine(s) ==
             /\ turn'[s].at = "prepare" =>
                  /\ turn'[s].hosted = build_extension_host
                  /\ agent # None /\ agent.tools # <<>> => turn'[s].allowed = enabled_tool_ids(agent)
             /\ turn'[s].at \in {"running", "asking"} => \A tool \in turn'[s].tools : Listed(tool)
             /\ turn'[s].at = "asking" => Listed(turn'[s].asked)
           Turns == \A s \in Session : Fine(s)
           Runs == \A c \in history'.ran : Listed(c.tool)
<1>0. server' = server /\ agent' = agent /\ ConfigShape
  BY StepShape DEF ShapeInv
<1>a. ASSUME turn' = turn PROVE Turns
  BY <1>a DEF ListInv
<1>b. ASSUME NEW s \in Session, OnlyTurn(s), Fine(s) PROVE Turns
  BY <1>b DEF ListInv, OnlyTurn
<1>c. ASSUME history'.ran = history.ran PROVE Runs
  BY <1>c DEF ListInv
<1>d. ASSUME NEW s \in Session, OnlyTurn(s), turn'[s].at \notin Gating PROVE Turns
  BY <1>b, <1>d DEF Gating
<1>e. ASSUME NEW s \in Session, NEW tool, Ran(s, tool), Listed(tool) PROVE Runs
  BY <1>e DEF ListInv, Ran
<1>f. ASSUME NEW s \in Session, Goes(s, "running"), turn[s].at \in {"running", "asking"} PROVE Turns
  <2>1. Fine(s)
    BY <1>f DEF Goes, ListInv
  <2> QED BY <1>b, <1>f, <2>1 DEF Goes
<1>1. ASSUME NEW s \in Session, NEW f \in Frame, SendMessage(s, f) PROVE Turns
  <2>1. /\ OnlyTurn(s) /\ turn'[s].at = "prepare" /\ turn'[s].allowed = AllowedTools
        /\ turn'[s].hosted = build_extension_host
    BY <1>1, SendEffect
  <2>2. agent # None /\ agent.tools # <<>> => AllowedTools = enabled_tool_ids(agent)
    BY <1>0, AgentFacts DEF AllowedTools, Or
  <2> QED BY <1>b, <2>1, <2>2
<1>2. ASSUME NEW s \in Session, Prepare(s) PROVE Turns
  <2>1. /\ OnlyTurn(s) /\ turn'[s].at = "running" /\ turn'[s].tools = ToolSet(turn[s])
        /\ turn[s].at = "prepare"
    BY <1>2, PrepareEffect
  <2>2. PICK t : t = turn[s]
    OBVIOUS
  <2>3. /\ t.hosted = build_extension_host
        /\ agent # None /\ agent.tools # <<>> => t.allowed = enabled_tool_ids(agent)
    BY <2>1, <2>2 DEF ListInv
  <2>4. \A tool \in ToolSet(t) : Listed(tool)
    BY <1>0, <2>3, ToolsListed
  <2> QED BY <1>b, <2>1, <2>2, <2>4
<1>3. ASSUME NEW s \in Session, NEW tool, AskHost(s, tool) PROVE Turns
  <2>1. /\ Goes(s, "asking") /\ turn'[s].asked = tool /\ tool \in turn[s].tools
        /\ turn[s].at = "running"
    BY <1>3, AskEffect
  <2>2. Fine(s)
    BY <2>1 DEF Goes, ListInv
  <2> QED BY <1>b, <2>1, <2>2 DEF Goes
<1>4. ASSUME NEW s \in Session, AskTimesOut(s) PROVE Turns
  BY <1>f, <1>4, AskEffect
<1>5. ASSUME NEW s \in Session, TakeVerdict(s) PROVE Turns
  BY <1>f, <1>5, VerdictEffect
<1>6. ASSUME NEW s \in Session, NEW tool, CallTool(s, tool) PROVE Turns
  BY <1>f, <1>6, CallEffect
<1>7. ASSUME NEW s \in Session, FailRun(s) \/ WritePointer(s) \/ Respond(s) \/ ReadPointer(s) PROVE Turns
  <2>1. OnlyTurn(s) /\ turn'[s].at \in {"none", "answer", "write"}
    BY <1>7, FailEffect, WriteEffect, RespondEffect, ReadEffect
  <2> QED BY <1>d, <2>1 DEF Gating
<1>8. ASSUME NEW s \in Session, NEW replied, NEW verdict, FinishRun(s, replied, verdict) PROVE Turns
  <2>1. OnlyTurn(s) /\ turn'[s].at \in {"persist", "answer"}
    BY <1>8, FinishEffect
  <2> QED BY <1>d, <2>1 DEF Gating
<1> HIDE DEF Turns, Runs
<1>9. Turns
  BY <1>a, <1>1, <1>2, <1>3, <1>4, <1>5, <1>6, <1>7, <1>8, TurnCases
<1>10. Runs
  <2>1. ASSUME NEW s \in Session, NEW tool, Ran(s, tool), turn[s].at \in {"running", "asking"},
               tool \in turn[s].tools \/ (turn[s].at = "asking" /\ tool = turn[s].asked)
        PROVE  Listed(tool)
    BY <2>1 DEF ListInv
  <2> QED BY <1>c, <1>e, <2>1, RanCases
<1> QED BY <1>0, <1>9, <1>10 DEF Turns, Runs, ListInv, Listed, build_extension_host, extension_allowed,
                              enabled_tool_ids, enabled_extension_ids

------------------------------------------------------------------------------
(* The auth gate.                                                           *)

\* A set of positions has a first one.
LEMMA MinIn ==
  ASSUME NEW n \in Nat, NEW I, I \subseteq 1 .. n, I # {}
  PROVE  Min(I) \in I /\ \A y \in I : Min(I) <= y
<1>1. I \subseteq Nat
  OBVIOUS
<1>2. PICK x \in I : \A y \in I : ~(<<y, x>> \in OpToRel(<, Nat))
  BY <1>1, WFMin, NatLessThanWellFounded
<1>3. ASSUME NEW y \in I PROVE x <= y
  <2>1. x \in Nat /\ y \in Nat /\ <<y, x>> \in Nat \X Nat
    BY <1>1
  <2>2. ~(<<y, x>>[1] < <<y, x>>[2])
    BY <1>2, <2>1 DEF OpToRel
  <2> QED BY <2>1, <2>2
<1> QED BY <1>3 DEF Min

\* ... and a last one.
LEMMA MaxIn ==
  ASSUME NEW n \in Nat, NEW I, I \subseteq 1 .. n, I # {}
  PROVE  Max(I) \in I
<1> DEFINE J == {j \in 1 .. n : n + 1 - j \in I}
<1>1. J \subseteq 1 .. n /\ J # {}
  <2>1. PICK i \in I : TRUE
    OBVIOUS
  <2>2. n + 1 - i \in J
    <3>1. i \in 1 .. n /\ n + 1 - i \in 1 .. n /\ n + 1 - (n + 1 - i) = i
      BY <2>1
    <3> QED BY <3>1
  <2> QED BY <2>2
<1>2. PICK x \in J : \A y \in J : x <= y
  BY <1>1, MinIn
<1>3. n + 1 - x \in I
  BY <1>2
<1>4. ASSUME NEW i \in I PROVE n + 1 - x >= i
  <2>1. i \in 1 .. n /\ n + 1 - i \in 1 .. n /\ n + 1 - (n + 1 - i) = i
    OBVIOUS
  <2>2. n + 1 - i \in J
    BY <2>1
  <2>3. x <= n + 1 - i /\ x \in 1 .. n
    BY <1>2, <2>2
  <2> QED BY <2>1, <2>3
<1> QED BY <1>3, <1>4 DEF Max

\* The gate knows each supporting tool at its level.
LEMMA GateLevels ==
  ASSUME NEW cfg, cfg.tools \in Seq(Range(cfg.tools)), NEW tools, NEW b,
         build_auth_gate(cfg, tools, b) # None
  PROVE  build_auth_gate(cfg, tools, b)
           = [levels |-> [t \in tools |-> Level(cfg, t)], visibility |-> cfg.visibility,
              authenticated |-> b]
<1> DEFINE index(t) == SelectLastInSeq(cfg.tools, LAMBDA e : e.tool_id = t)
           level(t) == IF index(t) = 0 THEN "none" ELSE cfg.tools[index(t)].auth_level
           mine(t) == {i \in 1 .. Len(cfg.tools) : cfg.tools[i].tool_id = t}
<1>1. ASSUME NEW t PROVE level(t) = Level(cfg, t)
  <2>1. index(t) = IF mine(t) # {} THEN Max(mine(t)) ELSE 0
    BY DEF SelectLastInSeq
  <2>2. CASE mine(t) = {}
    <3>1. level(t) = "none" /\ Level(cfg, t) = "none"
      BY <2>1, <2>2 DEF Level
    <3> QED BY <3>1
  <2>3. CASE mine(t) # {}
    <3>1. Len(cfg.tools) \in Nat /\ mine(t) \subseteq 1 .. Len(cfg.tools)
      OBVIOUS
    <3>2. Max(mine(t)) \in mine(t)
      BY <2>3, <3>1, MaxIn
    <3>3. Max(mine(t)) # 0
      BY <3>1, <3>2
    <3>4. level(t) = cfg.tools[Max(mine(t))].auth_level
      BY <2>1, <2>3, <3>3
    <3>5. Level(cfg, t) = cfg.tools[Max(mine(t))].auth_level
      BY <2>3 DEF Level
    <3> QED BY <3>4, <3>5
  <2> QED BY <2>2, <2>3
<1>2. build_auth_gate(cfg, tools, b)
        = [levels |-> [t \in tools |-> level(t)], visibility |-> cfg.visibility, authenticated |-> b]
  BY DEF build_auth_gate
<1>3. [t \in tools |-> level(t)] = [t \in tools |-> Level(cfg, t)]
  <2> HIDE DEF level
  <2> QED BY <1>1
<1> HIDE DEF level
<1> QED BY <1>2, <1>3

\* What a public agent's gate lets through: no admin tool, and a tool for
\* verified visitors only if it was built for one.
LEMMA GateMeaning ==
  ASSUME ConfigShape, agent # None, agent.visibility = "public",
         NEW b \in BOOLEAN, NEW tool \in server.auth_tools,
         ~GateRefuses(build_auth_gate(agent, server.auth_tools, b), tool)
  PROVE  Level(agent, tool) # "admin" /\ (Level(agent, tool) = "end_user" => b)
<1>1. CASE Level(agent, tool) = "none"
  BY <1>1
<1>2. CASE Level(agent, tool) # "none"
  <2>1. build_auth_gate(agent, server.auth_tools, b) # None
    BY <1>2, AgentFacts
  <2>2. PICK gate : gate = build_auth_gate(agent, server.auth_tools, b)
    OBVIOUS
  <2>3. gate = [levels |-> [t \in server.auth_tools |-> Level(agent, t)],
                visibility |-> agent.visibility, authenticated |-> b]
    BY <2>1, <2>2, AgentFacts, GateLevels
  <2>4. /\ DOMAIN gate.levels = server.auth_tools /\ gate.levels[tool] = Level(agent, tool)
        /\ gate.visibility = "public" /\ gate.authenticated = b
    BY <2>3
  <2> QED BY <2>1, <2>2, <2>4 DEF GateRefuses, tool_auth_refusal
<1> QED BY <1>1, <1>2

\* A turn that is gated after a step was gated the same way before, or begins.
LEMMA GatedBefore ==
  ASSUME ShapeInv, [Next]_vars, NEW s \in Session, turn'[s].at \in Gating
  PROVE  \/ turn[s].at \in Gating /\ turn'[s].gate = turn[s].gate /\ turn'[s].n = turn[s].n
         \/ /\ turn'[s].n = budget.turns
            /\ agent # None => turn'[s].gate = build_auth_gate(agent, server.auth_tools, verified[s])
<1> DEFINE Goal == \/ turn[s].at \in Gating /\ turn'[s].gate = turn[s].gate /\ turn'[s].n = turn[s].n
                   \/ /\ turn'[s].n = budget.turns
                      /\ agent # None => turn'[s].gate = build_auth_gate(agent, server.auth_tools, verified[s])
<1>a. ASSUME NEW u \in Session, u # s, OnlyTurn(u) PROVE Goal
  BY <1>a DEF OnlyTurn
<1>b. ASSUME NEW u \in Session, NEW at, Goes(u, at), turn[u].at \in Gating PROVE Goal
  BY <1>a, <1>b DEF Goes
<1>c. ASSUME NEW u \in Session, OnlyTurn(u), turn'[u].at \notin Gating PROVE Goal
  BY <1>a, <1>c
<1>1. ASSUME NEW u \in Session, NEW f \in Frame, SendMessage(u, f) PROVE Goal
  <2>1. /\ OnlyTurn(u) /\ turn'[u].n = budget.turns
        /\ agent # None => turn'[u].gate = build_auth_gate(agent, server.auth_tools, verified[u])
    BY <1>1, SendEffect
  <2> QED BY <1>a, <2>1
<1>2. ASSUME NEW u \in Session, Prepare(u) PROVE Goal
  <2>1. /\ OnlyTurn(u) /\ turn'[u].n = turn[u].n /\ turn'[u].gate = turn[u].gate
        /\ turn[u].at = "prepare"
    BY <1>2, PrepareEffect
  <2> QED BY <1>a, <2>1 DEF Gating
<1>3. ASSUME NEW u \in Session, NEW tool, AskHost(u, tool) \/ CallTool(u, tool) PROVE Goal
  BY <1>b, <1>3, AskEffect, CallEffect DEF Gating
<1>4. ASSUME NEW u \in Session, AskTimesOut(u) \/ TakeVerdict(u) PROVE Goal
  BY <1>b, <1>4, AskEffect, VerdictEffect DEF Gating
<1>5. ASSUME NEW u \in Session, FailRun(u) \/ WritePointer(u) \/ Respond(u) \/ ReadPointer(u) PROVE Goal
  <2>1. OnlyTurn(u) /\ turn'[u].at \in {"none", "answer", "write"}
    BY <1>5, FailEffect, WriteEffect, RespondEffect, ReadEffect
  <2> QED BY <1>c, <2>1 DEF Gating
<1>6. ASSUME NEW u \in Session, NEW replied, NEW verdict, FinishRun(u, replied, verdict) PROVE Goal
  <2>1. OnlyTurn(u) /\ turn'[u].at \in {"persist", "answer"}
    BY <1>6, FinishEffect
  <2> QED BY <1>c, <2>1 DEF Gating
<1>7. ASSUME turn' = turn PROVE Goal
  BY <1>7
<1> HIDE DEF Goal
<1>8. Goal
  BY <1>1, <1>2, <1>3, <1>4, <1>5, <1>6, <1>7, TurnCases
<1> QED BY <1>8 DEF Goal

\* Only verify_otp verifies.
LEMMA AcceptedCases ==
  ASSUME ShapeInv, [Next]_vars, ~\E s \in Session, ok \in BOOLEAN : VerifyOtp(s, ok)
  PROVE  verified' = verified /\ history'.accepted = history.accepted
<1> DEFINE Goal == verified' = verified /\ history'.accepted = history.accepted
<1>1. ASSUME Silent PROVE Goal
  BY <1>1, SilentEffect
<1>2. ASSUME NEW s \in Session, WritePointer(s) \/ Respond(s) \/ Renamed(s) PROVE Goal
  <2>1. OnlyHistory({"held", "lost"}) \/ OnlyHistory({"codes"}) \/ OnlyHistory({"kept"})
    BY <1>2, WriteEffect, RespondEffect, RenameEffect
  <2>2. verified' = verified
    BY <1>2 DEF WritePointer, Respond, Renamed, Rename
  <2> QED BY <2>1, <2>2 DEF OnlyHistory, HistoryFields
<1>3. ASSUME NEW s \in Session, NEW v \in {"approved", "denied"}, ConfirmHost(s, v) PROVE Goal
  <2>1. OnlyHistory({"approvals"}) /\ verified' = verified
    BY <1>3, ConfirmEffect DEF ConfirmHost
  <2> QED BY <2>1 DEF OnlyHistory, HistoryFields
<1>4. ASSUME NEW s \in Session, TakeVerdict(s) PROVE Goal
  <2>1. OnlyHistory({"ran", "approvals"}) /\ verified' = verified
    BY <1>4, VerdictEffect DEF TakeVerdict
  <2> QED BY <2>1 DEF OnlyHistory, HistoryFields
<1>5. ASSUME NEW r \in resume, ResumeWrite(r) PROVE Goal
  <2>1. PICK s : s = r.session
    OBVIOUS
  <2>2. OnlyHistory({"held", "lost"}) /\ verified' = verified
    BY <1>5, <2>1, ResumeEffect DEF ResumeWrite
  <2> QED BY <2>2 DEF OnlyHistory, HistoryFields
<1>6. ASSUME NEW s \in Session, NEW tool, CallTool(s, tool) PROVE Goal
  <2>1. OnlyHistory({"ran"}) /\ verified' = verified
    BY <1>6, CallEffect DEF CallTool
  <2> QED BY <2>1 DEF OnlyHistory, HistoryFields
<1>7. ASSUME NEW k \in titler, TitleRecheck(k) PROVE Goal
  <2>1. OnlyHistory({"kept"}) /\ verified' = verified
    BY <1>7, RecheckEffect
  <2> QED BY <2>1 DEF OnlyHistory, HistoryFields
<1> HIDE DEF Goal
<1>8. Goal
  BY <1>1, <1>2, <1>3, <1>4, <1>5, <1>6, <1>7, HistoryCases
<1> QED BY <1>8 DEF Goal

\* Every step keeps the gates sound.
LEMMA StepGate ==
  ASSUME ShapeInv, GateInv, [Next]_vars
  PROVE  GateInv'
<1>0. /\ server' = server /\ agent' = agent /\ ConfigShape /\ budget.turns \in Nat /\ budget'.turns \in Nat
      /\ budget'.turns <= budget.turns /\ history.accepted \in [Session -> Nat]
      /\ history'.accepted \in [Session -> Nat] /\ verified \in [Session -> BOOLEAN]
      /\ \A c \in history.ran : c.session \in Session /\ c.n \in Nat
      /\ \A s \in Session : turn[s].at \in Pointing => turn[s].n \in Nat
  BY StepShape, StepBudget DEF ShapeInv, HistoryShape, TurnShape
<1>1. ASSUME NEW s \in Session
      PROVE  /\ verified'[s] \/ history'.accepted[s] # 0 => history'.accepted[s] >= budget'.turns
             /\ history'.accepted[s] >= history.accepted[s]
  <2>1. verified[s] \/ history.accepted[s] # 0 => history.accepted[s] >= budget.turns
    BY DEF GateInv
  <2>2. CASE \E u \in Session, ok \in BOOLEAN : VerifyOtp(u, ok)
    <3>1. PICK u \in Session, ok \in BOOLEAN : VerifyOtp(u, ok)
      BY <2>2
    <3>2. /\ s # u \/ ~ok => verified'[s] = verified[s] /\ history'.accepted[s] = history.accepted[s]
          /\ ok => history'.accepted[u] = IF history.accepted[u] = 0 THEN budget.turns
                                         ELSE history.accepted[u]
      BY <3>1, VerifyEffect
    <3>3. CASE s # u \/ ~ok
      BY <1>0, <2>1, <3>2, <3>3
    <3>4. CASE s = u /\ ok
      BY <1>0, <2>1, <3>2, <3>4
    <3> QED BY <3>3, <3>4
  <2>3. CASE ~\E u \in Session, ok \in BOOLEAN : VerifyOtp(u, ok)
    BY <1>0, <2>1, <2>3, AcceptedCases
  <2> QED BY <2>2, <2>3
<1>2. ASSUME NEW s \in Session, turn'[s].at \in Gating, agent # None
      PROVE  \E b \in BOOLEAN : /\ turn'[s].gate = build_auth_gate(agent, server.auth_tools, b)
                                /\ b => history'.accepted[s] >= turn'[s].n
  <2>1. CASE turn[s].at \in Gating /\ turn'[s].gate = turn[s].gate /\ turn'[s].n = turn[s].n
    <3>1. PICK b \in BOOLEAN : /\ turn[s].gate = build_auth_gate(agent, server.auth_tools, b)
                               /\ b => history.accepted[s] >= turn[s].n
      BY <1>2, <2>1 DEF GateInv
    <3>2. turn[s].n \in Nat /\ history.accepted[s] \in Nat /\ history'.accepted[s] \in Nat
      BY <1>0, <2>1 DEF Gating, Pointing
    <3>3. b => history'.accepted[s] >= turn'[s].n
      BY <1>1, <2>1, <3>1, <3>2
    <3> QED BY <2>1, <3>1, <3>3
  <2>2. CASE /\ turn'[s].n = budget.turns
             /\ turn'[s].gate = build_auth_gate(agent, server.auth_tools, verified[s])
    <3>1. PICK b \in BOOLEAN : b = verified[s]
      BY <1>0
    <3>2. b => history.accepted[s] >= budget.turns
      BY <3>1 DEF GateInv
    <3>3. b => history'.accepted[s] >= turn'[s].n
      BY <1>0, <1>1, <2>2, <3>2
    <3> QED BY <2>2, <3>1, <3>3
  <2> QED BY <1>2, <2>1, <2>2, GatedBefore
<1> DEFINE Sound(c) == c.tool \in server.auth_tools =>
                         /\ Level(agent, c.tool) # "admin"
                         /\ Level(agent, c.tool) = "end_user" => history'.accepted[c.session] >= c.n
<1>3. ASSUME agent # None, agent.visibility = "public", NEW c \in history'.ran PROVE Sound(c)
  <2>1. CASE c \in history.ran
    <3>1. /\ c.session \in Session /\ c.n \in Nat
          /\ c.tool \in server.auth_tools =>
               /\ Level(agent, c.tool) # "admin"
               /\ Level(agent, c.tool) = "end_user" => history.accepted[c.session] >= c.n
      BY <1>0, <1>3, <2>1 DEF GateInv, GateSound
    <3>2. history'.accepted[c.session] >= history.accepted[c.session]
      BY <1>1, <3>1
    <3>3. history'.accepted[c.session] \in Nat /\ history.accepted[c.session] \in Nat
      BY <1>0, <3>1
    <3> QED BY <3>1, <3>2, <3>3
  <2>2. CASE c \notin history.ran
    <3>1. PICK s \in Session, tool \in {c.tool} :
            /\ turn[s].at \in {"running", "asking"} /\ ~GateRefuses(turn[s].gate, tool)
            /\ c = [tool |-> tool, n |-> turn[s].n, session |-> s]
      BY <1>3, <2>2, RanCases DEF Ran
    <3>2. PICK b \in BOOLEAN : /\ turn[s].gate = build_auth_gate(agent, server.auth_tools, b)
                               /\ b => history.accepted[s] >= turn[s].n
      BY <1>3, <3>1 DEF GateInv, Gating
    <3>3. ~GateRefuses(build_auth_gate(agent, server.auth_tools, b), tool)
      BY <3>1, <3>2
    <3>4. tool \in server.auth_tools =>
            Level(agent, tool) # "admin" /\ (Level(agent, tool) = "end_user" => b)
      BY <1>0, <1>3, <3>3, GateMeaning
    <3>5. turn[s].n \in Nat /\ history.accepted[s] \in Nat /\ history'.accepted[s] \in Nat
      BY <1>0, <3>1 DEF Pointing
    <3>6. b => history'.accepted[s] >= turn[s].n
      BY <1>1, <3>2, <3>5
    <3>7. c.tool = tool /\ c.session = s /\ c.n = turn[s].n
      BY <3>1
    <3> QED BY <3>4, <3>6, <3>7
  <2> QED BY <2>1, <2>2
<1>4. GateSound'
  BY <1>0, <1>3 DEF GateSound, Level
<1> QED BY <1>0, <1>1, <1>2, <1>4 DEF GateInv

------------------------------------------------------------------------------
(* The workflow.                                                            *)

\* The first step with an id.
LEMMA StepAtFacts ==
  ASSUME NEW wf, wf \in Seq(Range(wf)), NEW id
  PROVE  /\ StepAt(wf, id) \in 0 .. Len(wf)
         /\ StepAt(wf, id) # 0 => wf[StepAt(wf, id)].id = id
         /\ \A i \in 1 .. Len(wf) : wf[i].id = id => StepAt(wf, id) # 0 /\ StepAt(wf, id) <= i
<1> DEFINE I == {i \in 1 .. Len(wf) : wf[i].id = id}
<1>1. StepAt(wf, id) = IF I # {} THEN Min(I) ELSE 0
  BY DEF StepAt, SelectInSeq
<1>2. Len(wf) \in Nat /\ I \subseteq 1 .. Len(wf)
  OBVIOUS
<1>3. CASE I = {}
  <2>1. StepAt(wf, id) = 0 /\ \A i \in 1 .. Len(wf) : wf[i].id # id
    BY <1>1, <1>3
  <2> QED BY <1>2, <2>1
<1>4. CASE I # {}
  <2>1. Min(I) \in I /\ \A y \in I : Min(I) <= y
    BY <1>2, <1>4, MinIn
  <2>2. StepAt(wf, id) = Min(I)
    BY <1>1, <1>4
  <2>3. StepAt(wf, id) \in 1 .. Len(wf) /\ wf[StepAt(wf, id)].id = id
    BY <2>1, <2>2
  <2>4. \A i \in 1 .. Len(wf) : wf[i].id = id => StepAt(wf, id) <= i
    BY <2>1, <2>2
  <2> QED BY <1>2, <2>3, <2>4
<1> QED BY <1>3, <1>4

\* The step a pointer stands for stands for itself.
LEMMA ResolveAgain ==
  ASSUME NEW wf, wf \in Seq(Range(wf)), wf # <<>>, NEW id
  PROVE  resolve_current_step(wf, resolve_current_step(wf, id).id) = resolve_current_step(wf, id)
<1>1. CASE StepAt(wf, id) # 0
  <2>1. resolve_current_step(wf, id) = wf[StepAt(wf, id)] /\ wf[StepAt(wf, id)].id = id
    BY <1>1, StepAtFacts DEF resolve_current_step
  <2> QED BY <2>1
<1>2. CASE StepAt(wf, id) = 0
  <2>1. resolve_current_step(wf, id) = wf[1]
    BY <1>2 DEF resolve_current_step
  <2>2. PICK first : first = wf[1].id
    OBVIOUS
  <2>3. 1 \in 1 .. Len(wf)
    OBVIOUS
  <2>4. StepAt(wf, first) \in 0 .. Len(wf) /\ StepAt(wf, first) # 0 /\ StepAt(wf, first) <= 1
    BY <2>2, <2>3, StepAtFacts
  <2>5. StepAt(wf, first) = 1
    BY <2>4
  <2>6. resolve_current_step(wf, first) = wf[1]
    BY <2>5 DEF resolve_current_step
  <2> QED BY <2>1, <2>2, <2>6
<1> QED BY <1>1, <1>2

\* The next step is a step, and its id stands for a step of that id.
LEMMA NextResolves ==
  ASSUME NEW wf, wf \in Seq(Range(wf)), wf # <<>>, NEW step, next_step(wf, step) # None
  PROVE  resolve_current_step(wf, next_step(wf, step).id).id = next_step(wf, step).id
<1>1. PICK explicit, after : explicit = StepAt(wf, step.next) /\ after = StepAt(wf, step.id) + 1
  OBVIOUS
<1>2. explicit \in 0 .. Len(wf) /\ after \in 1 .. Len(wf) + 1 /\ Len(wf) \in Nat
  <2>1. StepAt(wf, step.next) \in 0 .. Len(wf) /\ StepAt(wf, step.id) \in 0 .. Len(wf)
    BY StepAtFacts
  <2>2. Len(wf) \in Nat
    OBVIOUS
  <2> QED BY <1>1, <2>1, <2>2
<1>3. \/ next_step(wf, step) = wf[explicit] /\ explicit # 0
      \/ next_step(wf, step) = wf[after] /\ after <= Len(wf)
  BY <1>1 DEF next_step
<1>4. PICK i \in 1 .. Len(wf) : next_step(wf, step) = wf[i]
  BY <1>2, <1>3
<1>5. PICK id : id = wf[i].id
  OBVIOUS
<1>6. StepAt(wf, id) # 0 /\ wf[StepAt(wf, id)].id = id
  BY <1>5, StepAtFacts
<1> QED BY <1>4, <1>5, <1>6 DEF resolve_current_step

\* What the cap makes of a judged pointer: if the new pointer has somewhere else
\* to go it is below the cap, and it counts one more attempt if it is still at
\* the step the old one stood for.
LEMMA CapBounds ==
  ASSUME agent.workflow \in Seq(Range(agent.workflow)), agent.workflow # <<>>,
         NEW p, p.attempts \in Nat, NEW j \in Judgements(p), NEW q,
         q = apply_step_cap(agent.workflow, p.step, j, p.attempts), Leaves(q)
  PROVE  /\ q.attempts < StepAttemptCap
         /\ StepOf(q) = StepOf(p) => Leaves(p) /\ q.attempts = p.attempts + 1
<1>1. PICK wf, cur, next : /\ wf = agent.workflow /\ cur = resolve_current_step(wf, p.step)
                           /\ next = next_step(wf, cur)
  OBVIOUS
<1>2. StepAttemptCap \in Nat \ {0}
  BY CapAssumption
<1>3. resolve_current_step(wf, cur.id) = cur
  BY <1>1, ResolveAgain
<1>4. ASSUME NEW r, r.step = cur.id PROVE Leaves(r) <=> (next # None /\ next.id # cur.id)
  BY <1>1, <1>3, <1>4 DEF Leaves
<1>5. Leaves(p) <=> (next # None /\ next.id # cur.id)
  BY <1>1 DEF Leaves
<1>a. ASSUME next # None, q.step = next.id, next.id # cur.id PROVE StepOf(q) # StepOf(p)
  BY <1>1, <1>a, NextResolves DEF StepOf
<1>6. CASE cur.id # j
  <2>1. q = [step |-> j, attempts |-> 0]
    BY <1>1, <1>6 DEF apply_step_cap
  <2>2. q.step = j /\ q.attempts = 0
    BY <2>1
  <2>3. next # None /\ j = next.id
    BY <1>1, <1>6 DEF Judgements
  <2> QED BY <1>2, <1>6, <1>a, <2>2, <2>3
<1>7. CASE cur.id = j /\ p.attempts + 1 >= StepAttemptCap /\ next # None
  <2>1. q = [step |-> next.id, attempts |-> 0]
    BY <1>1, <1>7 DEF apply_step_cap
  <2>2. q.step = next.id /\ q.attempts = 0
    BY <2>1
  <2>3. q.step # cur.id
    BY <1>4, <2>2
  <2> QED BY <1>2, <1>7, <1>a, <2>2, <2>3
<1>8. CASE cur.id = j /\ ~(p.attempts + 1 >= StepAttemptCap /\ next # None)
  <2>1. q = [step |-> cur.id, attempts |-> p.attempts + 1]
    BY <1>1, <1>8 DEF apply_step_cap
  <2>2. q.step = cur.id /\ q.attempts = p.attempts + 1
    BY <2>1
  <2>3. next # None /\ next.id # cur.id
    BY <1>4, <2>2
  <2> QED BY <1>2, <1>5, <1>8, <2>2, <2>3
<1> QED BY <1>6, <1>7, <1>8

\* The judge only names what it may.
LEMMA JudgedWell ==
  ASSUME NEW p, NEW v
  PROVE  advance_after_verdict(agent.workflow, p.step, v) \in Judgements(p)
BY DEF advance_after_verdict, Judgements

\* Only a turn's write and a reconnect's write touch the metadata and the counts.
LEMMA MetaKept ==
  ASSUME ShapeInv, [Next]_vars, ~\E s \in Session : WritePointer(s), ~\E r \in resume : ResumeWrite(r)
  PROVE  /\ history'.held = history.held /\ history'.lost = history.lost
         /\ \A s \in Session : row'[s].meta = row[s].meta
         /\ \A r \in resume' : \/ r \in resume \/ r.read = NoMeta
                              \/ \E s \in Session : r.read = row[s].meta
<1> DEFINE Counts == history'.held = history.held /\ history'.lost = history.lost
           Metas == /\ \A s \in Session : row'[s].meta = row[s].meta
                    /\ \A r \in resume' : \/ r \in resume \/ r.read = NoMeta
                                         \/ \E s \in Session : r.read = row[s].meta
<1>1. ASSUME Silent PROVE Counts
  BY <1>1, SilentEffect
<1>2. ASSUME NEW s \in Session, Respond(s) \/ Renamed(s) \/ TakeVerdict(s) PROVE Counts
  <2>1. OnlyHistory({"codes"}) \/ OnlyHistory({"kept"}) \/ OnlyHistory({"ran", "approvals"})
    BY <1>2, RespondEffect, RenameEffect, VerdictEffect
  <2> QED BY <2>1 DEF OnlyHistory, HistoryFields
<1>3. ASSUME NEW s \in Session, NEW v \in {"approved", "denied"}, ConfirmHost(s, v) PROVE Counts
  <2>1. OnlyHistory({"approvals"})
    BY <1>3, ConfirmEffect
  <2> QED BY <2>1 DEF OnlyHistory, HistoryFields
<1>4. ASSUME NEW s \in Session, NEW ok \in BOOLEAN, VerifyOtp(s, ok) PROVE Counts
  <2>1. OnlyHistory({"accepted"})
    BY <1>4, VerifyEffect
  <2> QED BY <2>1 DEF OnlyHistory, HistoryFields
<1>5. ASSUME NEW s \in Session, NEW tool, CallTool(s, tool) PROVE Counts
  <2>1. OnlyHistory({"ran"})
    BY <1>5, CallEffect
  <2> QED BY <2>1 DEF OnlyHistory, HistoryFields
<1>6. ASSUME Rowless PROVE Metas
  BY <1>6, RowlessEffect
<1>7. ASSUME NEW s \in Session, Renamed(s) PROVE Metas
  <2>1. resume' = resume /\ \E x : OnlyName(s, x)
    BY <1>7, RenameEffect DEF Renamed, Rename
  <2> QED BY <2>1 DEF OnlyName
<1>8. ASSUME NEW k \in titler, TitleWrite(k) PROVE Metas
  <2>1. PICK s \in Session : s = k.session
    BY DEF ShapeInv, TaskShape
  <2>2. resume' = resume /\ (row' = row \/ \E x : row' = [row EXCEPT ![s].name = x])
    BY <1>8, <2>1 DEF TitleWrite
  <2>3. row' = row \/ \E x : OnlyName(s, x)
    BY <2>2, NameWritten DEF ShapeInv
  <2> QED BY <2>2, <2>3 DEF OnlyName
<1>9. ASSUME NEW s \in Session, NEW c \in Supports, ResumeRead(s, c) PROVE Metas
  <2>0. PICK read \in {row[s].meta, NoMeta} :
          resume' = resume \cup {[session |-> s, supports |-> c, read |-> read]}
    BY <1>9 DEF ResumeRead, ReadMeta
  <2>1. PICK w : w = [session |-> s, supports |-> c, read |-> read]
    OBVIOUS
  <2>2. row' = row /\ resume' = resume \cup {w} /\ w.read = read
    BY <1>9, <2>0, <2>1 DEF ResumeRead
  <2> QED BY <2>2
<1>12. ASSUME NEW k \in titler, TitleRecheck(k) PROVE Counts
  <2>1. OnlyHistory({"kept"})
    BY <1>12, RecheckEffect
  <2> QED BY <2>1 DEF OnlyHistory, HistoryFields
<1> HIDE DEF Counts, Metas
<1>10. Counts
  BY <1>1, <1>2, <1>3, <1>4, <1>5, <1>12, HistoryCases
<1>11. Metas
  BY <1>6, <1>7, <1>8, <1>9, RowCases
<1> QED BY <1>10, <1>11 DEF Counts, Metas

\* Where the pointer of a turn comes from.
LEMMA PointingBefore ==
  ASSUME ShapeInv, [Next]_vars, NEW s \in Session
  PROVE  /\ turn'[s].at \in Pointing => \/ turn'[s].pointer \in {row[s].meta.pointer, NoPointer}
                                        \/ turn[s].at \in Pointing /\ turn'[s].pointer = turn[s].pointer
         /\ turn'[s].at = "persist" /\ HasWorkflow =>
              \/ turn[s].at = "persist" /\ turn'[s].judged = turn[s].judged
                   /\ turn'[s].pointer = turn[s].pointer
              \/ turn'[s].judged \in Judgements(turn'[s].pointer)
         /\ turn'[s].at = "write" =>
              \/ turn'[s] = turn[s]
              \/ /\ turn[s].at = "persist" /\ turn'[s].pointer = turn[s].pointer
                 /\ turn'[s].next = apply_step_cap(agent.workflow, turn[s].pointer.step,
                                                   turn[s].judged, turn[s].pointer.attempts)
<1> DEFINE Goal ==
         /\ turn'[s].at \in Pointing => \/ turn'[s].pointer \in {row[s].meta.pointer, NoPointer}
                                        \/ turn[s].at \in Pointing /\ turn'[s].pointer = turn[s].pointer
         /\ turn'[s].at = "persist" /\ HasWorkflow =>
              \/ turn[s].at = "persist" /\ turn'[s].judged = turn[s].judged
                   /\ turn'[s].pointer = turn[s].pointer
              \/ turn'[s].judged \in Judgements(turn'[s].pointer)
         /\ turn'[s].at = "write" =>
              \/ turn'[s] = turn[s]
              \/ /\ turn[s].at = "persist" /\ turn'[s].pointer = turn[s].pointer
                 /\ turn'[s].next = apply_step_cap(agent.workflow, turn[s].pointer.step,
                                                   turn[s].judged, turn[s].pointer.attempts)
<1>a. ASSUME turn'[s] = turn[s] PROVE Goal
  BY <1>a
<1>b. ASSUME NEW u \in Session, OnlyTurn(u), u # s PROVE Goal
  BY <1>a, <1>b DEF OnlyTurn
<1>c. ASSUME NEW u \in Session, NEW at \in {"running", "asking"}, Goes(u, at), turn[u].at \in Pointing
      PROVE  Goal
  <2>1. CASE u = s
    BY <1>c, <2>1 DEF Goes
  <2> QED BY <1>b, <1>c, <2>1 DEF Goes
<1>1. ASSUME NEW u \in Session, NEW f \in Frame, SendMessage(u, f) PROVE Goal
  <2>1. /\ OnlyTurn(u) /\ turn'[u].at = "prepare"
        /\ turn'[u].pointer \in {row[u].meta.pointer, NoPointer}
    BY <1>1, SendEffect
  <2> QED BY <1>b, <2>1
<1>2. ASSUME NEW u \in Session, Prepare(u) PROVE Goal
  <2>1. /\ OnlyTurn(u) /\ turn'[u].at = "running" /\ turn'[u].pointer = turn[u].pointer
        /\ turn[u].at = "prepare"
    BY <1>2, PrepareEffect
  <2> QED BY <1>b, <2>1 DEF Pointing
<1>3. ASSUME NEW u \in Session, NEW tool, AskHost(u, tool) \/ CallTool(u, tool) PROVE Goal
  BY <1>c, <1>3, AskEffect, CallEffect DEF Pointing
<1>4. ASSUME NEW u \in Session, AskTimesOut(u) \/ TakeVerdict(u) PROVE Goal
  BY <1>c, <1>4, AskEffect, VerdictEffect DEF Pointing
<1>5. ASSUME NEW u \in Session, FailRun(u) \/ WritePointer(u) \/ Respond(u) PROVE Goal
  <2>1. OnlyTurn(u) /\ turn'[u].at \in {"none", "answer"}
    BY <1>5, FailEffect, WriteEffect, RespondEffect
  <2> QED BY <1>b, <2>1 DEF Pointing
<1>6. ASSUME NEW u \in Session, ReadPointer(u) PROVE Goal
  <2>1. /\ OnlyTurn(u) /\ turn'[u].at = "write" /\ turn'[u].pointer = turn[u].pointer
        /\ turn'[u].next = apply_step_cap(agent.workflow, turn[u].pointer.step, turn[u].judged,
                                          turn[u].pointer.attempts)
        /\ turn[u].at = "persist"
    BY <1>6, ReadEffect
  <2> QED BY <1>b, <2>1 DEF Pointing
<1>7. ASSUME NEW u \in Session, NEW replied, NEW verdict, FinishRun(u, replied, verdict) PROVE Goal
  <2>1. /\ OnlyTurn(u) /\ turn'[u].at \in {"persist", "answer"} /\ turn'[u].pointer = turn[u].pointer
        /\ HasWorkflow => \E v : turn'[u].judged = advance_after_verdict(agent.workflow,
                                                     turn[u].pointer.step, v)
        /\ turn[u].at = "running"
    BY <1>7, FinishEffect
  <2>2. PICK p : p = turn[u].pointer
    OBVIOUS
  <2>3. HasWorkflow => turn'[u].judged \in Judgements(p)
    BY <2>1, <2>2, JudgedWell
  <2>4. CASE u = s
    BY <2>1, <2>2, <2>3, <2>4 DEF Pointing
  <2> QED BY <1>b, <2>1, <2>4
<1> HIDE DEF Goal
<1>8. Goal
  BY <1>a, <1>1, <1>2, <1>3, <1>4, <1>5, <1>6, <1>7, TurnCases
<1> QED BY <1>8 DEF Goal

\* Two pointers that stand for one step have the same way on.
LEMMA SameStep ==
  ASSUME agent.workflow \in Seq(Range(agent.workflow)), agent.workflow # <<>>,
         NEW p, NEW q, StepOf(p) = StepOf(q), Leaves(p)
  PROVE  Leaves(q)
<1>1. PICK wf, x, y : /\ wf = agent.workflow /\ x = resolve_current_step(wf, p.step)
                      /\ y = resolve_current_step(wf, q.step)
  OBVIOUS
<1>2. x.id = y.id
  BY <1>1 DEF StepOf
<1>3. resolve_current_step(wf, x.id) = x /\ resolve_current_step(wf, y.id) = y
  BY <1>1, ResolveAgain
<1>4. x = y
  BY <1>2, <1>3
<1> QED BY <1>1, <1>4 DEF Leaves

\* Arithmetic of rounds of the cap.
LEMMA TimesNat == \A c, l \in Nat : c * l \in Nat
OBVIOUS
LEMMA OneMore ==
  ASSUME NEW c \in Nat, NEW a \in Nat, NEW l \in Nat, NEW h \in Nat, a < c, h <= a + c * l
  PROVE  h < c * (l + 1)
<1>1. c * (l + 1) = c * l + c /\ c * l \in Nat
  OBVIOUS
<1> QED BY <1>1

\* Every step keeps the steps bounded.
LEMMA StepStep ==
  ASSUME ShapeInv, StepInv, [Next]_vars, HasWorkflow
  PROVE  StepInv'
<1> DEFINE Held(s) == Leaves(row'[s].meta.pointer) =>
                        /\ row'[s].meta.pointer.attempts < StepAttemptCap
                        /\ history'.held[s] <= row'[s].meta.pointer.attempts
                                               + StepAttemptCap * history'.lost[s]
           Fresh(s) == turn'[s].at \in Pointing /\ Leaves(turn'[s].pointer) =>
                         turn'[s].pointer.attempts < StepAttemptCap
           Judged(s) == turn'[s].at = "persist" => turn'[s].judged \in Judgements(turn'[s].pointer)
           Capped(s) == turn'[s].at = "write" =>
                          \E j \in Judgements(turn'[s].pointer) :
                            turn'[s].next = apply_step_cap(agent.workflow, turn'[s].pointer.step, j,
                                                           turn'[s].pointer.attempts)
           Reads == \A r \in resume' : Leaves(r.read.pointer) => r.read.pointer.attempts < StepAttemptCap
<1>0. /\ server' = server /\ agent' = agent /\ ConfigShape
      /\ history.lost \in [Session -> Nat] /\ history.held \in [Session -> Nat]
      /\ agent.workflow \in Seq(Range(agent.workflow)) /\ agent.workflow # <<>>
  BY StepShape, AgentFacts DEF ShapeInv, HistoryShape, HasWorkflow
<1>1. ASSUME NEW s \in Session
      PROVE  /\ Leaves(row[s].meta.pointer) =>
                  /\ row[s].meta.pointer.attempts < StepAttemptCap
                  /\ history.held[s] <= row[s].meta.pointer.attempts + StepAttemptCap * history.lost[s]
             /\ turn[s].at \in Pointing /\ Leaves(turn[s].pointer) =>
                  turn[s].pointer.attempts < StepAttemptCap
             /\ turn[s].at = "persist" => turn[s].judged \in Judgements(turn[s].pointer)
             /\ turn[s].at = "write" =>
                  \E j \in Judgements(turn[s].pointer) :
                    turn[s].next = apply_step_cap(agent.workflow, turn[s].pointer.step, j,
                                                  turn[s].pointer.attempts)
  BY DEF StepInv
<1>2. \A r \in resume : Leaves(r.read.pointer) => r.read.pointer.attempts < StepAttemptCap
  BY DEF StepInv
<1>3. ASSUME NEW s \in Session PROVE Judged(s) /\ Capped(s)
  <2>1. Judged(s)
    BY <1>1, PointingBefore
  <2>2. ASSUME turn[s].at = "persist", turn'[s].pointer = turn[s].pointer,
               turn'[s].next = apply_step_cap(agent.workflow, turn[s].pointer.step,
                                              turn[s].judged, turn[s].pointer.attempts)
        PROVE  Capped(s)
    <3>1. turn[s].judged \in Judgements(turn'[s].pointer)
      BY <1>1, <2>2
    <3> QED BY <2>2, <3>1
  <2>3. ASSUME turn'[s] = turn[s] PROVE Capped(s)
    BY <1>1, <2>3
  <2>4. Capped(s)
    <3> HIDE DEF Capped
    <3>1. CASE turn'[s].at = "write"
      BY <2>2, <2>3, <3>1, PointingBefore
    <3>2. CASE turn'[s].at # "write"
      BY <3>2 DEF Capped
    <3> QED BY <3>1, <3>2
  <2> QED BY <2>1, <2>4
<1>4. ASSUME NEW s \in Session PROVE Fresh(s)
  <2>1. NoPointer.attempts = 0 /\ 0 < StepAttemptCap
    BY CapAssumption DEF NoPointer
  <2> QED BY <1>1, <2>1, PointingBefore
<1>5. ASSUME NEW s \in Session, row'[s].meta.pointer = row[s].meta.pointer,
             history'.lost[s] = history.lost[s], history'.held[s] = history.held[s]
      PROVE  Held(s)
  BY <1>1, <1>5
<1>a. ASSUME NEW s \in Session
      PROVE  /\ row[s].meta.pointer.attempts \in Nat /\ history.lost[s] \in Nat
             /\ history.held[s] \in Nat
  BY <1>0 DEF ShapeInv, RowShape, MetaShape, PointerShape
\* A pointer that is stored out of turn, below the cap: one more access went wrong.
<1>b. ASSUME NEW s \in Session, NEW q, row'[s].meta.pointer = q, q.attempts \in Nat,
             Leaves(q) => q.attempts < StepAttemptCap,
             history'.lost[s] = history.lost[s] + 1,
             \/ history'.held[s] = 0
             \/ /\ StepOf(q) = StepOf(row[s].meta.pointer)
                /\ history'.held[s] \in {history.held[s], history.held[s] + 1}
      PROVE  Held(s)
  <2>1. ASSUME Leaves(q), history'.held[s] # 0
        PROVE  history.held[s] < StepAttemptCap * history'.lost[s]
    <3>1. Leaves(row[s].meta.pointer)
      BY <1>0, <1>b, <2>1, SameStep
    <3>2. PICK c, a, l, h : /\ c = StepAttemptCap /\ a = row[s].meta.pointer.attempts
                            /\ l = history.lost[s] /\ h = history.held[s]
      OBVIOUS
    <3>3. a < c /\ h <= a + c * l /\ a \in Nat /\ l \in Nat /\ h \in Nat /\ c \in Nat
      BY <1>1, <1>a, <3>1, <3>2, CapAssumption
    <3>4. h < c * (l + 1)
      BY <3>3, OneMore
    <3> QED BY <1>b, <3>2, <3>4
  <2>2. StepAttemptCap * history'.lost[s] \in Nat
    BY <1>a, <1>b, CapAssumption, TimesNat
  <2>3. ASSUME Leaves(q) PROVE history'.held[s] <= q.attempts + StepAttemptCap * history'.lost[s]
    <3>1. CASE history'.held[s] = 0
      BY <1>b, <2>2, <3>1
    <3>2. CASE history'.held[s] # 0
      BY <1>a, <1>b, <2>1, <2>2, <2>3, <3>2
    <3> QED BY <3>1, <3>2
  <2> QED BY <1>b, <2>3
<1> DEFINE Goal == Reads /\ \A s \in Session : Held(s) /\ Fresh(s)
<1>6. ASSUME NEW u \in Session, WritePointer(u) PROVE Goal
  <2>1. /\ turn[u].at = "write"
        /\ \A s \in Session \ {u} : history'.held[s] = history.held[s] /\ history'.lost[s] = history.lost[s]
    BY <1>6, WriteEffect
  <2>2. \/ /\ OnlyMeta(u) /\ row'[u].meta.pointer = turn[u].next
           /\ history'.held[u] = IF StepOf(turn[u].next) # StepOf(row[u].meta.pointer)
                                 THEN 0 ELSE history.held[u] + 1
           /\ \/ history'.lost[u] = history.lost[u] + 1
              \/ history'.lost[u] = history.lost[u] /\ turn[u].pointer = row[u].meta.pointer
        \/ /\ row' = row /\ history'.held[u] = history.held[u] + 1
           /\ history'.lost[u] = history.lost[u] + 1
    BY <1>6, WriteEffect
  <2>3. Reads
    BY <1>2, <1>6 DEF WritePointer
  <2>4. ASSUME NEW s \in Session, s # u PROVE Held(s)
    <3>1. row'[s].meta.pointer = row[s].meta.pointer
      BY <2>2, <2>4 DEF OnlyMeta
    <3> QED BY <1>5, <2>1, <2>4, <3>1
  <2>5. CASE /\ row' = row /\ history'.held[u] = history.held[u] + 1
             /\ history'.lost[u] = history.lost[u] + 1
    <3>1. PICK q : q = row[u].meta.pointer
      OBVIOUS
    <3>2. Held(u)
      BY <1>1, <1>a, <1>b, <2>5, <3>1
    <3> QED BY <1>4, <2>3, <2>4, <3>2
  <2>6. CASE /\ row'[u].meta.pointer = turn[u].next
             /\ history'.held[u] = IF StepOf(turn[u].next) # StepOf(row[u].meta.pointer)
                                   THEN 0 ELSE history.held[u] + 1
             /\ \/ history'.lost[u] = history.lost[u] + 1
                \/ history'.lost[u] = history.lost[u] /\ turn[u].pointer = row[u].meta.pointer
    <3>1. PICK p, q : p = turn[u].pointer /\ q = turn[u].next
      OBVIOUS
    <3>2. PICK j \in Judgements(p) : q = apply_step_cap(agent.workflow, p.step, j, p.attempts)
      BY <1>1, <2>1, <3>1
    <3>3. p.attempts \in Nat /\ q.attempts \in Nat
      BY <2>1, <3>1 DEF ShapeInv, TurnShape, Pointing, PointerShape
    <3>4. ASSUME Leaves(q)
          PROVE  /\ q.attempts < StepAttemptCap
                 /\ StepOf(q) = StepOf(p) => Leaves(p) /\ q.attempts = p.attempts + 1
      BY <1>0, <3>2, <3>3, <3>4, CapBounds
    <3>5. ASSUME history'.lost[u] = history.lost[u] + 1 PROVE Held(u)
      BY <1>b, <2>6, <3>1, <3>3, <3>4, <3>5
    <3>6. ASSUME history'.lost[u] = history.lost[u], p = row[u].meta.pointer PROVE Held(u)
      <4>1. StepAttemptCap * history.lost[u] \in Nat
        BY <1>a, CapAssumption, TimesNat
      <4>2. ASSUME Leaves(q), StepOf(q) = StepOf(p)
            PROVE  history'.held[u] <= q.attempts + StepAttemptCap * history'.lost[u]
        <5>1. Leaves(p) /\ q.attempts = p.attempts + 1
          BY <3>4, <4>2
        <5>2. history.held[u] <= p.attempts + StepAttemptCap * history.lost[u]
          BY <1>1, <3>6, <5>1
        <5>3. history'.held[u] = history.held[u] + 1
          BY <2>6, <3>1, <3>6, <4>2
        <5> QED BY <1>a, <3>3, <3>6, <4>1, <5>1, <5>2, <5>3
      <4>3. ASSUME StepOf(q) # StepOf(p)
            PROVE  history'.held[u] <= q.attempts + StepAttemptCap * history'.lost[u]
        <5>1. history'.held[u] = 0
          BY <2>6, <3>1, <3>6, <4>3
        <5> QED BY <3>3, <3>6, <4>1, <5>1
      <4>4. row'[u].meta.pointer = q
        BY <2>6, <3>1
      <4> QED BY <3>4, <4>2, <4>3, <4>4
    <3>7. Held(u)
      BY <2>6, <3>1, <3>5, <3>6
    <3> QED BY <1>4, <2>3, <2>4, <3>7
  <2> QED BY <2>2, <2>5, <2>6
<1>7. ASSUME NEW r \in resume, ResumeWrite(r) PROVE Goal
  <2>1. PICK u : u = r.session
    OBVIOUS
  <2>2. /\ u \in Session /\ OnlyMeta(u) /\ row'[u].meta.pointer = r.read.pointer
        /\ \A s \in Session \ {u} : history'.held[s] = history.held[s] /\ history'.lost[s] = history.lost[s]
        /\ history'.held[u] = IF StepOf(r.read.pointer) # StepOf(row[u].meta.pointer)
                              THEN 0 ELSE history.held[u]
        /\ history'.lost[u] = IF r.read = row[u].meta THEN history.lost[u] ELSE history.lost[u] + 1
    BY <1>7, <2>1, ResumeEffect
  <2>3. Reads
    BY <1>2, <1>7 DEF ResumeWrite
  <2>4. ASSUME NEW s \in Session, s # u PROVE Held(s)
    <3>1. row'[s].meta.pointer = row[s].meta.pointer
      BY <2>2, <2>4 DEF OnlyMeta
    <3> QED BY <1>5, <2>2, <2>4, <3>1
  <2>5. CASE r.read = row[u].meta
    <3>1. /\ row'[u].meta.pointer = row[u].meta.pointer /\ history'.lost[u] = history.lost[u]
          /\ history'.held[u] = history.held[u]
      BY <2>2, <2>5
    <3>2. Held(u)
      BY <1>5, <2>2, <3>1
    <3> QED BY <1>4, <2>3, <2>4, <3>2
  <2>6. CASE r.read # row[u].meta
    <3>1. PICK q : q = r.read.pointer
      OBVIOUS
    <3>2. q.attempts \in Nat /\ (Leaves(q) => q.attempts < StepAttemptCap)
      BY <1>2, <3>1 DEF ShapeInv, RowShape, MetaShape, PointerShape
    <3>3. Held(u)
      BY <1>b, <2>2, <2>6, <3>1, <3>2
    <3> QED BY <1>4, <2>3, <2>4, <3>3
  <2> QED BY <2>5, <2>6
<1>8. ASSUME ~\E s \in Session : WritePointer(s), ~\E r \in resume : ResumeWrite(r) PROVE Goal
  <2>1. /\ history'.held = history.held /\ history'.lost = history.lost
        /\ \A s \in Session : row'[s].meta = row[s].meta
        /\ \A r \in resume' : \/ r \in resume \/ r.read = NoMeta
                             \/ \E s \in Session : r.read = row[s].meta
    BY <1>8, MetaKept
  <2>2. NoMeta.pointer.attempts = 0 /\ 0 < StepAttemptCap
    BY NoShape, CapAssumption DEF NoPointer
  <2>3. Reads
    BY <1>1, <1>2, <2>1, <2>2
  <2>4. ASSUME NEW s \in Session PROVE Held(s)
    BY <1>5, <2>1, <2>4
  <2> QED BY <1>4, <2>3, <2>4
<1>9. Goal
  <2> HIDE DEF Goal
  <2> QED BY <1>6, <1>7, <1>8
<1> QED BY <1>0, <1>3, <1>9 DEF StepInv, Leaves, Judgements, HasWorkflow

------------------------------------------------------------------------------
(* The theorems.                                                            *)

\* The shapes hold at the start.
LEMMA InitShape ==
  ASSUME Init
  PROVE  /\ ShapeInv
         /\ \A s \in Session : /\ turn[s].at = "none" /\ ~verified[s]
                               /\ history.accepted[s] = 0 /\ history.lost[s] = 0
                               /\ history.held[s] = row[s].meta.pointer.attempts
                               /\ row[s].meta.pointer \in Pointers(agent)
         /\ history.ran = {} /\ history.kept = {} /\ history.approvals = 0 /\ approver.verdicts = <<>>
         /\ titler = {} /\ resume = {}
<1>1. PICK p \in Pointers(agent) :
        row = [s \in Session |-> [name |-> Name("create", TRUE), meta |-> [NoMeta EXCEPT !.pointer = p]]]
  BY DEF Init
<1>2. PointerShape(p)
  <2>1. 0 \in Nat /\ StepAttemptCap - 1 \in Nat
    BY CapAssumption
  <2>2. \A x, n : n \in Nat => PointerShape([step |-> x, attempts |-> n])
    BY DEF PointerShape
  <2> QED BY <2>1, <2>2 DEF Pointers, NoPointer
<1>3. PICK rec : rec = [name |-> Name("create", TRUE), meta |-> [NoMeta EXCEPT !.pointer = p]]
  OBVIOUS
<1>4. DOMAIN rec = {"name", "meta"} /\ DOMAIN rec.meta = {"pointer", "supports"} /\ rec.meta.pointer = p
  BY <1>3 DEF NoMeta
<1>5. DOMAIN row = Session /\ \A s \in Session : row[s] = rec
  BY <1>1, <1>3
<1>6. RowShape /\ resume = {} /\ titler = {}
  BY <1>2, <1>4, <1>5 DEF RowShape, MetaShape, Init
<1>7. DOMAIN turn = Session /\ \A s \in Session : turn[s] = NoTurn
  BY DEF Init
<1>8. NoTurn.at = "none"
  BY DEF NoTurn
<1>9. TurnShape
  BY <1>7, <1>8 DEF TurnShape, Pointing
<1>10. approver = [current |-> None, requests |-> <<>>, verdicts |-> <<>>]
  BY DEF Init
<1>11. TaskShape /\ approver.verdicts = <<>>
  BY <1>6, <1>10 DEF TaskShape
<1>12. budget = [turns |-> MaxTurns, calls |-> MaxCalls, events |-> MaxEvents] /\ MaxTurns \in Nat
  BY TurnAssumption DEF Init
<1>13. DOMAIN budget = {"turns", "calls", "events"} /\ budget.turns \in Nat
  BY <1>12
<1>14. PICK codes, accepted, held, lost :
         /\ history = [codes |-> codes, accepted |-> accepted, ran |-> {}, approvals |-> 0,
                       held |-> held, lost |-> lost, kept |-> {}]
         /\ accepted = [s \in Session |-> 0] /\ lost = [s \in Session |-> 0]
         /\ held = [s \in Session |-> row[s].meta.pointer.attempts]
  <2>1. PICK past \in Past :
          history = [codes |-> IF past.coded THEN Session ELSE {},
                     accepted |-> [s \in Session |-> 0], ran |-> {}, approvals |-> 0,
                     held |-> [s \in Session |-> row[s].meta.pointer.attempts],
                     lost |-> [s \in Session |-> 0], kept |-> {}]
    BY DEF Init
  <2>2. PICK codes, accepted, held :
          /\ codes = IF past.coded THEN Session ELSE {}
          /\ accepted = [s \in Session |-> 0]
          /\ held = [s \in Session |-> row[s].meta.pointer.attempts]
    OBVIOUS
  <2>3. history = [codes |-> codes, accepted |-> accepted, ran |-> {}, approvals |-> 0,
                   held |-> held, lost |-> accepted, kept |-> {}]
    BY <2>1, <2>2
  <2> QED BY <2>2, <2>3
<1>15. /\ DOMAIN history = HistoryFields /\ history.accepted = accepted /\ history.lost = lost
       /\ history.held = held /\ history.ran = {} /\ history.kept = {} /\ history.approvals = 0
  BY <1>14 DEF HistoryFields
<1>16. p.attempts \in Nat
  BY <1>2 DEF PointerShape
<1>17. /\ accepted \in [Session -> Nat] /\ lost \in [Session -> Nat] /\ held \in [Session -> Nat]
       /\ \A s \in Session : accepted[s] = 0 /\ lost[s] = 0 /\ held[s] = row[s].meta.pointer.attempts
  BY <1>4, <1>5, <1>14, <1>16
<1>18. verified \in [Session -> BOOLEAN] /\ \A s \in Session : ~verified[s]
  BY DEF Init
<1>19. HistoryShape
  BY <1>13, <1>15, <1>17, <1>18 DEF HistoryShape
<1>20. ConfigShape
  BY DEF Init, ConfigShape
<1> QED BY <1>4, <1>5, <1>6, <1>7, <1>8, <1>9, <1>11, <1>15, <1>17, <1>18, <1>19, <1>20 DEF ShapeInv

\* The inductive invariant holds at the start.
LEMMA InitIInv == Init => IInv
<1> SUFFICES ASSUME Init PROVE IInv
  OBVIOUS
<1>0. /\ ShapeInv
      /\ \A s \in Session : /\ turn[s].at = "none" /\ ~verified[s]
                            /\ history.accepted[s] = 0 /\ history.lost[s] = 0
                            /\ history.held[s] = row[s].meta.pointer.attempts
                            /\ row[s].meta.pointer \in Pointers(agent)
      /\ history.ran = {} /\ history.kept = {} /\ history.approvals = 0 /\ approver.verdicts = <<>>
      /\ titler = {} /\ resume = {}
  BY InitShape
<1>1. TitleInv
  BY <1>0 DEF TitleInv
<1>2. AskInv
  <2>1. Approved(<<>>) = {}
    BY DEF Approved
  <2>2. <<>> \in Seq({"approved", "denied"})
    OBVIOUS
  <2>3. Cardinality(Approved(approver.verdicts)) = 0
    BY <1>0, <2>1, FS_EmptySet
  <2> QED BY <1>0, <2>2, <2>3 DEF AskInv
<1>3. ListInv
  BY <1>0 DEF ListInv
<1>4. GateInv
  BY <1>0 DEF GateInv, GateSound, Gating
<1>5. StepInv
  <2> SUFFICES ASSUME HasWorkflow PROVE StepInv
    BY DEF StepInv
  <2>1. ASSUME NEW p \in Pointers(agent), Leaves(p) PROVE p.attempts < StepAttemptCap
    <3>1. \A x, n : [step |-> x, attempts |-> n].attempts = n
      OBVIOUS
    <3>2. p.attempts = 0 \/ p.attempts = StepAttemptCap - 1
      BY <2>1, <3>1 DEF Pointers, NoPointer
    <3> QED BY <3>2, CapAssumption
  <2>2. \A s \in Session : row[s].meta.pointer.attempts \in Nat
    BY <1>0 DEF ShapeInv, RowShape, MetaShape, PointerShape
  <2>3. ASSUME NEW s \in Session
        PROVE  history.held[s] <= row[s].meta.pointer.attempts + StepAttemptCap * history.lost[s]
    <3>1. StepAttemptCap * history.lost[s] = 0
      BY <1>0, CapAssumption
    <3> QED BY <1>0, <2>2, <3>1
  <2> QED BY <1>0, <2>1, <2>3 DEF StepInv, Pointing
<1> QED BY <1>0, <1>1, <1>2, <1>3, <1>4, <1>5 DEF IInv

\* Every step keeps the inductive invariant.
LEMMA StepIInv == IInv /\ [Next]_vars => IInv'
<1> SUFFICES ASSUME IInv, [Next]_vars PROVE IInv'
  OBVIOUS
<1>1. ShapeInv' /\ agent' = agent
  BY StepShape DEF IInv
<1>2. TitleInv'
  BY StepTitle DEF IInv
<1>3. AskInv'
  BY StepAsk DEF IInv
<1>4. ListInv'
  BY StepList DEF IInv
<1>5. GateInv'
  BY StepGate DEF IInv
<1>6. CASE HasWorkflow
  BY <1>1, <1>2, <1>3, <1>4, <1>5, <1>6, StepStep DEF IInv
<1>7. CASE ~HasWorkflow
  <2>1. StepInv'
    BY <1>1, <1>7 DEF StepInv, HasWorkflow
  <2> QED BY <1>1, <1>2, <1>3, <1>4, <1>5, <2>1 DEF IInv
<1> QED BY <1>6, <1>7

\* The inductive invariant always holds.
LEMMA IInvHolds == Spec => []IInv
BY InitIInv, StepIInv, PTL DEF Spec

\* agent_config.rs tool_auth_refusal, handler.rs build_auth_gate: on a public
\* agent no admin tool runs, and a tool for verified visitors runs only in a turn
\* begun after the service accepted a code of that session.
THEOREM GatesSound == Spec => []GateSound
<1>1. IInv => GateSound
  BY DEF IInv, GateInv
<1> QED BY <1>1, IInvHolds, PTL

\* runner.rs run_streaming_turn, extensions.rs extension_allowed: nothing runs
\* that the agent's list does not enable, nor an extension's tool unless server
\* and agent both allow the extension.
THEOREM AllowListsHold == Spec => []AllowListHolds
<1>1. IInv => AllowListHolds
  BY DEF IInv, ListInv, Listed, AllowListHolds
<1> QED BY <1>1, IInvHolds, PTL

\* agent_config.rs apply_step_cap, handler.rs persist_workflow_step: a step with
\* somewhere else to go is never stored with as many attempts as the cap, and never
\* held for more turns than the cap times one more than the accesses to the metadata
\* that failed or were out of date, however turns and reconnects interleave.
THEOREM StepsBounded == Spec => []StepBounded
<1>1. ASSUME IInv PROVE StepBounded
  <2> SUFFICES ASSUME HasWorkflow, NEW s \in Session, Leaves(row[s].meta.pointer)
               PROVE  /\ row[s].meta.pointer.attempts < StepAttemptCap
                      /\ history.held[s] < StepAttemptCap * (history.lost[s] + 1)
    BY DEF StepBounded, Leaves
  <2>1. /\ row[s].meta.pointer.attempts < StepAttemptCap
        /\ history.held[s] <= row[s].meta.pointer.attempts + StepAttemptCap * history.lost[s]
    BY <1>1 DEF IInv, StepInv
  <2>2. /\ row[s].meta.pointer.attempts \in Nat /\ history.held[s] \in Nat
        /\ history.lost[s] \in Nat /\ StepAttemptCap \in Nat
    BY <1>1, CapAssumption DEF IInv, ShapeInv, RowShape, MetaShape, PointerShape, HistoryShape
  <2> QED BY <2>1, <2>2, OneMore
<1> QED BY <1>1, IInvHolds, PTL

\* handler.rs maybe_auto_title: a name given by hand stays, unless it begins like a
\* default one, or the titler was past its second look when it came, or that look
\* failed.
THEOREM TitlesKept == Spec => []TitleKept
<1>1. Name("hand", FALSE).by = "hand"
  BY DEF Name
<1>2. IInv => TitleKept
  BY <1>1 DEF IInv, TitleInv, TitleKept
<1> QED BY <1>2, IInvHolds, PTL

\* runner.rs HostApprover: the calls the host asked about never outnumber the
\* approvals of humans.
THEOREM AsksFailClosed == Spec => []AskedFailsClosed
<1>1. ASSUME IInv PROVE AskedFailsClosed
  <2>1. /\ approver.verdicts \in Seq({"approved", "denied"})
        /\ history.approvals >= Cardinality(Approved(approver.verdicts)) /\ history.approvals \in Int
    BY <1>1 DEF IInv, AskInv, ShapeInv, HistoryShape
  <2>2. Cardinality(Approved(approver.verdicts)) \in Nat
    BY <2>1, ApprovedFinite
  <2> QED BY <2>1, <2>2 DEF AskedFailsClosed
<1> QED BY <1>1, IInvHolds, PTL

------------------------------------------------------------------------------
(* The replayed history.                                                    *)

\* A sequence p has what q has at the places I, each of them once.
Picks(p, q, I) ==
  /\ Cardinality(I) \in Nat /\ IsFiniteSet(I)
  /\ DOMAIN p = 1 .. Cardinality(I) /\ Len(p) = Cardinality(I)
  /\ \A k \in 1 .. Cardinality(I) : Nth(I, k) \in I /\ p[k] = q[Nth(I, k)]
  /\ \A k, l \in 1 .. Cardinality(I) : Nth(I, k) = Nth(I, l) => k = l
  /\ \A i \in I : \E k \in 1 .. Cardinality(I) : Nth(I, k) = i

\* Picked has an entry for each of the places, and one only.
LEMMA PickedAll ==
  ASSUME NEW q, NEW n \in Nat, NEW I, I \subseteq 1 .. n
  PROVE  Picks(Picked(q, I), q, I)
<1> DEFINE c == Cardinality(I)
           A(i) == {j \in I : j < i}
           f == [i \in I |-> Cardinality(A(i)) + 1]
<1>1. IsFiniteSet(I) /\ c \in Nat
  <2>1. IsFiniteSet(1 .. n)
    BY FS_Interval
  <2> QED BY <2>1, FS_Subset, FS_CardinalityType
<1>2. ASSUME NEW i \in I
      PROVE  IsFiniteSet(A(i)) /\ Cardinality(A(i)) \in Nat /\ Cardinality(A(i)) < c
  <2>1. A(i) \in SUBSET I /\ A(i) # I
    BY <1>2
  <2> HIDE DEF A
  <2>2. IsFiniteSet(A(i)) /\ Cardinality(A(i)) <= c /\ Cardinality(A(i)) # c
    BY <1>1, <2>1, FS_Subset
  <2>3. Cardinality(A(i)) \in Nat
    BY <2>2, FS_CardinalityType
  <2> QED BY <1>1, <2>2, <2>3
<1>3. f \in [I -> 1 .. c] /\ \A i \in I : f[i] = Cardinality(A(i)) + 1
  <2> HIDE DEF c, A
  <2> QED BY <1>1, <1>2
<1>4. ASSUME NEW a \in I, NEW b \in I, a < b PROVE f[a] < f[b]
  <2>0. a \in A(b) /\ a \notin A(a) /\ \A j \in I : j < a => j < b
    BY <1>4
  <2>1. A(a) \in SUBSET A(b) /\ A(a) # A(b)
    BY <2>0
  <2> HIDE DEF A
  <2>2. IsFiniteSet(A(b))
    BY <1>2
  <2>3. Cardinality(A(a)) <= Cardinality(A(b)) /\ Cardinality(A(a)) # Cardinality(A(b))
    BY <2>1, <2>2, FS_Subset
  <2> QED BY <1>2, <2>3
<1> HIDE DEF f
<1>5. \A a, b \in I : f[a] = f[b] => a = b
  <2> SUFFICES ASSUME NEW a \in I, NEW b \in I, f[a] = f[b] PROVE a = b
    OBVIOUS
  <2>1. f[a] \in Nat /\ f[b] \in Nat /\ a \in Nat /\ b \in Nat
    BY <1>1, <1>3
  <2>2. ~(a < b) /\ ~(b < a)
    BY <1>4, <2>1
  <2> QED BY <2>1, <2>2
<1>6. f \in Injection(I, 1 .. c)
  BY <1>3, <1>5 DEF Injection, IsInjective
<1>7. IsFiniteSet(1 .. c) /\ Cardinality(1 .. c) = c
  BY <1>1, FS_Interval
<1>8. f \in Surjection(I, 1 .. c)
  BY <1>1, <1>6, <1>7, FS_Injection
<1>9. \A k \in 1 .. c : \E i \in I : f[i] = k
  BY <1>8 DEF Surjection
<1>10. \A k \in 1 .. c : Nth(I, k) \in I /\ f[Nth(I, k)] = k
  <2> SUFFICES ASSUME NEW k \in 1 .. c PROVE Nth(I, k) \in I /\ f[Nth(I, k)] = k
    OBVIOUS
  <2>1. \A i \in I : f[i] = k <=> Cardinality(A(i)) = k - 1
    <3> HIDE DEF A, c
    <3> QED BY <1>1, <1>2, <1>3
  <2>2. \E i \in I : Cardinality(A(i)) = k - 1
    BY <1>9, <2>1
  <2>3. Nth(I, k) \in I /\ Cardinality(A(Nth(I, k))) = k - 1
    BY <2>2 DEF Nth
  <2> QED BY <2>1, <2>3
<1> HIDE DEF A, c
<1>11. \A i \in I : \E k \in 1 .. c : Nth(I, k) = i
  <2> SUFFICES ASSUME NEW i \in I PROVE \E k \in 1 .. c : Nth(I, k) = i
    OBVIOUS
  <2>1. f[i] \in 1 .. c
    BY <1>3
  <2>2. PICK k \in 1 .. c : k = f[i]
    BY <2>1
  <2>3. Nth(I, k) \in I /\ f[Nth(I, k)] = f[i]
    BY <1>10, <2>2
  <2> QED BY <1>5, <2>3
<1>12. \A k, l \in 1 .. c : Nth(I, k) = Nth(I, l) => k = l
  BY <1>10
<1>13. /\ DOMAIN Picked(q, I) = 1 .. c
       /\ \A k \in 1 .. c : Picked(q, I)[k] = q[Nth(I, k)]
  BY DEF Picked, c
<1>14. Len(Picked(q, I)) = c
  <2>1. Picked(q, I) = [k \in 1 .. c |-> q[Nth(I, k)]]
    BY DEF Picked, c
  <2> DEFINE T == {q[Nth(I, k)] : k \in 1 .. c}
  <2>2. Picked(q, I) \in [1 .. c -> T]
    BY <2>1
  <2>3. Picked(q, I) \in Seq(T)
    BY <1>1, <2>2, SeqDef
  <2> QED BY <1>1, <1>13, <2>3, LenProperties
<1> QED BY <1>1, <1>10, <1>11, <1>12, <1>13, <1>14 DEF c, Picks

\* The last ones of a set of places: those with few at or after them are few.
LEMMA LastFew ==
  ASSUME NEW n \in Nat, NEW I, I \subseteq 1 .. n, NEW m \in Nat,
         NEW K, K = {i \in I : Cardinality({j \in I : j >= i}) <= m}
  PROVE  IsFiniteSet(K) /\ Cardinality(K) \in Nat /\ Cardinality(K) <= m
<1>1. IsFiniteSet(I) /\ K \subseteq I /\ K \subseteq 1 .. n
  <2>1. IsFiniteSet(1 .. n)
    BY FS_Interval
  <2> QED BY <2>1, FS_Subset
<1>2. IsFiniteSet(K) /\ Cardinality(K) \in Nat
  <2>1. K \in SUBSET I
    BY <1>1
  <2>2. IsFiniteSet(K)
    BY <1>1, <2>1, FS_Subset
  <2>3. Cardinality(K) \in Nat
    BY ONLY <2>2, FS_CardinalityType
  <2> QED BY <2>2, <2>3
<1>3. CASE K = {}
  <2>1. Cardinality({}) = 0
    BY FS_EmptySet
  <2>2. Cardinality(K) = 0
    BY <1>3, <2>1
  <2> QED BY <1>2, <2>2
<1>4. CASE K # {}
  <2>1. PICK x \in K : \A y \in K : x <= y
    BY <1>1, <1>4, MinIn
  <2> DEFINE L == {j \in I : j >= x}
  <2>2. K \subseteq L /\ L \subseteq I /\ Cardinality(L) <= m
    <3>1. \A y \in K : y >= x /\ y \in I
      BY <1>1, <2>1
    <3> QED BY <2>1, <3>1
  <2>3. IsFiniteSet(L)
    BY <1>1, <2>2, FS_Subset
  <2> HIDE DEF L
  <2>4. Cardinality(K) <= Cardinality(L) /\ Cardinality(L) \in Nat
    BY <2>2, <2>3, FS_Subset, FS_CardinalityType
  <2> QED BY <1>2, <2>2, <2>4
<1> QED BY <1>2, <1>3, <1>4

\* What a turn should replay of these messages.
ToReplay(messages) == {m \in Range(messages) : m.dir # "error" /\ m.content # "file"}

\* The turn and direction of what a set of messages has.
Spoken(S) == {[dir |-> m.dir, n |-> m.n] : m \in S}

\* A conversation's messages are replayed each once, pictures up to the bound.
LEMMA PriorExact ==
  ASSUME NEW q, NEW bound, Kept(q, bound), NEW prior, prior = prior_messages_for_replay(q)
  PROVE  /\ Spoken(Range(prior)) = Spoken(ToReplay(q))
         /\ Len(prior) = Cardinality(ToReplay(q))
         /\ Cardinality({i \in DOMAIN prior : prior[i].content = "image"}) <= MaxReplayed
<1> DEFINE P == {i \in DOMAIN q : q[i].content = "image"}
           K == {i \in P : Cardinality({j \in P : j >= i}) <= MaxReplayed}
           w == [i \in DOMAIN q |-> IF i \in P \ K THEN [q[i] EXCEPT !.content = "note"] ELSE q[i]]
           I == {i \in DOMAIN q : q[i].dir # "error" /\ q[i].content # "file"}
           c == Cardinality(I)
           T == ToReplay(q)
<1>1. prior = Picked(w, I)
  BY DEF prior_messages_for_replay
<1>2. Len(q) \in Nat /\ DOMAIN q = 1 .. Len(q)
  BY LenProperties DEF Kept
<1>3. /\ I \subseteq 1 .. Len(q) /\ P \subseteq 1 .. Len(q) /\ K \subseteq P
      /\ \A i \in DOMAIN q : DOMAIN q[i] = {"dir", "n", "content"}
      /\ \A i, j \in DOMAIN q : q[i].dir = q[j].dir /\ q[i].n = q[j].n => i = j
  BY <1>2 DEF Kept
<1>4. \A i \in DOMAIN q : /\ w[i].dir = q[i].dir /\ w[i].n = q[i].n
                          /\ w[i].content = "image" => i \in K
  <2> SUFFICES ASSUME NEW i \in DOMAIN q
               PROVE  /\ w[i].dir = q[i].dir /\ w[i].n = q[i].n
                      /\ w[i].content = "image" => i \in K
    OBVIOUS
  <2>1. i \in P <=> q[i].content = "image"
    OBVIOUS
  <2>2. w[i] = IF i \in P \ K THEN [q[i] EXCEPT !.content = "note"] ELSE q[i]
    OBVIOUS
  <2> HIDE DEF P, K, w
  <2>3. CASE i \in P \ K
    BY <1>3, <2>2, <2>3
  <2>4. CASE i \notin P \ K
    BY <2>1, <2>2, <2>4
  <2> QED BY <2>3, <2>4
<1>5. /\ \A i \in I : i \in DOMAIN q /\ q[i] \in T
      /\ \A m \in T : \E i \in I : q[i] = m
  BY DEF ToReplay, Range
<1>6. IsFiniteSet(K) /\ Cardinality(K) \in Nat /\ Cardinality(K) <= MaxReplayed
  <2>1. MaxReplayed \in Nat
    BY TurnAssumption
  <2>2. PICK n \in Nat, m \in Nat : n = Len(q) /\ m = MaxReplayed
    BY <1>2, <2>1
  <2>3. PICK L : L = {i \in P : Cardinality({j \in P : j >= i}) <= m}
    OBVIOUS
  <2>4. P \subseteq 1 .. n /\ L = K
    BY <1>3, <2>2, <2>3
  <2> HIDE DEF P
  <2>5. IsFiniteSet(L) /\ Cardinality(L) \in Nat /\ Cardinality(L) <= m
    BY ONLY n \in Nat, m \in Nat, <2>3, <2>4, LastFew
  <2> QED BY <2>2, <2>4, <2>5
<1> HIDE DEF I, K, P, w, T
<1>7. /\ c \in Nat /\ IsFiniteSet(I) /\ DOMAIN prior = 1 .. c /\ Len(prior) = c
      /\ \A k \in 1 .. c : Nth(I, k) \in I /\ prior[k] = w[Nth(I, k)]
      /\ \A k, l \in 1 .. c : Nth(I, k) = Nth(I, l) => k = l
      /\ \A i \in I : \E k \in 1 .. c : Nth(I, k) = i
  <2>1. PICK n \in Nat : n = Len(q)
    BY <1>2
  <2>2. I \subseteq 1 .. n
    BY <1>3, <2>1
  <2>3. Picks(Picked(w, I), w, I)
    BY <2>2, PickedAll
  <2>4. Picks(prior, w, I)
    BY <1>1, <2>3
  <2> QED BY <2>4 DEF Picks
<1> HIDE DEF c
<1>8. Spoken(Range(prior)) = Spoken(T)
  <2>1. \A m \in Range(prior) : \E e \in T : e.dir = m.dir /\ e.n = m.n
    <3> SUFFICES ASSUME NEW k \in 1 .. c PROVE \E e \in T : e.dir = prior[k].dir /\ e.n = prior[k].n
      BY <1>7 DEF Range
    <3>1. Nth(I, k) \in I /\ prior[k] = w[Nth(I, k)]
      BY <1>7
    <3> QED BY <1>4, <1>5, <3>1
  <2>2. \A e \in T : \E m \in Range(prior) : e.dir = m.dir /\ e.n = m.n
    <3> SUFFICES ASSUME NEW e \in T PROVE \E m \in Range(prior) : e.dir = m.dir /\ e.n = m.n
      OBVIOUS
    <3>1. PICK i \in I : q[i] = e
      BY <1>5
    <3>2. PICK k \in 1 .. c : Nth(I, k) = i
      BY <1>7
    <3>3. prior[k] = w[i] /\ prior[k] \in Range(prior)
      BY <1>7, <3>2 DEF Range
    <3> QED BY <1>4, <1>5, <3>1, <3>3
  <2> QED BY <2>1, <2>2 DEF Spoken
<1>9. Cardinality(T) = c
  <2> DEFINE g == [i \in I |-> q[i]]
  <2>1. g \in [I -> T]
    BY <1>5
  <2>2. \A i, j \in I : g[i] = g[j] => i = j
    BY <1>3, <1>5
  <2>3. \A m \in T : \E i \in I : g[i] = m
    BY <1>5
  <2> HIDE DEF g
  <2>4. g \in Bijection(I, T)
    BY <2>1, <2>2, <2>3 DEF Bijection, Injection, IsInjective, Surjection
  <2>5. ExistsBijection(I, T)
    BY <2>4 DEF ExistsBijection
  <2> QED BY <1>7, <2>5, FS_Bijection DEF c
<1>10. Cardinality({k \in DOMAIN prior : prior[k].content = "image"}) <= MaxReplayed
  <2> DEFINE J == {k \in DOMAIN prior : prior[k].content = "image"}
             h == [k \in J |-> Nth(I, k)]
  <2>1. \A k \in J : k \in 1 .. c /\ Nth(I, k) \in K
    <3> SUFFICES ASSUME NEW k \in 1 .. c, prior[k].content = "image" PROVE Nth(I, k) \in K
      BY <1>7
    <3> QED BY <1>4, <1>5, <1>7
  <2> HIDE DEF J
  <2>2. h \in Injection(J, K)
    <3>1. h \in [J -> K]
      BY <2>1
    <3>2. \A a, b \in J : h[a] = h[b] => a = b
      BY <1>7, <2>1
    <3> QED BY <3>1, <3>2 DEF Injection, IsInjective
  <2> HIDE DEF h
  <2>3. IsFiniteSet(J) /\ Cardinality(J) <= Cardinality(K)
    BY <1>6, <2>2, FS_Injection
  <2>4. Cardinality(J) \in Nat /\ MaxReplayed \in Nat
    BY <2>3, FS_CardinalityType, TurnAssumption
  <2>5. Cardinality(J) <= MaxReplayed
    BY <1>6, <2>3, <2>4
  <2> QED BY <2>5 DEF J
<1> QED BY <1>7, <1>8, <1>9, <1>10 DEF T

\* A turn's message is added to the log.
LEMMA KeptAppend ==
  ASSUME NEW q, NEW bound \in Nat, Kept(q, bound), NEW dir, NEW n \in Nat, n > bound, NEW content,
         \A i \in DOMAIN q : ~(q[i].dir = dir /\ q[i].n = n)
  PROVE  /\ Kept(Append(q, Message(dir, n, content)), bound)
         /\ Range(Append(q, Message(dir, n, content))) = Range(q) \cup {Message(dir, n, content)}
<1> DEFINE e == Message(dir, n, content)
           p == Append(q, e)
           S == Range(q) \cup {e}
<1>1. e.dir = dir /\ e.n = n /\ DOMAIN e = {"dir", "n", "content"}
  BY DEF Message
<1> HIDE DEF e
<1>2. q \in Seq(S) /\ e \in S /\ Len(q) \in Nat /\ DOMAIN q = 1 .. Len(q)
  <2>1. q \in Seq(Range(q)) /\ Range(q) \subseteq S
    BY DEF Kept
  <2>2. Len(q) \in Nat /\ DOMAIN q = 1 .. Len(q) /\ q \in [1 .. Len(q) -> Range(q)]
    BY <2>1, LenProperties
  <2>3. q \in [1 .. Len(q) -> S]
    BY <2>1, <2>2
  <2> QED BY <2>2, <2>3, SeqDef
<1>3. /\ p \in Seq(S) /\ Len(p) = Len(q) + 1 /\ DOMAIN p = 1 .. (Len(q) + 1)
      /\ p[Len(q) + 1] = e /\ \A i \in 1 .. Len(q) : p[i] = q[i]
  BY <1>2, AppendProperties, LenProperties
<1> HIDE DEF p
<1>4. \A i \in DOMAIN p : (i \in DOMAIN q /\ p[i] = q[i]) \/ (i = Len(q) + 1 /\ p[i] = e)
  BY <1>2, <1>3
<1>5. \A i \in DOMAIN q : i \in DOMAIN p /\ p[i] = q[i]
  BY <1>2, <1>3
<1>6. Len(q) + 1 \in DOMAIN p
  BY <1>2, <1>3
<1>7. Range(p) = S
  BY <1>3, <1>4, <1>5, <1>6 DEF Range
<1>8. ASSUME NEW i \in DOMAIN p
      PROVE  DOMAIN p[i] = {"dir", "n", "content"} /\ p[i].n \in Nat /\ p[i].n > bound
  BY <1>1, <1>4 DEF Kept
<1>9. ASSUME NEW i \in DOMAIN p, NEW j \in DOMAIN p, p[i].dir = p[j].dir, p[i].n = p[j].n
      PROVE  i = j
  <2>1. CASE i \in DOMAIN q /\ p[i] = q[i]
    <3>1. CASE j \in DOMAIN q /\ p[j] = q[j]
      BY <1>9, <2>1, <3>1 DEF Kept
    <3>2. CASE p[j] = e
      BY <1>1, <1>9, <2>1, <3>2
    <3> QED BY <1>4, <3>1, <3>2
  <2>2. CASE i = Len(q) + 1 /\ p[i] = e
    <3>1. CASE j \in DOMAIN q /\ p[j] = q[j]
      BY <1>1, <1>9, <2>2, <3>1
    <3>2. CASE j = Len(q) + 1
      BY <2>2, <3>2
    <3> QED BY <1>4, <3>1, <3>2
  <2> QED BY <1>4, <2>1, <2>2
<1>10. p \in Seq(Range(p))
  BY <1>3, <1>7
<1> QED BY <1>7, <1>8, <1>9, <1>10 DEF Kept, p, e

\* The messages of the page that a turn reads.
Early(messages) == {messages[i] : i \in {j \in DOMAIN messages : j <= MaxPrior}}

\* The page has them, in a log that is fit to be replayed.
LEMMA PageRead ==
  ASSUME NEW q, NEW bound, Kept(q, bound)
  PROVE  \E page : /\ Kept(page, bound) /\ Range(page) = Early(q)
                   /\ load_prior_messages(q) = prior_messages_for_replay(page)
<1> DEFINE S == Range(q)
           m == IF MaxPrior < Len(q) THEN MaxPrior ELSE Len(q)
           p == SubSeq(q, 1, m)
<1>1. q \in Seq(S) /\ Len(q) \in Nat /\ DOMAIN q = 1 .. Len(q) /\ MaxPrior \in Nat
  BY LenProperties, TurnAssumption DEF Kept
<1> HIDE DEF S
<1>2. m \in Nat /\ m <= Len(q)
  BY <1>1
<1>3. \A i \in DOMAIN q : i <= MaxPrior <=> i \in 1 .. m
  BY <1>1
<1> HIDE DEF m
<1>4. /\ \A i \in 1 .. m : i \in DOMAIN q /\ q[i] \in S
      /\ \A i \in 1 .. m : i \in 1 .. Len(q)
  BY <1>1, <1>2, ElementOfSeq
<1>5. p \in Seq(S) /\ Len(p) = m /\ \A i \in 1 .. m : p[i] = q[i]
  BY <1>1, <1>2, <1>4, SMT
<1>6. DOMAIN p = 1 .. m
  BY <1>5, LenProperties
<1>7. load_prior_messages(q) = prior_messages_for_replay(p)
  BY DEF load_prior_messages, m
<1> HIDE DEF p
<1>8. Range(p) = Early(q)
  BY <1>3, <1>4, <1>5, <1>6 DEF Range, Early
<1>9. p \in Seq(Range(p))
  <2>1. p \in [1 .. m -> Range(p)]
    <3>1. p \in [1 .. m -> S]
      BY <1>5, <1>6, LenProperties
    <3> QED BY <1>6, <3>1 DEF Range
  <2> QED BY <1>2, <2>1, SeqDef
<1>10. Kept(p, bound)
  BY <1>4, <1>5, <1>6, <1>9 DEF Kept
<1> QED BY <1>7, <1>8, <1>10

\* A message more changes the page by that message at most.
LEMMA EarlyAppend ==
  ASSUME NEW q, NEW bound, Kept(q, bound), NEW e
  PROVE  Early(q) \subseteq Early(Append(q, e)) /\ Early(Append(q, e)) \subseteq Early(q) \cup {e}
<1> DEFINE S == Range(q) \cup {e}
           p == Append(q, e)
<1>1. q \in Seq(Range(q)) /\ Len(q) \in Nat /\ DOMAIN q = 1 .. Len(q)
      /\ q \in [1 .. Len(q) -> Range(q)]
  BY LenProperties DEF Kept
<1>2. q \in Seq(S) /\ e \in S
  <2>1. q \in [1 .. Len(q) -> S]
    BY <1>1
  <2> QED BY <1>1, <2>1, SeqDef
<1>3. /\ p \in Seq(S) /\ DOMAIN p = 1 .. (Len(q) + 1)
      /\ p[Len(q) + 1] = e /\ \A i \in 1 .. Len(q) : p[i] = q[i]
  BY <1>2, AppendProperties, LenProperties
<1> HIDE DEF p, S
<1>4. \A i \in DOMAIN q : i \in DOMAIN p /\ p[i] = q[i]
  BY <1>1, <1>3
<1>5. \A i \in DOMAIN p : i \in DOMAIN q \/ p[i] = e
  BY <1>1, <1>3
<1>6. Early(q) \subseteq Early(p)
  BY <1>4 DEF Early
<1>7. Early(p) \subseteq Early(q) \cup {e}
  BY <1>4, <1>5 DEF Early
<1> QED BY <1>6, <1>7 DEF p

\* What ReplayExact says of a turn's prior, its log and its number.
Replays(prior, messages, n) ==
  LET said == {m \in Early(messages) : m.n # n /\ m.dir # "error" /\ m.content # "file"}
  IN /\ Spoken(Range(prior)) = Spoken(said)
     /\ Len(prior) = Cardinality(said)
     /\ Cardinality({i \in DOMAIN prior : prior[i].content = "image"}) <= MaxReplayed

\* A session's turn t fits its log: a turn has a number that no earlier one had,
\* has stored nothing before it is prepared and only its own message while it
\* runs, and replays what is to be replayed.
Fits(t, messages, bound) ==
  /\ Kept(messages, bound)
  /\ t.at \in Gating =>
       /\ t.n > bound
       /\ \A m \in Range(messages) : m.n = t.n => m.dir = "in" /\ t.at # "prepare"
  /\ t.at \in {"running", "asking"} => Replays(t.prior, messages, t.n)

\* Behind ReplayExact.
ReplayInv ==
  /\ DOMAIN log = Session
  /\ \A s \in Session : Fits(turn[s], log[s], budget.turns)

\* The numbers of turns only go down.
LEMMA FitsLower ==
  ASSUME NEW t, NEW q, NEW b \in Nat, NEW d \in Nat, d <= b, Fits(t, q, b),
         t.at \in Gating => t.n \in Nat
  PROVE  Fits(t, q, d)
<1>1. Kept(q, d)
  BY DEF Fits, Kept
<1>2. t.at \in Gating => t.n > d
  BY DEF Fits
<1> QED BY <1>1, <1>2 DEF Fits

\* A turn that is over, or goes on as it was, fits the log it fitted.
LEMMA FitsOn ==
  ASSUME NEW t, NEW u, NEW q, NEW b, Fits(t, q, b),
         \/ u.at \notin Gating
         \/ /\ t.at \in {"running", "asking"} /\ u.at \in {"running", "asking"}
            /\ u.n = t.n /\ u.prior = t.prior
  PROVE  Fits(u, q, b)
<1>1. CASE u.at \notin Gating
  BY <1>1 DEF Fits, Gating
<1>2. CASE /\ t.at \in {"running", "asking"} /\ u.at \in {"running", "asking"}
           /\ u.n = t.n /\ u.prior = t.prior
  <2>1. t.at \in Gating /\ u.at # "prepare"
    BY <1>2 DEF Gating
  <2> QED BY <1>2, <2>1 DEF Fits
<1> QED BY <1>1, <1>2

\* The turn is prepared: its own message is stored after the history was read.
LEMMA FitsPrepared ==
  ASSUME NEW t, NEW u, NEW q, NEW b \in Nat, Fits(t, q, b), t.at = "prepare", t.n \in Nat, NEW content,
         u.at = "running", u.n = t.n, u.prior = load_prior_messages(q)
  PROVE  Fits(u, Append(q, Message("in", t.n, content)), b)
<1> DEFINE e == Message("in", t.n, content)
           p == Append(q, e)
           said == {m \in Early(p) : m.n # t.n /\ m.dir # "error" /\ m.content # "file"}
<1>1. Kept(q, b) /\ t.n > b /\ \A m \in Range(q) : m.n # t.n
  BY DEF Fits, Gating
<1>2. \A i \in DOMAIN q : ~(q[i].dir = "in" /\ q[i].n = t.n)
  BY <1>1 DEF Range
<1>3. Kept(p, b) /\ Range(p) = Range(q) \cup {e}
  BY <1>1, <1>2, KeptAppend
<1>4. e.n = t.n /\ e.dir = "in"
  BY DEF Message
<1> HIDE DEF e, p
<1>5. PICK page : /\ Kept(page, b) /\ Range(page) = Early(q)
                  /\ load_prior_messages(q) = prior_messages_for_replay(page)
  BY <1>1, PageRead
<1>6. Early(q) \subseteq Early(p) /\ Early(p) \subseteq Early(q) \cup {e}
  BY <1>1, EarlyAppend DEF p
<1>7. \A m \in Early(q) : m.n # t.n
  BY <1>1 DEF Early, Range
<1>8. said = ToReplay(page)
  BY <1>4, <1>5, <1>6, <1>7 DEF ToReplay
<1>9. PICK prior : prior = prior_messages_for_replay(page)
  OBVIOUS
<1>10. /\ Spoken(Range(prior)) = Spoken(ToReplay(page))
       /\ Len(prior) = Cardinality(ToReplay(page))
       /\ Cardinality({i \in DOMAIN prior : prior[i].content = "image"}) <= MaxReplayed
  BY <1>9, <1>5, PriorExact
<1>11. Replays(prior, p, t.n)
  BY <1>8, <1>10 DEF Replays
<1>12. \A m \in Range(p) : m.n = t.n => m.dir = "in" /\ u.at # "prepare"
  BY <1>1, <1>3, <1>4
<1> QED BY <1>1, <1>3, <1>9, <1>11, <1>12, <1>5 DEF Fits, p, e

\* A reply or a turn-error record is stored, and the loop is over.
LEMMA FitsEnded ==
  ASSUME NEW t, NEW u, NEW q, NEW b \in Nat, Fits(t, q, b), t.at \in Gating, t.n \in Nat,
         NEW dir, dir # "in", u.at \notin Gating
  PROVE  Fits(u, Append(q, Message(dir, t.n, "text")), b)
<1>1. Kept(q, b) /\ t.n > b /\ \A m \in Range(q) : m.n = t.n => m.dir = "in"
  BY DEF Fits
<1>2. \A i \in DOMAIN q : ~(q[i].dir = dir /\ q[i].n = t.n)
  BY <1>1 DEF Range
<1>3. Kept(Append(q, Message(dir, t.n, "text")), b)
  BY <1>1, <1>2, KeptAppend
<1> QED BY <1>3 DEF Fits, Gating

\* The steps that store a message.
LEMMA LogCases ==
  ASSUME [Next]_vars
  PROVE  \/ \E s \in Session : \/ Prepare(s) \/ FailRun(s)
                               \/ \E replied, verdict : FinishRun(s, replied, verdict)
         \/ log' = log
BY DEF Next, SendMessage, ReadPointer, WritePointer, CallTool, AskHost, Respond, TakeVerdict,
       AskTimesOut, ConfirmHost, Renamed, Rename, ResumeRead, VerifyOtp, Drain, vars, TitleLook, TitleModel, TitleRecheck,
       TitleWrite, ResumeWrite, SaveSettings

\* Every step keeps the turns fit.
LEMMA StepReplay ==
  ASSUME ShapeInv, ReplayInv, [Next]_vars
  PROVE  ReplayInv'
<1> DEFINE b == budget.turns
           Fit(s) == Fits(turn'[s], log'[s], b)
           Goal == DOMAIN log' = Session /\ \A s \in Session : Fits(turn'[s], log'[s], budget'.turns)
<1>0. b \in Nat /\ DOMAIN log = Session /\ \A s \in Session : Fits(turn[s], log[s], b)
  BY DEF ShapeInv, HistoryShape, ReplayInv
<1>1. budget'.turns \in Nat /\ budget'.turns <= b
  BY StepBudget
<1>2. \A s \in Session : /\ turn[s].at \in Gating => turn[s].n \in Nat
                         /\ turn'[s].at \in Gating => turn'[s].n \in Nat
  <2>1. TurnShape /\ TurnShape'
    BY StepShape DEF ShapeInv
  <2> QED BY <2>1 DEF TurnShape, Gating, Pointing
<1> HIDE DEF b
<1>3. ASSUME DOMAIN log' = Session, \A s \in Session : Fit(s) PROVE Goal
  <2> SUFFICES ASSUME NEW s \in Session PROVE Fits(turn'[s], log'[s], budget'.turns)
    BY <1>3
  <2>1. PICK t, q, d : t = turn'[s] /\ q = log'[s] /\ d = budget'.turns
    OBVIOUS
  <2>2. Fits(t, q, b) /\ d \in Nat /\ d <= b /\ (t.at \in Gating => t.n \in Nat)
    BY <1>1, <1>2, <1>3, <2>1
  <2>3. Fits(t, q, d)
    BY <1>0, <2>2, FitsLower
  <2> QED BY <2>1, <2>3
<1>4. ASSUME NEW s \in Session, OnlyTurn(s), Fit(s), DOMAIN log' = Session,
             \A u \in Session \ {s} : log'[u] = log[u]
      PROVE  Goal
  <2>1. \A u \in Session : Fit(u)
    BY <1>0, <1>4 DEF OnlyTurn
  <2> QED BY <1>3, <1>4, <2>1
<1>5. ASSUME log' = log, turn' = turn PROVE Goal
  BY <1>0, <1>3, <1>5
<1>6. ASSUME NEW s \in Session, OnlyTurn(s), log' = log,
             \/ turn'[s].at \notin Gating
             \/ /\ turn[s].at \in {"running", "asking"} /\ turn'[s].at \in {"running", "asking"}
                /\ turn'[s].n = turn[s].n /\ turn'[s].prior = turn[s].prior
      PROVE  Goal
  <2>1. PICK t, u : t = turn[s] /\ u = turn'[s]
    OBVIOUS
  <2>2. Fits(t, log[s], b)
    BY <1>0, <2>1
  <2>3. Fits(u, log[s], b)
    BY <1>6, <2>1, <2>2, FitsOn
  <2> QED BY <1>0, <1>4, <1>6, <2>1, <2>3
<1>7. ASSUME NEW s \in Session, NEW f \in Frame, SendMessage(s, f) PROVE Goal
  <2>1. /\ OnlyTurn(s) /\ turn'[s].at = "prepare" /\ turn'[s].n = b /\ log' = log
        /\ budget'.turns < b
    BY <1>7, SendEffect, StepBudget DEF SendMessage, b
  <2>2. \A m \in Range(log[s]) : m.n > b /\ m.n \in Nat
    BY <1>0 DEF Fits, Kept, Range
  <2>3. PICK t, q, d : t = turn'[s] /\ q = log[s] /\ d = budget'.turns
    OBVIOUS
  <2>4. Kept(q, d)
    <3>1. Kept(q, b)
      BY <1>0, <2>3 DEF Fits
    <3>2. d \in Nat /\ d <= b
      BY <1>1, <2>3
    <3> QED BY <1>0, <3>1, <3>2 DEF Kept
  <2>5. \A m \in Range(q) : m.n # t.n
    BY <1>0, <2>1, <2>2, <2>3
  <2>6. Fits(t, q, d)
    BY <2>1, <2>3, <2>4, <2>5 DEF Fits
  <2>7. ASSUME NEW u \in Session \ {s} PROVE Fits(turn'[u], log'[u], d)
    <3>1. PICK v, p : v = turn[u] /\ p = log[u]
      OBVIOUS
    <3>2. Fits(v, p, b) /\ d \in Nat /\ d <= b /\ (v.at \in Gating => v.n \in Nat)
      BY <1>0, <1>1, <1>2, <2>3, <3>1
    <3>3. Fits(v, p, d)
      BY <1>0, <3>2, FitsLower
    <3> QED BY <2>1, <3>1, <3>3 DEF OnlyTurn
  <2> QED BY <1>0, <2>1, <2>3, <2>6, <2>7
<1>8. ASSUME NEW s \in Session, NEW e, log' = [log EXCEPT ![s] = Append(@, e)]
      PROVE  /\ DOMAIN log' = Session /\ log'[s] = Append(log[s], e)
             /\ \A u \in Session \ {s} : log'[u] = log[u]
  BY <1>0, <1>8
<1>9. ASSUME NEW s \in Session, Prepare(s) PROVE Goal
  <2>1. /\ OnlyTurn(s) /\ turn'[s].at = "running" /\ turn'[s].n = turn[s].n /\ turn[s].at = "prepare"
        /\ turn'[s].prior = load_prior_messages(log[s])
    BY <1>9, PrepareEffect
  <2>2. PICK t, u, q, content : /\ t = turn[s] /\ u = turn'[s] /\ q = log[s]
                                /\ content = turn[s].frame.content
    OBVIOUS
  <2>3. log' = [log EXCEPT ![s] = Append(@, Message("in", t.n, content))]
    BY <1>9, <2>2 DEF Prepare
  <2>4. /\ DOMAIN log' = Session /\ log'[s] = Append(q, Message("in", t.n, content))
        /\ \A v \in Session \ {s} : log'[v] = log[v]
    BY <1>8, <2>2, <2>3
  <2>5. Fits(t, q, b) /\ t.n \in Nat
    BY <1>0, <1>2, <2>1, <2>2 DEF Gating
  <2>6. u.at = "running" /\ u.n = t.n /\ u.prior = load_prior_messages(q) /\ t.at = "prepare"
    BY <2>1, <2>2
  <2>7. Fits(u, Append(q, Message("in", t.n, content)), b)
    BY <1>0, <2>5, <2>6, FitsPrepared
  <2> QED BY <1>4, <2>1, <2>2, <2>4, <2>7
<1>10. ASSUME NEW s \in Session, OnlyTurn(s), turn[s].at \in Gating, turn'[s].at \notin Gating,
              NEW dir, dir # "in", log' = [log EXCEPT ![s] = Append(@, Message(dir, turn[s].n, "text"))]
       PROVE  Goal
  <2>1. PICK t, u, q : t = turn[s] /\ u = turn'[s] /\ q = log[s]
    OBVIOUS
  <2>2. /\ DOMAIN log' = Session /\ log'[s] = Append(q, Message(dir, t.n, "text"))
        /\ \A v \in Session \ {s} : log'[v] = log[v]
    BY <1>8, <1>10, <2>1
  <2>3. Fits(t, q, b) /\ t.n \in Nat /\ t.at \in Gating /\ u.at \notin Gating
    BY <1>0, <1>2, <1>10, <2>1
  <2>4. Fits(u, Append(q, Message(dir, t.n, "text")), b)
    BY <1>0, <1>10, <2>3, FitsEnded
  <2> QED BY <1>4, <1>10, <2>1, <2>2, <2>4
<1> HIDE DEF Goal
<1>11. ASSUME NEW s \in Session, FailRun(s) PROVE Goal
  <2>1. OnlyTurn(s) /\ turn'[s].at \notin Gating /\ turn[s].at \in Gating
    BY <1>11, FailEffect DEF FailRun, Gating
  <2>2. \/ log' = [log EXCEPT ![s] = Append(@, Message("error", turn[s].n, "text"))]
        \/ log' = log
    BY <1>11 DEF FailRun
  <2> QED BY <1>6, <1>10, <2>1, <2>2
<1>12. ASSUME NEW s \in Session, NEW replied, NEW verdict, FinishRun(s, replied, verdict) PROVE Goal
  <2>1. OnlyTurn(s) /\ turn'[s].at \notin Gating /\ turn[s].at \in Gating
    BY <1>12, FinishEffect DEF Gating
  <2>2. \/ log' = [log EXCEPT ![s] = Append(@, Message("out", turn[s].n, "text"))]
        \/ log' = log
    BY <1>12 DEF FinishRun
  <2> QED BY <1>6, <1>10, <2>1, <2>2
<1>13. ASSUME log' = log, NEW s \in Session, NEW at \in {"running", "asking"}, Goes(s, at),
              turn[s].at \in {"running", "asking"}
       PROVE  Goal
  BY <1>6, <1>13 DEF Goes
<1>14. ASSUME log' = log PROVE Goal
  <2>1. ASSUME NEW s \in Session, WritePointer(s) \/ Respond(s) \/ ReadPointer(s) PROVE Goal
    <3>1. OnlyTurn(s) /\ turn'[s].at \notin Gating
      BY <2>1, WriteEffect, RespondEffect, ReadEffect DEF Gating
    <3> QED BY <1>6, <1>14, <3>1
  <2>2. ASSUME NEW s \in Session, AskTimesOut(s) PROVE Goal
    BY <1>13, <1>14, <2>2, AskEffect
  <2>3. ASSUME NEW s \in Session, TakeVerdict(s) PROVE Goal
    BY <1>13, <1>14, <2>3, VerdictEffect
  <2>4. ASSUME NEW s \in Session, NEW tool, AskHost(s, tool) PROVE Goal
    BY <1>13, <1>14, <2>4, AskEffect
  <2>5. ASSUME NEW s \in Session, NEW tool, CallTool(s, tool) PROVE Goal
    BY <1>13, <1>14, <2>5, CallEffect
  <2> QED BY <1>5, <1>7, <1>9, <1>11, <1>12, <1>14, <2>1, <2>2, <2>3, <2>4, <2>5, TurnCases
<1>15. Goal
  BY <1>9, <1>11, <1>12, <1>14, LogCases
<1> QED BY <1>15 DEF Goal, ReplayInv

\* The turns fit their logs at the start.
LEMMA InitReplay ==
  ASSUME Init
  PROVE  ReplayInv
<1>1. PICK past \in Past : log = [s \in Session |-> past.log]
  BY DEF Init
<1>2. Kept(past.log, MaxTurns)
  BY PastAssumption
<1>3. budget.turns = MaxTurns
  BY DEF Init
<1>4. \A s \in Session : turn[s].at = "none"
  BY InitShape
<1> QED BY <1>1, <1>2, <1>3, <1>4 DEF ReplayInv, Fits, Gating

\* runner.rs load_prior_messages: a running turn replays what earlier turns of its
\* conversation said among its first MaxPrior messages, each message once, never its
\* own, never a turn-error record, and at most MaxReplayed pictures, whatever
\* happened to the conversation before.
THEOREM ReplaysExact == Spec => []ReplayExact
<1>1. Init => ReplayInv
  BY InitReplay
<1>2. IInv /\ ReplayInv /\ [Next]_vars => ReplayInv'
  BY StepReplay DEF IInv
<1>3. ASSUME ReplayInv PROVE ReplayExact
  <2> SUFFICES ASSUME NEW s \in Session, turn[s].at \in {"running", "asking"},
                      {i \in DOMAIN log[s] : log[s][i].n # turn[s].n} \subseteq 1 .. MaxPrior
               PROVE  LET prior == turn[s].prior
                          before == {i \in DOMAIN log[s] : log[s][i].n # turn[s].n}
                          said == {m \in {log[s][i] : i \in before} :
                                     m.dir # "error" /\ m.content # "file"}
                      IN /\ Spoken(Range(prior)) = Spoken(said)
                         /\ Len(prior) = Cardinality(said)
                         /\ Cardinality({i \in DOMAIN prior : prior[i].content = "image"}) <= MaxReplayed
    BY DEF ReplayExact, Spoken
  <2>1. Replays(turn[s].prior, log[s], turn[s].n)
    BY <1>3 DEF ReplayInv, Fits
  <2>2. {m \in Early(log[s]) : m.n # turn[s].n /\ m.dir # "error" /\ m.content # "file"}
        = {m \in {log[s][i] : i \in {i \in DOMAIN log[s] : log[s][i].n # turn[s].n}} :
             m.dir # "error" /\ m.content # "file"}
    BY DEF Early
  <2> QED BY <2>1, <2>2 DEF Replays
<1> QED BY <1>1, <1>2, <1>3, IInvHolds, PTL DEF Spec

===============================================================================

------------------------------ MODULE AgentTurn ------------------------------
(***************************************************************************)
(* What one server process makes of an agent's turns: the tools a turn     *)
(* offers and may call, the prompt and the history it replays, the         *)
(* workflow step it leaves behind, the title it gives the conversation,    *)
(* the code it offers, and the host's approval prompts.                    *)
(*                                                                         *)
(* Every session here has a conversation of its own, and the claim of      *)
(* RunningTurns: one turn of it at a time.  Turns of different sessions    *)
(* run side by side.  A step ends where the code awaits storage, a model   *)
(* or a human.  Cancels are left to ConnectionTurns.                       *)
(*                                                                         *)
(* Frames that are refused (no requestId, an unknown session or skill, no  *)
(* gateway key, a claim that is taken) change nothing and are not actions. *)
(***************************************************************************)
EXTENDS AgentConfig

CONSTANTS
  Session,
  Row,        \* the agents' rows; None is a session without an agent
  Past,       \* what may have happened to a conversation before: [log, coded], its
              \*   messages and whether a code was sent
  Frame,      \* what send_message may carry: [content, skill, model]
  Setting,    \* settings an admin may save: [persona, model, tools]
  Supports,   \* capability lists a reconnect may declare
  Deployment, \* how the process may be set up: [builtin, host_tools, extensions, allow,
              \*   auth_tools, persona, contact, approver, titles]
  MaxReplayed,              \* MAX_REPLAYED_IMAGE_MESSAGES, 3 in the code
  MaxPrior,                 \* MAX_PRIOR_MESSAGES, 50 in the code
  MaxTurns, MaxCalls, MaxEvents   \* bounds: turns, tool calls, outside events

ASSUME TurnAssumption == {MaxReplayed, MaxPrior, MaxTurns, MaxCalls, MaxEvents} \subseteq Nat

\* The messages of a conversation: an earlier turn, whose number is above the
\* bound, left one of a kind at most.
Kept(messages, bound) ==
  /\ messages \in Seq(Range(messages))
  /\ \A i \in DOMAIN messages :
       /\ DOMAIN messages[i] = {"dir", "n", "content"}
       /\ messages[i].n \in Nat /\ messages[i].n > bound
       /\ \A j \in DOMAIN messages :
            messages[i].dir = messages[j].dir /\ messages[i].n = messages[j].n => i = j
ASSUME PastAssumption == \A past \in Past : Kept(past.log, MaxTurns)

\* The auth level an agent gives a tool: that of the last entry naming it.
Level(cfg, tool) ==
  LET mine == {i \in 1 .. Len(cfg.tools) : cfg.tools[i].tool_id = tool}
  IN IF mine = {} THEN "none" ELSE cfg.tools[Max(mine)].auth_level

\* An absent value is neither a list of names nor an auth gate; the tools, and a
\* workflow that parses, are lists.
ASSUME RowAssumption ==
  \A r \in Row \ {None} :
    LET cfg == from_row_values(r)
    IN /\ cfg.tools \in Seq(Range(cfg.tools))
       /\ cfg.tools # <<>> => enabled_tool_ids(cfg) # None
       /\ enabled_extension_ids(cfg) # None
       /\ \A d \in Deployment, b \in BOOLEAN :
            (\E t \in d.auth_tools : Level(cfg, t) # "none")
              => build_auth_gate(cfg, d.auth_tools, b) # None
       /\ cfg.workflow # None => cfg.workflow \in Seq(Range(cfg.workflow))

VARIABLES
  server,     \* this process's deployment; an extension is [name, eager, deferred]
  agent,      \* the resolved configuration, the same for every session here
  settings,   \* the organization's saved settings
  row,        \* each conversation's row: [name, meta]
  log,        \* each conversation's messages
  verified,   \* otpVerified of each session
  turn,       \* each session's turn
  titler,     \* auto-title tasks, as [session, n, at]
  resume,     \* reconnects that are writing capabilities, as [session, supports, read]
  approver,   \* HostApprover: [current, requests, verdicts]
  responder,  \* the sessions a host prompt's responder is registered under
  budget,
  history     \* what happened, for the properties

vars == <<server, agent, settings, row, log, verified, turn, titler, resume, approver,
          responder, budget, history>>

NoTurn == [at |-> "none"]
NoPointer == [step |-> None, attempts |-> 0]
NoMeta == [pointer |-> NoPointer, supports |-> {}]

\* A conversation's name: who gave it, and whether it begins with the prefix of
\* the default names, as one given by hand or by the small model may.
Name(by, prefixed) == [by |-> by, prefixed |-> prefixed]

\* Workflow pointers a conversation may be found with: none yet, or a step that
\* was tried as often as it may be.
Pointers(cfg) ==
  {NoPointer} \cup
  (IF cfg = None \/ cfg.workflow = None THEN {}
   ELSE {[step |-> w.id,
          attempts |-> IF next_step(cfg.workflow, w) = None THEN 0 ELSE StepAttemptCap - 1] :
         w \in Range(cfg.workflow)})

Init ==
  /\ server \in Deployment
  /\ \E r \in Row : agent = IF r = None THEN None ELSE from_row_values(r)
  /\ settings = [persona |-> None, model |-> None, tools |-> {}]
  /\ \E p \in Pointers(agent) :
       row = [s \in Session |-> [name |-> Name("create", TRUE), meta |-> [NoMeta EXCEPT !.pointer = p]]]
  /\ verified = [s \in Session |-> FALSE]
  /\ turn = [s \in Session |-> NoTurn]
  /\ titler = {} /\ resume = {} /\ responder = {}
  /\ approver = [current |-> None, requests |-> <<>>, verdicts |-> <<>>]
  /\ budget = [turns |-> MaxTurns, calls |-> MaxCalls, events |-> MaxEvents]
  /\ \E past \in Past :
       /\ log = [s \in Session |-> past.log]
       /\ history = [codes |-> IF past.coded THEN Session ELSE {},
                     accepted |-> [s \in Session |-> 0], ran |-> {}, approvals |-> 0,
                     held |-> [s \in Session |-> row[s].meta.pointer.attempts],
                     lost |-> [s \in Session |-> 0], kept |-> {}]

Spend(b) == budget[b] > 0 /\ budget' = [budget EXCEPT ![b] = @ - 1]

------------------------------------------------------------------------------
(* send_message: what the turn is started with.                             *)

Or(a, b) == IF a # None THEN a ELSE b

\* resolve_turn_model: server, organization, agent, turn, the last one set wins.
resolve_turn_model(frame) ==
  Or(frame.model, Or(IF agent = None THEN None ELSE agent.model,
                     Or(NonBlank(settings.model), "server")))

\* resolve_base_prompt, with the runner's built-in prompt when all are absent.
resolve_base_prompt ==
  Or(IF agent = None THEN None ELSE system_prompt(agent),
     Or(settings.persona, Or(server.persona, "built_in")))

\* The allow-list: the agent's, else the organization's unless it is empty.
AllowedTools ==
  Or(IF agent = None THEN None ELSE enabled_tool_ids(agent),
     IF settings.tools = {} THEN None ELSE settings.tools)

\* extension_allowed: the server's list and, for a resolved agent, its own.
extension_allowed(e, enabled) ==
  e.name \in server.allow /\ (enabled = None \/ e.name \in enabled)

build_extension_host ==
  {e \in server.extensions :
     extension_allowed(e, IF agent = None THEN None ELSE enabled_extension_ids(agent))}

\* What a read of the metadata may give: the map, or nothing when it fails.
ReadMeta(s) == {row[s].meta, NoMeta}

load_workflow_step(s) == {m.pointer : m \in ReadMeta(s)}

HasWorkflow == agent # None /\ agent.workflow # None

\* The claim is taken; configuration, verification bit and workflow pointer are
\* those of this moment.
SendMessage(s, frame) ==
  /\ turn[s].at = "none"
  /\ Spend("turns")
  /\ \E pointer \in load_workflow_step(s) :
       turn' = [turn EXCEPT ![s] =
         [at |-> "prepare", n |-> budget.turns, frame |-> frame,
          model |-> resolve_turn_model(frame), base |-> resolve_base_prompt,
          allowed |-> AllowedTools, hosted |-> build_extension_host,
          gate |-> IF agent = None THEN None
                   ELSE build_auth_gate(agent, server.auth_tools, verified[s]),
          pointer |-> pointer]]
  /\ UNCHANGED <<server, agent, settings, row, log, verified, titler, resume, approver, responder, history>>

------------------------------------------------------------------------------
(* run_streaming_turn up to the agent loop.                                 *)

Message(dir, n, content) == [dir |-> dir, n |-> n, content |-> content]

\* What stands at these places of a sequence, in its order.
Nth(places, k) == CHOOSE i \in places : Cardinality({j \in places : j < i}) = k - 1
Picked(seq, places) == [k \in 1 .. Cardinality(places) |-> seq[Nth(places, k)]]

\* Mutation: the records of failed turns are replayed too.
prior_messages_for_replay_Errors(messages) ==
  Picked(messages, {i \in DOMAIN messages : messages[i].content # "file"})

\* Turn-error records are left out, and so is a message with nothing to show;
\* the newest MaxReplayed pictures are replayed, a note stands for the others.
prior_messages_for_replay(messages) ==
  LET pictures == {i \in DOMAIN messages : messages[i].content = "image"}
      kept == {i \in pictures : Cardinality({j \in pictures : j >= i}) <= MaxReplayed}
      shown == [i \in DOMAIN messages |->
                  IF i \in pictures \ kept THEN [messages[i] EXCEPT !.content = "note"]
                  ELSE messages[i]]
  IN Picked(shown, {i \in DOMAIN messages :
                      messages[i].dir # "error" /\ messages[i].content # "file"})

\* One page of the conversation, oldest first.
load_prior_messages(messages) ==
  prior_messages_for_replay(
    SubSeq(messages, 1, IF MaxPrior < Len(messages) THEN MaxPrior ELSE Len(messages)))

\* Mutation: the tools of extensions join after the allow-list was applied.
ToolSet_ExtensionsLast(t) ==
  LET hosted == UNION {e.eager \cup e.deferred : e \in t.hosted}
      built == server.builtin \cup server.host_tools
  IN hosted \cup (IF t.allowed = None THEN built ELSE built \cap t.allowed)

\* Built-in tools, the host's, the extensions'; the allow-list is the last word
\* (deferred tools are held against it as they are registered).
ToolSet(t) ==
  LET eager == UNION {e.eager : e \in t.hosted}
      deferred == {d \in UNION {e.deferred : e \in t.hosted} : t.allowed = None \/ d \in t.allowed}
      all == server.builtin \cup server.host_tools \cup eager
  IN deferred \cup (IF t.allowed = None THEN all ELSE all \cap t.allowed)

\* DefaultPromptComposer: base, greeting on the first turn, workflow, skill, trailer.
compose(t, prior) ==
  <<t.base>>
  \o (IF prior = <<>> /\ agent # None /\ agent.greeting # None THEN <<"greeting">> ELSE <<>>)
  \o (IF HasWorkflow THEN <<resolve_current_step(agent.workflow, t.pointer.step).id>> ELSE <<>>)
  \o (IF t.frame.skill = None THEN <<>> ELSE <<t.frame.skill>>)
  \o <<"suggested_replies">>

\* The history is read before the turn's own message is stored; the turn
\* becomes the one that shows the host's prompts.
Prepare(s) ==
  LET t == turn[s]
      prior == load_prior_messages(log[s])
  IN /\ t.at = "prepare"
     /\ log' = [log EXCEPT ![s] = Append(@, Message("in", t.n, t.frame.content))]
     /\ turn' = [turn EXCEPT ![s] =
          [at |-> "running", n |-> t.n, model |-> t.model, prior |-> prior, prompt |-> compose(t, prior),
           tools |-> ToolSet(t), gate |-> t.gate, pointer |-> t.pointer,
           asked |-> None, refused |-> None]]
     /\ approver' = IF server.approver THEN [approver EXCEPT !.current = s] ELSE approver
     /\ UNCHANGED <<server, agent, settings, row, verified, titler, resume, responder, budget, history>>

------------------------------------------------------------------------------
(* Tool calls.                                                              *)

\* The hooks of the host come before the gate; what the gate lets through runs.
Gated(s, tool, asked) ==
  LET t == turn[s]
  IN IF GateRefuses(t.gate, tool)
     THEN /\ turn' = [turn EXCEPT ![s].at = "running", ![s].asked = None,
                        ![s].refused = IF OtpRemediable(t.gate, tool) THEN tool ELSE @]
          /\ UNCHANGED history
     ELSE /\ turn' = [turn EXCEPT ![s].at = "running", ![s].asked = None]
          /\ history' = [history EXCEPT
               !.ran = @ \cup {[tool |-> tool, n |-> t.n, session |-> s]},
               !.approvals = IF asked THEN @ - 1 ELSE @]

\* The model calls a tool the turn offers, and the host does not ask.
CallTool(s, tool) ==
  /\ turn[s].at = "running" /\ tool \in turn[s].tools
  /\ Spend("calls")
  /\ Gated(s, tool, FALSE)
  /\ UNCHANGED <<server, agent, settings, row, log, verified, titler, resume, approver, responder>>

\* The host's hook wants a human's answer first.
AskHost(s, tool) ==
  /\ server.approver
  /\ turn[s].at = "running" /\ tool \in turn[s].tools
  /\ Spend("calls")
  /\ turn' = [turn EXCEPT ![s].at = "asking", ![s].asked = tool]
  /\ approver' = [approver EXCEPT !.requests = Append(@, s)]
  /\ UNCHANGED <<server, agent, settings, row, log, verified, titler, resume, responder, history>>

\* Mutation: a prompt nobody can be shown is let through.
Unattended_Approves == "approved"

\* The verdict on a prompt that no turn can show.
Unattended == "denied"

\* spawn_drain: the prompt goes to the turn that is current now.
Drain ==
  /\ approver.requests # <<>>
  /\ IF approver.current = None
     THEN /\ approver' = [approver EXCEPT !.requests = Tail(@),
                            !.verdicts = Append(@, Unattended)]
          /\ UNCHANGED responder
     ELSE /\ responder' = responder \cup {approver.current}
          /\ approver' = [approver EXCEPT !.requests = Tail(@)]
  /\ UNCHANGED <<server, agent, settings, row, log, verified, turn, titler, resume, budget, history>>

\* confirm_tool_action takes the responder of its session.
ConfirmHost(s, verdict) ==
  /\ s \in responder
  /\ responder' = responder \ {s}
  /\ approver' = [approver EXCEPT !.verdicts = Append(@, verdict)]
  /\ history' = [history EXCEPT !.approvals = IF verdict = "approved" THEN @ + 1 ELSE @]
  /\ UNCHANGED <<server, agent, settings, row, log, verified, turn, titler, resume, budget>>

\* The host's hook takes the next verdict of its one channel (external).
TakeVerdict(s) ==
  /\ turn[s].at = "asking" /\ approver.verdicts # <<>>
  /\ approver' = [approver EXCEPT !.verdicts = Tail(@)]
  /\ \/ Head(approver.verdicts) = "approved" /\ Gated(s, turn[s].asked, TRUE)
     \/ /\ Head(approver.verdicts) = "denied"
        /\ turn' = [turn EXCEPT ![s].at = "running", ![s].asked = None]
        /\ UNCHANGED history
  /\ UNCHANGED <<server, agent, settings, row, log, verified, titler, resume, responder, budget>>

\* ... or stops waiting for one (external).
AskTimesOut(s) ==
  /\ turn[s].at = "asking"
  /\ turn' = [turn EXCEPT ![s].at = "running", ![s].asked = None]
  /\ UNCHANGED <<server, agent, settings, row, log, verified, titler, resume, approver, responder, budget, history>>

------------------------------------------------------------------------------
(* The end of the turn.                                                     *)

\* The guards of the turn: the approver has no turn any more, whoever it was,
\* and the session's responder is gone.
Teardown(s) ==
  /\ approver' = IF server.approver THEN [approver EXCEPT !.current = None] ELSE approver
  /\ responder' = responder \ {s}

\* The loop is over: the reply is stored unless it is empty, and the judge says
\* where the workflow is; without a reply it is not asked.
FinishRun(s, replied, verdict) ==
  LET t == turn[s]
      judged == IF ~HasWorkflow THEN None
                ELSE advance_after_verdict(agent.workflow, t.pointer.step,
                                           IF replied THEN verdict ELSE "maybe")
  IN /\ t.at = "running"
     /\ Teardown(s)
     /\ log' = IF replied THEN [log EXCEPT ![s] = Append(@, Message("out", t.n, "text"))] ELSE log
     /\ turn' = [turn EXCEPT ![s] =
          [at |-> IF HasWorkflow THEN "persist" ELSE "answer", n |-> t.n, pointer |-> t.pointer,
           judged |-> judged, refused |-> t.refused]]
     /\ UNCHANGED <<server, agent, settings, row, verified, titler, resume, budget, history>>

\* Storage, the engine or the model fails: a turn-error record, and no more.
FailRun(s) ==
  /\ turn[s].at \in {"prepare", "running"}
  /\ IF turn[s].at = "running" THEN Teardown(s) ELSE UNCHANGED <<approver, responder>>
  /\ \/ log' = [log EXCEPT ![s] = Append(@, Message("error", turn[s].n, "text"))]
     \/ UNCHANGED log
  /\ turn' = [turn EXCEPT ![s] = NoTurn]
  /\ UNCHANGED <<server, agent, settings, row, verified, titler, resume, budget, history>>

\* persist_workflow_step reads the metadata map, or takes it to be empty ...
ReadPointer(s) ==
  /\ turn[s].at = "persist"
  /\ \E read \in ReadMeta(s) :
       turn' = [turn EXCEPT ![s] =
         [at |-> "write", n |-> turn[s].n, read |-> read, refused |-> turn[s].refused,
          pointer |-> turn[s].pointer,
          next |-> apply_step_cap(agent.workflow, turn[s].pointer.step, turn[s].judged,
                                  turn[s].pointer.attempts)]]
  /\ UNCHANGED <<server, agent, settings, row, log, verified, titler, resume, approver, responder, budget, history>>

\* The step a pointer stands for.
StepOf(p) == resolve_current_step(agent.workflow, p.step).id

\* ... and writes it back with the pointer, or fails to.  The history counts the
\* turns since the stored step last changed, and the accesses that went wrong: a
\* read that failed or was out of date by now, a write that failed.
WritePointer(s) ==
  LET t == turn[s]
      lost == t.read # row[s].meta \/ t.pointer # row[s].meta.pointer
      moved == StepOf(t.next) # StepOf(row[s].meta.pointer)
  IN /\ t.at = "write"
     /\ \/ /\ row' = [row EXCEPT ![s].meta = [t.read EXCEPT !.pointer = t.next]]
           /\ history' = [history EXCEPT !.held[s] = IF moved THEN 0 ELSE @ + 1,
                                         !.lost[s] = IF lost THEN @ + 1 ELSE @]
        \/ /\ history' = [history EXCEPT !.held[s] = @ + 1, !.lost[s] = @ + 1]
           /\ UNCHANGED row
     /\ turn' = [turn EXCEPT ![s] = [at |-> "answer", n |-> t.n, refused |-> t.refused]]
     /\ UNCHANGED <<server, agent, settings, log, verified, titler, resume, approver, responder, budget>>

\* A code is offered when a tool was refused for the lack of one and there is
\* somewhere to send it; then the answer goes out and the titler is spawned (it
\* gives up at once where the process has no gateway key).
Respond(s) ==
  /\ turn[s].at = "answer"
  /\ turn' = [turn EXCEPT ![s] = NoTurn]
  /\ history' = IF turn[s].refused # None /\ server.contact
                THEN [history EXCEPT !.codes = @ \cup {s}] ELSE history
  /\ titler' = IF server.titles THEN titler \cup {[session |-> s, n |-> turn[s].n, at |-> "look"]}
               ELSE titler
  /\ UNCHANGED <<server, agent, settings, row, log, verified, resume, approver, responder, budget>>

------------------------------------------------------------------------------
(* maybe_auto_title.                                                        *)

Move(task, at) ==
  titler' = (titler \ {task}) \cup (IF at = None THEN {} ELSE {[task EXCEPT !.at = at]})

\* Mutation: the name is not looked at again.
StillDefault_Assumed(s) == TRUE

\* The name begins with the prefix of the default names.
StillDefault(s) == row[s].name.prefixed

\* A conversation that has a name of its own, or that cannot be read, is left alone.
TitleLook(task) ==
  /\ task.at = "look"
  /\ \E read \in BOOLEAN :
       Move(task, IF read /\ StillDefault(task.session) THEN "model" ELSE None)
  /\ UNCHANGED <<server, agent, settings, row, log, verified, turn, resume, approver, responder, budget, history>>

\* The small model answers, or there is no title.
TitleModel(task) ==
  /\ task.at = "model"
  /\ \E at \in {None, "recheck"} : Move(task, at)
  /\ UNCHANGED <<server, agent, settings, row, log, verified, turn, resume, approver, responder, budget, history>>

\* The guard is looked at again right before the write; if that read fails the
\* title is written all the same.
TitleRecheck(task) ==
  /\ task.at = "recheck"
  /\ \/ /\ Move(task, IF StillDefault(task.session) THEN "write" ELSE None)
        /\ UNCHANGED history
     \/ /\ Move(task, "write")
        /\ history' = [history EXCEPT !.kept = @ \ {task.session}]
  /\ UNCHANGED <<server, agent, settings, row, log, verified, turn, resume, approver, responder, budget>>

\* The model's words are the name, whatever they begin with; a failed write is
\* not reported.
TitleWrite(task) ==
  /\ task.at = "write"
  /\ Move(task, None)
  /\ \/ \E prefixed \in BOOLEAN : row' = [row EXCEPT ![task.session].name = Name("titler", prefixed)]
     \/ UNCHANGED row
  /\ UNCHANGED <<server, agent, settings, log, verified, turn, resume, approver, responder, budget, history>>

------------------------------------------------------------------------------
(* What else reaches the conversation.                                      *)

\* handle_rename_conversation.  A name that begins like a default one, or that
\* comes after the titler's second look, need not stay.
Rename(s, prefixed) ==
  /\ Spend("events")
  /\ row' = [row EXCEPT ![s].name = Name("hand", prefixed)]
  /\ history' = IF prefixed \/ \E k \in titler : k.session = s /\ k.at = "write"
                THEN [history EXCEPT !.kept = @ \ {s}]
                ELSE [history EXCEPT !.kept = @ \cup {s}]
  /\ UNCHANGED <<server, agent, settings, log, verified, turn, titler, resume, approver, responder>>

\* A reconnect declares its capabilities: persist_client_supports reads,
\* or takes the map to be empty ...
ResumeRead(s, supports) ==
  /\ Spend("events")
  /\ \E read \in ReadMeta(s) :
       resume' = resume \cup {[session |-> s, supports |-> supports, read |-> read]}
  /\ UNCHANGED <<server, agent, settings, row, log, verified, turn, titler, approver, responder, history>>

\* ... and writes the whole map (a write that fails changes nothing, as one that
\* is never taken).
ResumeWrite(r) ==
  LET s == r.session
      moved == HasWorkflow /\ StepOf(r.read.pointer) # StepOf(row[s].meta.pointer)
  IN
  /\ resume' = resume \ {r}
  /\ row' = [row EXCEPT ![s].meta = [r.read EXCEPT !.supports = r.supports]]
  /\ history' = [history EXCEPT !.held[s] = IF moved THEN 0 ELSE @,
                                !.lost[s] = IF r.read = row[s].meta THEN @ ELSE @ + 1]
  /\ UNCHANGED <<server, agent, settings, log, verified, turn, titler, approver, responder, budget>>

\* Mutation: the answer of the service is not looked at.
set_session_authenticated_Always(s, accepted) == [verified EXCEPT ![s] = TRUE]

set_session_authenticated(s, accepted) == [verified EXCEPT ![s] = @ \/ accepted]

\* verify_otp: the service accepts a code it sent, or does not.
VerifyOtp(s, accepted) ==
  /\ Spend("events")
  /\ accepted => s \in history.codes
  /\ verified' = set_session_authenticated(s, accepted)
  /\ history' = IF accepted /\ history.accepted[s] = 0
                THEN [history EXCEPT !.accepted[s] = budget.turns] ELSE history
  /\ UNCHANGED <<server, agent, settings, row, log, turn, titler, resume, approver, responder>>

\* PUT /admin/settings.
SaveSettings(v) ==
  /\ Spend("events")
  /\ settings' = v
  /\ UNCHANGED <<server, agent, row, log, verified, turn, titler, resume, approver, responder, history>>

Next ==
  \/ \E s \in Session :
       \/ \E f \in Frame : SendMessage(s, f)
       \/ Prepare(s) \/ FailRun(s) \/ ReadPointer(s) \/ WritePointer(s) \/ Respond(s)
       \/ turn[s].at = "running" /\ \E tool \in turn[s].tools : CallTool(s, tool) \/ AskHost(s, tool)
       \/ TakeVerdict(s) \/ AskTimesOut(s)
       \/ \E v \in {"approved", "denied"} : ConfirmHost(s, v)
       \/ \E replied \in BOOLEAN, words \in SUBSET {"yes", "no", "maybe"} :
            FinishRun(s, replied, parse_verdict(words))
       \/ \E prefixed \in BOOLEAN : Rename(s, prefixed)
       \/ \E c \in Supports : ResumeRead(s, c)
       \/ \E ok \in BOOLEAN : VerifyOtp(s, ok)
  \/ Drain
  \/ \E k \in titler : TitleLook(k) \/ TitleModel(k) \/ TitleRecheck(k) \/ TitleWrite(k)
  \/ \E r \in resume : ResumeWrite(r)
  \/ \E v \in Setting : SaveSettings(v)

Spec == Init /\ [][Next]_vars

------------------------------------------------------------------------------
(* Properties.                                                              *)

TypeOK ==
  /\ \A s \in Session :
       /\ row[s].name \in [by : {"create", "titler", "hand"}, prefixed : BOOLEAN]
       /\ row[s].meta.supports \in Supports \cup {{}}
       /\ row[s].meta.pointer.attempts \in Nat
       /\ turn[s].at \in {"none", "prepare", "running", "asking", "persist", "write", "answer"}
       /\ HasWorkflow => row[s].meta.pointer.step \in {None} \cup {w.id : w \in Range(agent.workflow)}
  /\ verified \in [Session -> BOOLEAN]
  /\ approver.current \in Session \cup {None}
  /\ responder \subseteq Session

\* agent_config.rs tool_auth_refusal, handler.rs build_auth_gate and
\* handle_verify_otp: on a public agent a tool that needs a verified visitor only
\* ran in a turn that began after the service accepted a code of that very
\* session, and an admin tool never ran, whatever else happened in between.
GateSound ==
  agent # None /\ agent.visibility = "public" =>
    \A c \in history.ran : c.tool \in server.auth_tools =>
      /\ Level(agent, c.tool) # "admin"
      /\ Level(agent, c.tool) = "end_user" => history.accepted[c.session] >= c.n

\* runner.rs run_streaming_turn ("the allow-list"): nothing the agent's list does
\* not enable ever ran, whether it was built in, the host's or an extension's,
\* registered at once or deferred; and what is neither built in nor the host's
\* only ran as the tool of an extension that the server trusts and that the
\* agent, where there is one, names (extensions.rs extension_allowed).
AllowListHolds ==
  \A c \in history.ran :
    /\ agent # None /\ agent.tools # <<>> =>
         \E e \in Range(agent.tools) : e.tool_id = c.tool /\ e.enabled
    /\ \/ c.tool \in server.builtin \cup server.host_tools
       \/ \E x \in server.extensions :
            /\ c.tool \in x.eager \cup x.deferred
            /\ x.name \in server.allow /\ (agent = None \/ x.name \in agent.extensions)

\* agent_config.rs apply_step_cap ("a step the judge never advances can't loop
\* forever") and persist_workflow_step ("the attempt cap still bounds it"): a step
\* with somewhere else to go is stored with fewer attempts than the cap, and it
\* really was held for fewer turns than that, each access to the metadata that
\* failed or was out of date costing one more round of the cap and no more.
StepBounded ==
  HasWorkflow => \A s \in Session :
    LET p == row[s].meta.pointer
        step == resolve_current_step(agent.workflow, p.step)
        next == next_step(agent.workflow, step)
    IN next # None /\ next.id # step.id =>
         /\ p.attempts < StepAttemptCap
         /\ history.held[s] < StepAttemptCap * (history.lost[s] + 1)

\* runner.rs load_prior_messages: as long as the earlier turns of a conversation fit
\* a page of MaxPrior messages, a running turn replays everything they said, each
\* message once, never its own, never a turn-error record, and at most MaxReplayed
\* pictures.
ReplayExact ==
  \A s \in Session : turn[s].at \in {"running", "asking"} =>
    LET prior == turn[s].prior
        before == {i \in DOMAIN log[s] : log[s][i].n # turn[s].n}
        said == {m \in {log[s][i] : i \in before} : m.dir # "error" /\ m.content # "file"}
    IN before \subseteq 1 .. MaxPrior =>
         /\ {[dir |-> m.dir, n |-> m.n] : m \in Range(prior)} = {[dir |-> m.dir, n |-> m.n] : m \in said}
         /\ Len(prior) = Cardinality(said)
         /\ Cardinality({i \in DOMAIN prior : prior[i].content = "image"}) <= MaxReplayed

\* README.md:38 "remembers the whole conversation", runner.rs:791 "prior_messages is
\* exactly the history-up-to-now": at least the latest thing said is among what a
\* turn replays.  Not so once the conversation is longer than MaxPrior, since the
\* page that is read is the oldest one.
RemembersLatest ==
  \A s \in Session : turn[s].at \in {"running", "asking"} =>
    LET said == {i \in DOMAIN log[s] : /\ log[s][i].n # turn[s].n
                                       /\ log[s][i].dir # "error" /\ log[s][i].content # "file"}
    IN said # {} => \E m \in Range(turn[s].prior) :
         m.dir = log[s][Max(said)].dir /\ m.n = log[s][Max(said)].n

\* handler.rs maybe_auto_title: a name given by hand stays, unless it begins like a
\* default one, or came after the titler's second look, or that look failed.
TitleKept == \A s \in history.kept : row[s].name.by = "hand"

\* handler.rs:1329 "so a manual rename (or a prior successful auto-title) is never
\* clobbered": the titler never replaces a name given by hand.  Not so in the three
\* cases that TitleKept leaves out.
RenameFinal ==
  [][\A s \in Session : row[s].name.by = "hand" => row'[s].name.by = "hand"]_vars

\* runner.rs HostApprover: calls the host asked about never outnumber the
\* approvals of humans, wherever the prompts were shown.
AskedFailsClosed == history.approvals >= 0

\* runner.rs HostApprover::activate ("turns are sequential"): a prompt is shown to
\* the session whose turn asked.  Not so when turns of two sessions overlap.
ShownToAsker ==
  [][approver.requests # <<>> /\ responder' # responder /\ turn' = turn
       => responder' = responder \cup {Head(approver.requests)}]_vars

\* handler.rs persist_client_supports ("so sibling metadata keys survive"): the
\* pointer a turn wrote is only replaced by a turn.  Not so when a reconnect read
\* the map before the turn wrote it.
PointerSurvives ==
  [][\A s \in Session : row'[s].meta.pointer # row[s].meta.pointer => turn[s].at = "write"]_vars
==============================================================================

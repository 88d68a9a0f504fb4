----------------------------- MODULE AgentConfig -----------------------------
(***************************************************************************)
(* What an agent's row makes of its turns (smooth-operator/src/            *)
(* agent_config.rs): the resolved configuration, the auth gate on tools,   *)
(* the guided workflow with its judge and its per-step attempt cap.        *)
(*                                                                         *)
(* A row is [instructions, persona, greeting, workflow, tools, extensions, *)
(* visibility, model, max_iterations].  A text column is None, "" (blank)  *)
(* or the text.  An entry of tools or extensions is [id, enabled,          *)
(* authLevel], "" for an id that is missing and None for a missing field.  *)
(* A workflow is a sequence of steps [id, next], or Malformed.             *)
(***************************************************************************)
EXTENDS Integers, Sequences, FiniteSets, SequencesExt

CONSTANTS None, Malformed,
          StepAttemptCap    \* WORKFLOW_STEP_ATTEMPT_CAP, 3 in the code

ASSUME CapAssumption == StepAttemptCap \in Nat \ {0}

------------------------------------------------------------------------------
(* The resolved configuration.                                              *)

\* filter(|s| !s.trim().is_empty()).
NonBlank(text) == IF text = "" THEN None ELSE text

parse_auth_level(s) == IF s \in {"end_user", "admin"} THEN s ELSE "none"

parse_visibility(s) == IF s = "internal" THEN "internal" ELSE "public"

clamp_max_iterations(n) ==
  IF n = None THEN None ELSE IF n < 1 THEN 1 ELSE IF n > 64 THEN 64 ELSE n

\* An entry without an id is dropped; the others default to enabled and to no
\* auth level.
parse_enabled_tools(entries) ==
  LET named == SelectSeq(entries, LAMBDA v : v.id # "")
  IN [i \in DOMAIN named |->
        [tool_id |-> named[i].id, enabled |-> named[i].enabled # FALSE,
         auth_level |-> parse_auth_level(named[i].authLevel)]]

parse_enabled_extensions(entries) ==
  {v.id : v \in {w \in Range(entries) : w.id # "" /\ w.enabled # FALSE}}

from_row_values(row) ==
  [visibility |-> parse_visibility(row.visibility),
   instructions |-> NonBlank(row.instructions),
   persona |-> NonBlank(row.persona),
   greeting |-> NonBlank(row.greeting),
   workflow |-> IF row.workflow \in {None, Malformed, <<>>} THEN None ELSE row.workflow,
   tools |-> parse_enabled_tools(row.tools),
   extensions |-> parse_enabled_extensions(row.extensions),
   model |-> NonBlank(row.model),
   max_iterations |-> clamp_max_iterations(row.max_iterations)]

\* The agent's base prompt; the personality only follows instructions.
system_prompt(cfg) ==
  IF cfg.instructions = None THEN None
  ELSE IF cfg.persona = None THEN <<cfg.instructions>>
  ELSE <<cfg.instructions, cfg.persona>>

\* None means the whole tool set: only an empty list does not restrict.
enabled_tool_ids(cfg) ==
  IF cfg.tools = <<>> THEN None
  ELSE {t.tool_id : t \in {u \in Range(cfg.tools) : u.enabled}}

\* Never None: a resolved agent that lists nothing activates nothing.
enabled_extension_ids(cfg) == cfg.extensions

------------------------------------------------------------------------------
(* The auth gate.                                                           *)

\* TRUE when the call is refused.
tool_auth_refusal(level, visibility, authenticated) ==
  /\ visibility # "internal"
  /\ \/ level = "admin"
     \/ level = "end_user" /\ ~authenticated

\* build_auth_gate: the level of each tool that supports auth (the last entry
\* of a tool wins, a tool without one needs nothing), or None when nothing
\* could ever be refused.
build_auth_gate(cfg, supporting, authenticated) ==
  LET level(t) == LET i == SelectLastInSeq(cfg.tools, LAMBDA e : e.tool_id = t)
                  IN IF i = 0 THEN "none" ELSE cfg.tools[i].auth_level
  IN IF \A t \in supporting : level(t) = "none" THEN None
     ELSE [levels |-> [t \in supporting |-> level(t)], visibility |-> cfg.visibility,
           authenticated |-> authenticated]

\* AuthGateHook::pre_call refuses the call.
GateRefuses(gate, tool) ==
  /\ gate # None
  /\ tool \in DOMAIN gate.levels
  /\ tool_auth_refusal(gate.levels[tool], gate.visibility, gate.authenticated)

\* The refusal is one a code could remedy, so the hook remembers the tool.
OtpRemediable(gate, tool) ==
  gate.levels[tool] = "end_user" /\ gate.visibility = "public" /\ ~gate.authenticated

------------------------------------------------------------------------------
(* The guided workflow.                                                     *)

StepAt(wf, id) == SelectInSeq(wf, LAMBDA s : s.id = id)

\* The step with the pointer's id, the first one when there is none.
resolve_current_step(wf, id) == IF StepAt(wf, id) = 0 THEN wf[1] ELSE wf[StepAt(wf, id)]

\* The explicit successor if it exists, else the following step, else None.
next_step(wf, step) ==
  LET explicit == StepAt(wf, step.next)
      after == StepAt(wf, step.id) + 1
  IN IF step.next \notin {None, ""} /\ explicit # 0 THEN wf[explicit]
     ELSE IF after <= Len(wf) THEN wf[after] ELSE None

\* WorkflowJudgeVerdict::parse on the words the judge's reply contains.
parse_verdict(words) ==
  IF "maybe" \in words THEN "maybe" ELSE IF "yes" \in words THEN "yes"
  ELSE IF "no" \in words THEN "no" ELSE "maybe"

\* Only a yes moves on, and only where there is a next step.
advance_after_verdict(wf, id, verdict) ==
  LET current == resolve_current_step(wf, id)
      next == next_step(wf, current)
  IN IF verdict = "yes" /\ next # None THEN next.id ELSE current.id

\* Mutation: the cap is compared before the attempt is counted.
apply_step_cap_Late(wf, before, judged, attempts) ==
  LET current == resolve_current_step(wf, before)
      next == next_step(wf, current)
  IN IF current.id # judged THEN [step |-> judged, attempts |-> 0]
     ELSE IF attempts >= StepAttemptCap /\ next # None THEN [step |-> next.id, attempts |-> 0]
     ELSE [step |-> judged, attempts |-> attempts + 1]

\* A step held for the StepAttemptCap-th turn in a row is left anyway.
apply_step_cap(wf, before, judged, attempts) ==
  LET current == resolve_current_step(wf, before)
      next == next_step(wf, current)
  IN IF current.id # judged THEN [step |-> judged, attempts |-> 0]
     ELSE IF attempts + 1 >= StepAttemptCap /\ next # None THEN [step |-> next.id, attempts |-> 0]
     ELSE [step |-> judged, attempts |-> attempts + 1]
==============================================================================

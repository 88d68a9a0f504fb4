-------------------------------- MODULE Intake --------------------------------
(***************************************************************************)
(* The two kinds of rich interaction the server hosts, as functions on the *)
(* data of a card: how the model's arguments become the spec of a card     *)
(* (parse_request) and how a visitor's values are validated against it     *)
(* (validate) and made canonical.  From identity_intake.rs, choices.rs and *)
(* the InteractionKind trait of interaction.rs.                            *)
(*                                                                         *)
(* Text is abstracted to what validation tells apart: blank or not,        *)
(* trimmed or not, the shape of an address, the digits of a number.        *)
(***************************************************************************)
EXTENDS Integers, Sequences, FiniteSets, SequencesExt

CONSTANTS None,
          Invalid   \* Err(errors)

IntakeFieldKey == {"name", "email", "phone"}

\* A name, an address, a number as typed.  In an address: the @ signs, whether
\* what is before the first one is there and the whole has no white space, the
\* dot-separated parts behind it, capitals.  A number with anything but digits
\* and separators in it has len 0.
Name(blank, trimmed) == [blank |-> blank, trimmed |-> trimmed]
Email(ats, local, parts, lower) ==
  [blank |-> FALSE, ats |-> ats, local |-> local, parts |-> parts, lower |-> lower]
Phone(plus, first, len, bare) ==
  [blank |-> FALSE, plus |-> plus, first |-> first, len |-> len, bare |-> bare]

\* What may be typed into a field.
FieldValue(key) ==
  CASE key = "name"  -> [blank : BOOLEAN, trimmed : BOOLEAN]
    [] key = "email" -> [blank : BOOLEAN, ats : Nat, local : BOOLEAN, parts : Seq(BOOLEAN),
                         lower : BOOLEAN]
    [] key = "phone" -> [blank : BOOLEAN, plus : BOOLEAN, first : Nat, len : Nat, bare : BOOLEAN]

\* Present and not just white space.
Filled(x) == x # None /\ ~x.blank

\* parts[i]: the i-th part of the domain is not empty.
normalize_email(e) ==
  IF e.ats = 1 /\ e.local /\ Len(e.parts) >= 2 /\ \A i \in DOMAIN e.parts : e.parts[i]
  THEN [e EXCEPT !.lower = TRUE] ELSE None

\* Separators are dropped ("bare"); a national number gets +1 in front.
normalize_phone_e164(n) ==
  CASE n.plus /\ n.len \in 8 .. 15 /\ n.first # 0 -> [n EXCEPT !.bare = TRUE]
    [] ~n.plus /\ n.len = 10 -> Phone(TRUE, 1, 11, TRUE)
    [] ~n.plus /\ n.len = 11 /\ n.first = 1 -> Phone(TRUE, 1, 11, TRUE)
    [] OTHER -> None

\* The values a submit carries for identity_intake; blank fields are dropped.
Canonical(key, x) ==
  IF ~Filled(x) THEN None
  ELSE CASE key = "name" -> [x EXCEPT !.trimmed = TRUE]
         [] key = "email" -> normalize_email(x)
         [] key = "phone" -> normalize_phone_e164(x)

\* fields: a set of [key, required]; values: a function of the three keys.
validate_intake(fields, values) ==
  LET out == [k \in IntakeFieldKey |-> Canonical(k, values[k])]
  IN IF \/ \E f \in fields : f.required /\ ~Filled(values[f.key])
        \/ \E k \in IntakeFieldKey : Filled(values[k]) /\ out[k] = None
     THEN Invalid ELSE out

\* raw: the entries of the tool argument, each a bare key or an object whose
\* required flag may be absent.
parse_fields(raw) ==
  IF raw = <<>> \/ \E i \in DOMAIN raw : raw[i].key \notin IntakeFieldKey THEN Invalid
  ELSE {[key |-> raw[i].key, required |-> raw[i].required # FALSE] : i \in DOMAIN raw}

\* A missing spec (a raise of an earlier turn) checks the format only.
IntakeValidate(spec, values) ==
  LET fields == IF spec = None THEN {} ELSE spec
  IN IF \A k \in IntakeFieldKey : values[k] = None THEN Invalid
     ELSE validate_intake(fields, values)

------------------------------------------------------------------------------
(* choices: an answer has the labels picked and perhaps a text of its own.  *)

HeaderMaxChars == 12

selection_count(a) == Len(a.options) + (IF Filled(a.other) THEN 1 ELSE 0)

Normalized(a) ==
  [header |-> a.header,
   options |-> SelectSeq(a.options, LAMBDA o : o # ""),
   other |-> IF Filled(a.other) THEN [a.other EXCEPT !.trimmed = TRUE] ELSE None]

\* The first answer with the question's header.
AnswerTo(q, answers) ==
  LET hits == SelectSeq(answers, LAMBDA a : a.header = q.header)
  IN IF hits = <<>> THEN None ELSE Head(hits)

Answers(q, a) ==
  /\ a # None
  /\ \A i \in DOMAIN a.options : a.options[i] \in ToSet(q.options)
  /\ selection_count(a) > 0
  /\ selection_count(a) > 1 => q.multi

validate_choices(questions, answers) ==
  LET norm == [i \in DOMAIN answers |-> Normalized(answers[i])]
  IN IF questions = <<>>
     THEN IF norm # <<>> /\ \A i \in DOMAIN norm : selection_count(norm[i]) > 0
          THEN norm ELSE Invalid
     ELSE IF \A i \in DOMAIN questions : Answers(questions[i], AnswerTo(questions[i], norm))
          THEN [i \in DOMAIN questions |-> AnswerTo(questions[i], norm)] ELSE Invalid

\* raw: questions as the model wrote them; chars: the length of the header.
parse_questions(raw) ==
  IF /\ Len(raw) \in 1 .. 4
     /\ \A i \in DOMAIN raw :
          /\ raw[i].asked /\ raw[i].chars \in 1 .. HeaderMaxChars
          /\ Len(raw[i].options) \in 2 .. 4
          /\ "" \notin ToSet(raw[i].options)
          /\ \A j \in DOMAIN raw : raw[i].header = raw[j].header => i = j
  THEN [i \in DOMAIN raw |-> [header |-> raw[i].header, options |-> raw[i].options,
                              multi |-> raw[i].multi]]
  ELSE Invalid

ChoicesValidate(spec, answers) ==
  validate_choices(IF spec = None THEN <<>> ELSE spec, answers)

------------------------------------------------------------------------------
(* The registry of kinds.                                                   *)

Kind == {"identity_intake", "choices"}

parse_request(kind, args) ==
  IF kind = "choices" THEN parse_questions(args) ELSE parse_fields(args)

validate(kind, spec, values) ==
  IF kind = "choices" THEN ChoicesValidate(spec, values) ELSE IntakeValidate(spec, values)
==============================================================================

---------------------------- MODULE MCInteraction ----------------------------
(* One session on two pods; an intake card and a choices card.              *)
EXTENDS Interaction

Symmetric == Permutations(Pod)

Raw(name, email, phone) ==
  [k \in IntakeFieldKey |-> IF k = "name" THEN name ELSE IF k = "email" THEN email ELSE phone]

MCCard ==
  {[kind |-> "identity_intake", args |-> <<[key |-> "email", required |-> None],
                                           [key |-> "phone", required |-> FALSE]>>],
   [kind |-> "choices", args |-> <<[asked |-> TRUE, header |-> "h", chars |-> HeaderMaxChars,
                                    options |-> <<"o1", "o2">>, multi |-> FALSE]>>]}

\* No address, and one that no intake would accept.
MCOpening == {None, Email(0, TRUE, <<>>, FALSE)}

\* A name with blanks around it, an address in capitals and a national number; a
\* number alone, which the card does not accept; a pick.
MCAnswer ==
  {None,
   [kind |-> "identity_intake", values |-> Raw(Name(FALSE, FALSE),
                                               Email(1, TRUE, <<TRUE, TRUE>>, FALSE),
                                               Phone(FALSE, 5, 10, FALSE))],
   [kind |-> "identity_intake", values |-> Raw(None, None, Phone(TRUE, 4, 8, FALSE))],
   [kind |-> "choices", values |-> <<[header |-> "h", options |-> <<"o1", "">>, other |-> None]>>]}
==============================================================================

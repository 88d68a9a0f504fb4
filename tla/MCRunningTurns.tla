--------------------------- MODULE MCRunningTurns ---------------------------
(* The running-turn registry on two conversations and three turns: a turn   *)
(* and another one beside it on the other conversation, or a turn and two   *)
(* successors on its own, each claimed while the cancel of an earlier one   *)
(* may still be under way.                                                  *)
EXTENDS RunningTurns

CONSTANT First   \* the conversation the first turn is on: the two are alike

\* Bound: three turns are on one conversation.
Sliced ==
  /\ conv[0] \in {None, First}
  /\ conv[2] # None => conv[1] = conv[0] /\ conv[2] = conv[0]

MCSpec == RegistryInit /\ [][RegistryNext /\ Sliced']_registryVars /\ RegistryFairness
=============================================================================

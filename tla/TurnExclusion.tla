---------------------------- MODULE TurnExclusion ----------------------------
(***************************************************************************)
(* What the running-turn registry promises, without tokens, tasks, abort   *)
(* handles or releases: a turn that nobody has cancelled has its           *)
(* conversation to itself from the moment it is accepted until it ends,    *)
(* and a cancelled turn gives the conversation up at once.                 *)
(***************************************************************************)
EXTENDS Naturals

CONSTANTS Conv, Turn, None

VARIABLES on,      \* the conversation each turn was accepted on
          status   \* what became of it

vars == <<on, status>>

\* A conversation is busy while an uncancelled turn is active on it.
Busy(c) == \E t \in Turn : on[t] = c /\ status[t] = "active"

Init ==
  /\ on = [t \in Turn |-> None]
  /\ status = [t \in Turn |-> "new"]

Accept(t, c) ==
  /\ status[t] = "new"
  /\ ~Busy(c)
  /\ on' = [on EXCEPT ![t] = c]
  /\ status' = [status EXCEPT ![t] = "active"]

Cancel(t) ==
  /\ status[t] = "active"
  /\ status' = [status EXCEPT ![t] = "cancelled"]
  /\ UNCHANGED on

Finish(t) ==
  /\ status[t] \in {"active", "cancelled"}
  /\ status' = [status EXCEPT ![t] = "finished"]
  /\ UNCHANGED on

Next ==
  \E t \in Turn :
    \/ \E c \in Conv : Accept(t, c)
    \/ Cancel(t)
    \/ Finish(t)

Spec == Init /\ [][Next]_vars
==============================================================================

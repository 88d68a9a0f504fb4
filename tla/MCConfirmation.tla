---------------------------- MODULE MCConfirmation ----------------------------
(* One session, under two loads: on two pods that share a storage whose      *)
(* writes may fail, where pods die and one confirm is sent; and on one pod   *)
(* where nothing fails and a second confirm follows the first.               *)
EXTENDS Confirmation, FiniteSets, TLC

VARIABLE load

\* Pods are interchangeable.
Symmetric == Permutations(Pod)

Used == {pod[t] : t \in Turn} \cup {frame[f].pod : f \in Frame} \cup {None}

\* What a storage that never fails and a pod that lives on can do.
Healthy ==
  \/ \E t \in Turn : TurnStep(t)
  \/ \E f \in Frame :
       \/ DurableRead(f) /\ (stored # None => frame'[f].at = "retiring")
       \/ DurableRetire(f)
       \/ ContinueRefused(f) /\ busy[frame[f].pod] # None
       \/ \E t \in Turn : Continue(f, t)
       \/ \E p \in Pod, c \in prompted, ok \in BOOLEAN : Confirm(f, p, c, ok)
  \/ \E p \in Pod, t \in Turn : SendMessage(p, t)
  \/ \E w \in writes : WriteThrough(w)

OnOnePod == /\ Healthy
            /\ Cardinality(Used') <= 2
            /\ \A t \in Turn : tool'[t] # tool[t] => tool'[t] = CHOOSE a \in Tool : TRUE
OnPods == /\ Next
          /\ \A f \in Frame \ {1} : frame'[f] = Unsent

\* No turn follows the last one, which is not cancelled.
MCInit == Init /\ load \in {"pod", "pods"}
MCSpec == /\ MCInit
          /\ [][/\ UNCHANGED load
                /\ \/ load = "pod" /\ OnOnePod
                   \/ load = "pods" /\ OnPods
                /\ ~aborted'[MaxTurns]]_<<vars, load>>
==============================================================================

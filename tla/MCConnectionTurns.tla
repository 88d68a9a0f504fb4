-------------------------- MODULE MCConnectionTurns --------------------------
(* Connections that share their conversations, and two turns.               *)
EXTENDS ConnectionTurns, TLC

\* Connections and conversations are interchangeable.
Symmetric == Permutations(Conn) \cup Permutations(Conv)

\* Bound: one of the turns streams its events.
OneStreams == \A t, u \in Token : made[t] > 0 /\ made[u] > 0 => t = u
==============================================================================

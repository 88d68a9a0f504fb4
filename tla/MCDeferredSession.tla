-------------------------- MODULE MCDeferredSession --------------------------
(* Connections of one pod whose visitors open, reconnect and send.          *)
EXTENDS DeferredSession, TLC

\* Connections are interchangeable, and so are session ids.
Symmetric == Permutations(Conn) \cup Permutations(Session)
==============================================================================

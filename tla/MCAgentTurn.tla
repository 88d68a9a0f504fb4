----------------------------- MODULE MCAgentTurn -----------------------------
(* A public agent with a workflow and gated tools, and an internal one that  *)
(* enables no extension.                                                     *)
EXTENDS AgentTurn, TLC

Entry(id, enabled, level) == [id |-> id, enabled |-> enabled, authLevel |-> level]

Guided ==
  [instructions |-> "survey", persona |-> "", greeting |-> "hello",
   workflow |-> <<[id |-> "ask", next |-> "gone"], [id |-> "again", next |-> "ask"]>>,
   tools |-> <<Entry("lookup", None, "end_user"), Entry("purge", TRUE, "admin"),
               Entry("", TRUE, None), Entry("knowledge_search", FALSE, None)>>,
   extensions |-> <<Entry("x", None, None)>>, visibility |-> None,
   model |-> "agent", max_iterations |-> 100]

Open ==
  [instructions |-> "", persona |-> "kind", greeting |-> "hello", workflow |-> Malformed,
   tools |-> <<>>, extensions |-> <<Entry("x", FALSE, None)>>, visibility |-> "internal",
   model |-> "", max_iterations |-> None]

MCRow == {Guided, Open}
MCFrame == {[content |-> "image", skill |-> "review", model |-> "turn"]}

\* Turns are numbered down from MaxTurns; earlier ones have higher numbers.
Earlier(dir, k, content) == Message(dir, MaxTurns + k, content)
MCPast == {[log |-> <<>>, coded |-> FALSE],
           [log |-> <<Earlier("in", 3, "file"), Earlier("in", 2, "image"), Earlier("error", 2, "text"),
                      Earlier("in", 1, "image")>>, coded |-> TRUE]}
MCSetting == {[persona |-> "org", model |-> "org", tools |-> {"lookup"}]}
MCSupports == {{"choices"}}

\* A host that approves calls itself, and one with a gateway key for titles.
Site(asks, titles) ==
  [builtin |-> {"knowledge_search"}, host_tools |-> {"lookup", "purge"},
   extensions |-> {[name |-> "x", eager |-> {"x_read"}, deferred |-> {"x_write"}]},
   allow |-> {"x"}, auth_tools |-> {"lookup", "purge"}, persona |-> None,
   contact |-> TRUE, approver |-> asks, titles |-> titles]
MCDeployment == {Site(TRUE, FALSE), Site(FALSE, TRUE)}

\* The host that asks meets conversations that have been going on, the one that
\* gives titles new ones: what the two add to a state is then not multiplied.
\* A new conversation is at no step of its workflow.
MCInit == Init /\ \A s \in Session : /\ log[s] = <<>> <=> server.titles
                                     /\ log[s] = <<>> => row[s].meta.pointer = NoPointer
MCSpec == MCInit /\ [][Next]_vars

\* Sessions are interchangeable.
Symmetric == Permutations(Session)
==============================================================================

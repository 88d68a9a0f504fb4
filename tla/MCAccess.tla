------------------------------ MODULE MCAccess ------------------------------
(* Three connections, one conversation, two organizations.                *)
EXTENDS Access, TLC

Of(who, typed) == [who |-> who, typed |-> typed]
P(org, email) == Principal("u", org, "basic", email, {})

MCAnswer == {None, P("A", Of("ann", "lower")), P("A", Of("bob", "lower")),
             P("B", Of("ann", "lower")), P("A", None)}
DepOf(mode, strict, owned) ==
    [mode |-> mode, strict_auth |-> strict, require_owned |-> owned]
MCDeployment == {DepOf("jwt", FALSE, FALSE), DepOf("jwt", FALSE, TRUE),
                 DepOf("jwt", TRUE, FALSE), DepOf("local-token", FALSE, FALSE)}
MCWidgetOrg == {None, "B"}
FrameOf(email, phone) == [email |-> email, phone |-> phone]
MCFrame == {FrameOf(None, FALSE), FrameOf(Of("nobody", "blank"), FALSE),
            FrameOf(Of("bob", "caps"), FALSE)}
Symmetric == Permutations(Conn)

\* A rename changes nothing that is modelled: what follows it follows without it as
\* well.  And a conversation is named in a create while there is a session left for it.
Sliced ==
    /\ reply # None => reply.renamed = {}
    /\ \A k \in Conn :
          task[k].stage = "none" /\ task'[k].stage = "named" => FreshSess # {}
MCSpec == Init /\ [][Next /\ Sliced]_vars
=============================================================================

------------------------------ MODULE MCStorage ------------------------------
(* The storage rows under three loads, each small in what the others need.  *)
EXTENDS Storage, TLC

VARIABLE load

\* Clients are interchangeable.
Symmetric == Permutations(Client)

MCKey == 1 .. 3
Calls(S) == \A k \in Client : op'[k] # None => op'[k].kind \in S
Walks(S) == walk' # None => walk'.kind \in S

\* Two ids race for two keys; one conversation and the session are updated.
Rows ==
  /\ load = "rows" /\ Next
  /\ now' = 0 /\ seq' = 0 /\ walk' = None /\ owned' = {}
  /\ asked' \in [Conv -> {1, 2, None}] /\ asked'[3] = None
  /\ \A k \in Client : op'[k] # None => (op'[k].id = 2 => op'[k].kind = "item")
  /\ \A f \in Field : <<2, f>> \notin acked'

\* One conversation, appends and a walk through its messages.
History ==
  /\ load = "history" /\ Next /\ Walks({"history"}) /\ Calls({"item", "land"})
  /\ now' = 0 /\ acked' = {} /\ owned' = {} /\ row'[Sess] = None
  /\ asked'[2] = None /\ asked'[3] = None /\ asked'[1] \in {1, None}

\* Three conversations, two of them of one age and the reader's, and a
\* sidebar walk under which they are updated.
OldRow(c) == [key |-> c, name |-> 0, meta |-> 0, updated |-> IF c = 1 THEN 0 ELSE 1]
SidebarInit ==
  /\ backend \in Backend /\ now = 1
  /\ row = [id \in RowId |-> IF id = Sess THEN None ELSE OldRow(id)]
  /\ claim = [x \in Key |-> IF backend = "dynamodb"
                            THEN [id |-> x, row |-> OldRow(x)] ELSE None]
  /\ asked = [c \in Conv |-> c]
  /\ owned = {2, 3} /\ seq = 3
  /\ log = [c \in Conv |-> {c}]
  /\ op = [k \in Client |-> None]
  /\ answered = [x \in Key |-> {x}] /\ acked = {}
  /\ walk = None
Sidebar ==
  /\ load = "sidebar" /\ Next /\ Walks({"sidebar"}) /\ Calls({"apply", "put", "sync"})
  /\ walk' # None /\ asked' = asked /\ row'[Sess] = None /\ seq' = seq
  /\ Cardinality({k \in Client : op'[k] # None}) <= 1
  /\ \A c \in Conv : row'[c].meta = 0
  /\ \A k \in Client : op'[k] # None => op'[k].field = "name" /\ op'[k].id # 2
  /\ <<2, "name">> \notin acked'

RowsInit == \/ Init /\ load \in {"rows", "history"}
            \/ SidebarInit /\ load = "sidebar"
RowsNext == Rows \/ History \/ Sidebar

MCSpec == RowsInit /\ [][RowsNext /\ UNCHANGED load]_<<vars, load>>
==============================================================================

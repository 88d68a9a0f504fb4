------------------------------ MODULE MCStores ------------------------------
(* What the server keeps and how it is filled, one part at a time: the rows *)
(* of the adapters, the knowledge stores, the chunker and the connectors.   *)
EXTENDS MCStorage, Knowledge, Chunker, Ingestion

\* Workers too are interchangeable.
SymmetricStores == Permutations(Client) \cup Permutations(Worker)

-----------------------------------------------------------------------------
Named == [public |-> FALSE, users |-> {"u"}, groups |-> {}]
Grouped == [public |-> FALSE, users |-> {}, groups |-> {"g"}]
MCDocument ==
  {[org |-> None, acl |-> None, set |-> FALSE, boost |-> 1],
   [org |-> None, acl |-> Named, set |-> TRUE, boost |-> 1],
   [org |-> "B", acl |-> Grouped, set |-> TRUE, boost |-> 3]}
MCContext ==
  {[org |-> None, user |-> None, groups |-> {}],
   [org |-> "A", user |-> "u", groups |-> {}],
   [org |-> "A", user |-> "v", groups |-> {"g"}]}

\* One ingest at a time and one query, beside which one more document comes.
Searches ==
  /\ load = "search" /\ KNext
  /\ reader # None => reader.answer = None
  /\ reader' # None /\ kind = "dynamodb" => \E n \in Doc : reader'.scan = 1 .. n
  /\ Cardinality({d \in Doc : writing'[d] # None}) <= 1
  /\ reader = None => \A d, e \in Doc : truth'[d] # truth[d] /\ truth[e] # None => e <= d
  /\ reader # None => Cardinality({d \in Doc \ reader.base : truth'[d] # None}) <= 1

-----------------------------------------------------------------------------
\* The words of paragraphs whose words have these lengths; the first of a
\* paragraph may begin with '#'.
Laid(paras) ==
  FoldLeft(LAMBDA acc, p :
    LET ws == FoldLeft(LAMBDA s, n :
                [at |-> s.at + n,
                 out |-> Append(s.out, [from |-> s.at, to |-> s.at + n - 1,
                                        hash |-> p.h /\ s.out = <<>>, gap |-> 1])],
                [at |-> acc.at, out |-> <<>>], p.w)
    IN  [at |-> ws.at, out |-> Append(acc.out, ws.out)],
    [at |-> 1, out |-> <<>>], paras).out
Para == [h : BOOLEAN, w : {<<>>, <<4>>, <<1, 2>>, <<5, 1>>, <<2, 1, 2>>}]
MCText == {Laid(t) : t \in {<<a>> : a \in Para} \cup {<<a, b>> : a, b \in Para}}
MCSize == (1 .. 7) \X {0, 1, 2, 4, 9}

Chunking == load = "chunk" /\ CNext

-----------------------------------------------------------------------------
MCChunks == << <<1, 1>>, <<1, 2>>, <<1>>, <<1>> >>
Described(k, whole, hidden, ref) ==
  [kind |-> k, complete |-> whole, private |-> hidden, authRef |-> ref]
MCDescribe ==
  [s |-> Described("github", TRUE, TRUE, "resolves"), t |-> Described("web", TRUE, FALSE, "none"),
   u |-> Described("file", TRUE, FALSE, "none"), v |-> Described("github", TRUE, TRUE, "none"),
   x |-> Described("github", FALSE, FALSE, "none")]
Busy == {w \in Worker : job[w] # None}

\* One configured source where an issue is written over and over: beside an older
\* one, under two requests; beside a file, where the clocks differ; and beside two
\* newer ones, which fill the page.
Present == {d \in Item : head["s"][d] # None}
IndexInit ==
  /\ clock = 0
  /\ \E stand \in {{3}, {1}, {3, 4}} :
       head = [s \in Source |-> [d \in Item |-> IF s = "s" /\ d \in stand THEN 0 ELSE None]]
  /\ config = [c \in Tenant \X ConnId |-> IF c[1] = "A" THEN [name |-> "n", src |-> "s"]
                                                        ELSE None]
  /\ listed = [o \in Tenant |-> ConnName]
  /\ runs = {} /\ ledger = {} /\ base = [o \in Tenant |-> {}]
  /\ job = [w \in Worker |-> None]
Index ==
  /\ load = "index" /\ INext /\ config' = config /\ listed' = listed
  /\ Cardinality({r \in runs' : ~r.ok}) <= 1
  /\ Cardinality(runs') <= IF Cardinality({w \in Worker : job'[w] # None}) = 0 THEN 2 ELSE 1
  /\ \A s \in Source : head'[s] # head[s] => s = "s"
  /\ head'["s"] = [head["s"] EXCEPT ![2] = head'["s"][2]]
  /\ \/ Present \in {{3}, {2, 3}} /\ clock' < 2
     \/ Cardinality({w \in Worker : job'[w] # None}) <= 1
  /\ \/ 1 \in Present
     \/ \A w \in Worker : job[w] = None /\ job'[w] # None => job'[w].started = clock

\* Connectors of every kind in two organizations, made, changed and deleted, one
\* request at a time, over documents that stand.
Stands(s, d) == \/ d = 1 /\ s \in {"t", "u"}
                \/ d = 2 /\ s = "s"
MovedInit ==
  /\ clock = 0 /\ config = [c \in Tenant \X ConnId |-> None]
  /\ head = [s \in Source |-> [d \in Item |-> IF Stands(s, d) THEN 0 ELSE None]]
  /\ listed = [o \in Tenant |-> {}] /\ runs = {} /\ ledger = {}
  /\ base = [o \in Tenant |-> {}] /\ job = [w \in Worker |-> None]
Moved ==
  /\ load = "moved" /\ INext
  /\ clock' = 0 /\ head' = head
  /\ Cardinality(runs') <= 1
  /\ config' # config => Busy = {}
  /\ config'[<<"B", 1>>] # None => config'[<<"B", 1>>].src = "u"
  /\ Cardinality({w \in Worker : job'[w] # None}) <= 1

-----------------------------------------------------------------------------
Parts == {"rows", "history", "sidebar"}
StoresInit ==
  /\ load \in Parts \cup {"search", "chunk", "index", "moved"}
  /\ IF load = "sidebar" THEN SidebarInit
     ELSE Init /\ (load \notin Parts => backend = "memory")
  /\ KInit /\ IF load = "search" THEN kind \in {"postgres", "dynamodb"} \/ home = None
              ELSE kind = "acl" /\ home = None
  /\ IF load = "chunk" THEN CInit ELSE input = None /\ chunks = <<>>
  /\ IF load = "index" THEN IndexInit ELSE IF load = "moved" THEN MovedInit ELSE IInit

StoresNext ==
  /\ UNCHANGED load
  /\ \/ RowsNext /\ UNCHANGED <<kvars, cvars, ivars>>
     \/ Searches /\ UNCHANGED <<vars, cvars, ivars>>
     \/ Chunking /\ UNCHANGED <<vars, kvars, ivars>>
     \/ (Index \/ Moved) /\ UNCHANGED <<vars, kvars, cvars>>

StoresSpec == StoresInit /\ [][StoresNext]_<<vars, kvars, cvars, ivars, load>>
==============================================================================

------------------------------ MODULE Knowledge ------------------------------
(***************************************************************************)
(* Retrieval with tenants and document ACLs over the knowledge stores: the *)
(* in-memory AclKnowledgeStore and CuratedKnowledgeStore, which keep what  *)
(* they know of a document in a side table beside the inner store, and the *)
(* Postgres and DynamoDB knowledge bases, which keep it in the row.        *)
(* "default" is the adapter trait's knowledge_for_access, a side table of  *)
(* its own for every call.                                                 *)
(*                                                                         *)
(* An ingest records first and stores after; a query fetches candidates    *)
(* and filters them after (Postgres runs two statements, DynamoDB reads    *)
(* the partition in pages), so ingests and queries interleave.  Document   *)
(* ids are fresh UUIDs: no id is ingested twice.  Of two documents the one *)
(* with the smaller number scores higher.                                  *)
(***************************************************************************)
EXTENDS Option, Naturals, FiniteSets

CONSTANTS Kind,         \* stores considered
          Org, User, Group,
          Document,     \* what documents may carry: [org, acl, set, boost]
          Context,      \* access contexts of readers: [org, user, groups]
          MaxDoc,       \* bound on documents
          Worded,       \* documents the sparse arm's word match finds
          OVERFETCH_FACTOR, OVERFETCH_FLOOR,   \* 5 (4 in Postgres) and 20
          Limit         \* limits asked for

ASSUME KnowledgeAssumption ==
  /\ Kind \subseteq {"acl", "curated", "default", "postgres", "dynamodb"}
  /\ MaxDoc \in Nat /\ Limit \subseteq Nat \ {0}
  /\ OVERFETCH_FACTOR \in Nat \ {0} /\ OVERFETCH_FLOOR \in Nat

Doc == 1 .. MaxDoc
Acl == [public : BOOLEAN, users : SUBSET User, groups : SUBSET Group]
Entry == [org : OrNone(Org), acl : OrNone(Acl), set : BOOLEAN, boost : Nat]
Columns == [org : OrNone(Org), acl : OrNone(Acl)]
Origin == [org : OrNone(Org), acl : OrNone(Acl), set : BOOLEAN]
Reader == [ctx : Context, wanted : Limit, rerank : BOOLEAN, limit : Nat, sets : BOOLEAN,
           scan : SUBSET Doc, base : SUBSET Doc, found : SUBSET Doc, answer : OrNone(SUBSET Doc)]

\* What documents and requesters are; None is none of them.
ASSUME DocumentAssumption ==
  /\ Document \subseteq Entry
  /\ Context \subseteq [org : OrNone(Org), user : OrNone(User), groups : SUBSET Group]
  /\ None \notin User /\ None \notin Entry /\ None \notin Columns /\ None \notin Origin

VARIABLES
  kind,     \* the store
  home,     \* the organization the adapter was built with, if any
  entry,    \* side table: DocEntry and DocMeta by document
  rows,     \* documents a query can return, with the columns of their row
  truth,    \* whose each document is and who may read it, as it was ingested
  writing,  \* documents recorded and not yet stored
  reader    \* the query under way, and the answer of one that ended

kvars == <<kind, home, entry, rows, truth, writing, reader>>

KTypeOK ==
  /\ kind \in Kind /\ home \in OrNone(Org)
  /\ entry \in [Doc -> OrNone(Entry)]
  /\ rows \in [Doc -> OrNone(Columns)]
  /\ truth \in [Doc -> OrNone(Origin)]
  /\ writing \in [Doc -> OrNone(Document)]
  /\ reader \in OrNone(Reader)

KInit ==
  /\ kind \in Kind
  /\ home \in IF kind = "dynamodb" THEN Org ELSE OrNone(Org)
  /\ entry = [d \in Doc |-> None] /\ rows = [d \in Doc |-> None]
  /\ truth = [d \in Doc |-> None] /\ writing = [d \in Doc |-> None]
  /\ reader = None

Stored == {d \in Doc : rows[d] # None}
Sided == kind \in {"acl", "curated"}

-----------------------------------------------------------------------------
(* Entitlement.                                                            *)

can_access(ctx, acl) ==
  \/ acl.public
  \/ ctx.user # None /\ ctx.user \in acl.users
  \/ ctx.groups \cap acl.groups # {}

\* No recorded ACL is org-public.
AclAllows(ctx, acl) == acl = None \/ can_access(ctx, acl)

\* Mutation: documents of no organization are everybody's.
SameTenant_Unowned(ctx, org) == ctx.org = None \/ org \in {None, ctx.org}

\* A requester with an organization sees only what is recorded as that one's.
SameTenant(ctx, org) == ctx.org = None \/ org = ctx.org

-----------------------------------------------------------------------------
(* Ingest, through a handle that is bound to an organization or to none.   *)

Unused == {d \in Doc : truth[d] = None}
\* The organization of the row: the document's own, the handle's, the adapter's.
ingest_org(doc, bound) == Some(doc.org, Some(bound, home))
\* In a side table the adapter's plays no part.
recorded_org(doc, bound) == Some(doc.org, bound)

record_document(d, doc, bound) ==
  LET org == recorded_org(doc, bound)
  IN  entry' = IF org = None /\ doc.acl = None THEN entry
               ELSE [entry EXCEPT ![d] =
                       [org |-> org, acl |-> doc.acl, set |-> FALSE, boost |-> 1]]
record_ingest_metadata(d, doc) ==
  entry' = [entry EXCEPT ![d] =
              [org |-> None, acl |-> doc.acl, set |-> doc.set, boost |-> doc.boost]]

\* The ACL is in the table before the document can be found.
RecordIngest(d, doc, bound) ==
  /\ kind \in {"acl", "curated", "default"} /\ d \in Unused
  /\ CASE kind = "acl" -> record_document(d, doc, bound)
       [] kind = "curated" -> record_ingest_metadata(d, doc)
       [] OTHER -> UNCHANGED entry
  /\ truth' = [truth EXCEPT ![d] =
                [org |-> recorded_org(doc, bound), acl |-> doc.acl, set |-> doc.set]]
  /\ writing' = [writing EXCEPT ![d] = doc]
  /\ UNCHANGED <<kind, home, rows, reader>>

\* The inner store ingests it; an error leaves the entry and no document.
StoreIngest(d) ==
  /\ writing[d] # None
  /\ writing' = [writing EXCEPT ![d] = None]
  /\ rows' \in {[rows EXCEPT ![d] = [org |-> None, acl |-> None]], rows}
  /\ UNCHANGED <<kind, home, entry, truth, reader>>

\* Postgres and DynamoDB write the row with its organization and its ACL.
NewDocument(d, doc, bound) ==
  /\ d \in Unused
  /\ LET row == [org |-> ingest_org(doc, bound), acl |-> doc.acl]
     IN  /\ rows' = [rows EXCEPT ![d] = row]
         /\ truth' = [truth EXCEPT ![d] = [org |-> row.org, acl |-> row.acl, set |-> doc.set]]
  /\ UNCHANGED <<kind, home, entry, writing, reader>>
InsertDocument(d, doc, bound) == kind = "postgres" /\ NewDocument(d, doc, bound)
PutDocument(d, doc, bound) == kind = "dynamodb" /\ NewDocument(d, doc, bound)

\* The host tightens or loosens a document it knows by its id.
record_acl(d, acl) ==
  /\ kind = "acl" /\ truth[d] # None
  /\ entry' = [entry EXCEPT ![d] =
                 IF @ = None THEN [org |-> None, acl |-> acl, set |-> FALSE, boost |-> 1]
                 ELSE [@ EXCEPT !.acl = acl]]
  /\ truth' = [truth EXCEPT ![d].acl = acl]
  /\ UNCHANGED <<kind, home, rows, writing, reader>>

-----------------------------------------------------------------------------
(* Query.                                                                  *)

\* The n that score highest.
TopOf(n, S) == {d \in S : Cardinality({e \in S : e < d}) < n}
Pool(limit) == IF limit * OVERFETCH_FACTOR > OVERFETCH_FLOOR
               THEN limit * OVERFETCH_FACTOR ELSE OVERFETCH_FLOOR

\* The organization whose rows a handle bound to ctx reads; None is all of them.
query_org(ctx) == Some(ctx.org, home)
RowAllowed(ctx, d) ==
  /\ rows[d] # None
  /\ query_org(ctx) = None \/ rows[d].org = query_org(ctx)
  /\ AclAllows(ctx, rows[d].acl)

\* knowledge_search: what is asked for, or four times that when a reranker will
\* choose from it.
RERANK_OVERFETCH == 4
Fetch(wanted, rerank) == IF rerank THEN wanted * RERANK_OVERFETCH ELSE wanted

\* The first half of a query: the side-table stores fetch their candidates from
\* the inner store, Postgres runs the dense arm, DynamoDB reads a first page of
\* the partition.  The dense arm sorts by distance over an approximate (HNSW)
\* index: the scan comes back with whatever rows the index finds near, anybody's,
\* and the tenant's and the ACL's conditions are put to those.
Query(ctx, wanted, rerank, sets, scan) ==
  LET limit == Fetch(wanted, rerank)
  IN  /\ reader = None
      /\ sets => kind = "curated"
      /\ kind \notin {"postgres", "dynamodb"} => scan = Doc
      /\ reader' = [ctx |-> ctx, wanted |-> wanted, rerank |-> rerank, limit |-> limit,
                    sets |-> sets, scan |-> scan, base |-> Stored, answer |-> None,
                    found |-> CASE kind = "postgres" ->
                                     TopOf(Pool(limit), {d \in Stored \cap scan : RowAllowed(ctx, d)})
                                [] kind = "dynamodb" ->
                                     {d \in Stored \cap scan : RowAllowed(ctx, d)}
                                [] OTHER -> TopOf(Pool(limit), Stored)]
      /\ UNCHANGED <<kind, home, entry, rows, truth, writing>>

\* What stands for a document without an entry.
NoEntry == [org |-> None, acl |-> None]
DefaultMeta == [org |-> None, acl |-> None, set |-> FALSE, boost |-> 1]

\* RetrievalFilter: one that names no set takes every document.
matches(sets, meta) == sets => meta.set

\* AclReader: the tenant first, then the ACL, until the limit is reached.
acl_filter(r) ==
  LET known(d) == Some(IF kind = "acl" THEN entry[d] ELSE None, NoEntry)
  IN  TopOf(r.limit, {d \in r.found : /\ SameTenant(r.ctx, known(d).org)
                                      /\ AclAllows(r.ctx, known(d).acl)})

\* CuratedReader: the ACL, the filter's sets, then the boosted order.
curated_filter(r) ==
  LET known(d) == Some(entry[d], DefaultMeta)
      kept == {d \in r.found : /\ AclAllows(r.ctx, known(d).acl)
                               /\ matches(r.sets, known(d))}
      score(d) == (MaxDoc + 1 - d) * known(d).boost
      before(e, d) == score(e) > score(d) \/ (score(e) = score(d) /\ e < d)
  IN  {d \in kept : Cardinality({e \in kept : before(e, d)}) < r.limit}

\* Reciprocal rank fusion: of two hits, one that is no worse in either arm is not
\* left out for the other.  What the scores decide beyond that is left open.
FusedTops(dense, sparse, limit) ==
  LET hits == dense \cup sparse
      ahead(d, e) == d < e /\ (e \in dense => d \in dense) /\ (e \in sparse => d \in sparse)
      size == IF limit < Cardinality(hits) THEN limit ELSE Cardinality(hits)
  IN  {S \in SUBSET hits : /\ Cardinality(S) = size
                           /\ \A e \in S : \A d \in hits : ahead(d, e) => d \in S}

\* What the second half may come to: the side table is read, the sparse arm runs
\* and is fused with the dense one, or the rest of the partition is read.
Outcomes(r) ==
  CASE kind = "postgres" ->
         FusedTops(r.found, TopOf(Pool(r.limit),
                                  {d \in Stored \cap Worded : RowAllowed(r.ctx, d)}), r.limit)
    [] kind = "dynamodb" ->
         {TopOf(r.limit, r.found \cup {d \in Stored \ r.scan : RowAllowed(r.ctx, d)})}
    [] kind = "curated" -> {curated_filter(r)}
    [] OTHER -> {acl_filter(r)}

\* A reranker reorders what it is given and keeps the best.
apply_optional_rerank(S, r) ==
  IF r.rerank
  THEN {T \in SUBSET S : Cardinality(T) = IF r.wanted < Cardinality(S)
                                          THEN r.wanted ELSE Cardinality(S)}
  ELSE {TopOf(r.wanted, S)}

Answer ==
  /\ reader # None /\ reader.answer = None
  /\ \E S \in Outcomes(reader) :
       \E T \in apply_optional_rerank(S, reader) :
         reader' = [reader EXCEPT !.answer = T]
  /\ UNCHANGED <<kind, home, entry, rows, truth, writing>>

KNext ==
  \/ \E d \in Doc, doc \in Document, bound \in {ctx.org : ctx \in Context} :
       \/ RecordIngest(d, doc, bound)
       \/ InsertDocument(d, doc, bound) \/ PutDocument(d, doc, bound)
  \/ \E d \in Doc : StoreIngest(d) \/ \E acl \in {doc.acl : doc \in Document} \ {None} : record_acl(d, acl)
  \/ \E ctx \in Context, n \in Limit, rerank, sets \in BOOLEAN, scan \in SUBSET Doc :
       Query(ctx, n, rerank, sets, scan)
  \/ Answer

KSpec == KInit /\ [][KNext]_kvars

-----------------------------------------------------------------------------
\* Who may be shown a document, from how it was ingested.  A CuratedKnowledgeStore
\* leaves the tenant to the store it wraps.
Entitled(ctx, d) ==
  /\ truth[d] # None
  /\ kind = "curated" \/ ctx.org \in {None, truth[d].org}
  /\ LET acl == truth[d].acl
     IN  acl # None /\ ~acl.public => ctx.user \in acl.users \/ ctx.groups \cap acl.groups # {}

Wanted(r, d) == Entitled(r.ctx, d) /\ (r.sets => truth[d].set)
Blind(r) == kind = "default" /\ r.ctx.org = None
Smaller(a, b) == IF a < b THEN a ELSE b
Answered == /\ reader # None /\ reader.answer = None
            /\ reader' # None /\ reader'.answer # None
Full(r, docs) ==
  Cardinality(reader'.answer)
    >= Smaller(r.wanted, Cardinality({d \in docs : Wanted(r, d)}))

\* The documents of base that the query gets to look at; of Postgres the ones that
\* the scan of the index came back with and those with the words.
Reach(r) ==
  CASE Sided -> TopOf(Pool(r.limit), r.base)
    [] kind = "default" -> {}
    [] OTHER -> {d \in r.base : /\ query_org(r.ctx) \in {None, truth[d].org}
                                /\ kind = "postgres" => d \in r.scan \cup Worded}

\* A search is answered with documents its requester may read at that moment, of
\* the sets it asked for, and with as many of those that were stored when it began
\* as it has room for - on every store, however ingests and later ACL changes fall
\* between its two halves.  The stores that filter after the fetch see only the
\* candidate pool (see TopKFull), Postgres' dense arm what its index finds; the
\* trait's default knows no document and shows
\* a requester of an organization nothing (adapter.rs:490).
RetrievalExact ==
  [][Answered => /\ Blind(reader) \/ \A d \in reader'.answer : Wanted(reader, d)
                 /\ Full(reader, Reach(reader))]_kvars

\* access_control.rs:476 "so the post-filter top-K is full whenever enough
\* accessible documents exist": not when the documents that rank first are those
\* of others and fill the pool.
TopKFull == [][Answered /\ Sided => Full(reader, reader.base)]_kvars
=============================================================================

------------------------------ MODULE Ingestion ------------------------------
(***************************************************************************)
(* Connectors and incremental indexing: the admin API's connector configs, *)
(* the connectors' pull, the ingest pipeline with its ledger, and the runs *)
(* whose cursor says what the next pull may leave out.                     *)
(*                                                                         *)
(* Several index requests run side by side, of one connector too.  Each    *)
(* reads the cursor, pulls from a source that goes on changing, stores     *)
(* chunk by chunk into its organization's knowledge, and records its run;  *)
(* every stage can fail, a request whose client goes away is dropped where *)
(* it waits, and the process restarts.  The configs and the runs are kept  *)
(* in memory, or durably by stores that swallow every error of a call.     *)
(***************************************************************************)
EXTENDS Option, Naturals, FiniteSets, Sequences, SequencesExt

CONSTANTS Tenant,      \* organizations
          ConnId, ConnName,
          Source,      \* what a connector's config may point at
          Describe,    \* of a source: [kind, complete, private, authRef]
          MaxItem,     \* bound on the documents of a source
          Dated,       \* those that carry updated_at: GitHub's issues
          Chunks,      \* the texts of each one's chunks, which may repeat
          Worker,      \* index requests under way at a time
          PerPage,     \* issues of one pull (50)
          SharedLedger,\* IndexingService::with_ledger; the admin API has none
          Durable,     \* the admin stores are Postgres' or DynamoDB's
          Skew,        \* how far the server's clock and the source's may differ
          MaxClock

ASSUME IngestionAssumption ==
  /\ MaxItem \in Nat /\ PerPage \in Nat \ {0} /\ MaxClock \in Nat /\ Skew \in Nat
  /\ None \notin Nat /\ Dated \subseteq 1 .. MaxItem /\ Chunks \in [1 .. MaxItem -> Seq(Nat)]
  /\ SharedLedger \in BOOLEAN /\ Durable \in BOOLEAN
  /\ Describe \in [Source -> [kind : {"github", "web", "file"}, complete : BOOLEAN,
                             private : BOOLEAN, authRef : {"none", "resolves", "missing"}]]

Item == 1 .. MaxItem
Time == 0 .. MaxClock
ScopedKey == Tenant \X ConnName

VARIABLES
  clock,      \* the source's, which dates what changes
  head,       \* when each document of a source last changed
  config,     \* connector_configs by organization and id
  listed,     \* AppState::connectors, the names whose runs are listed
  runs,       \* the IndexingStore; src, whole and byClock are the model's
  ledger,     \* the shared ledger
  base,       \* chunks stored for each organization
  job         \* the index requests

ivars == <<clock, head, config, listed, runs, ledger, base, job>>

Config == [name : ConnName, src : Source]
Piece == Source \X Item \X Time \X Nat
Pending == [doc : Item, at : Nat, piece : Piece]   \* a chunk and its place in the pull
Run == [key : ScopedKey, src : Source, ok : BOOLEAN, cursor : OrNone(Time), whole : BOOLEAN,
        byClock : BOOLEAN]   \* the cursor is the server's time and no document's

Job == [key : ScopedKey, src : Source, started : Time, since : OrNone(Time),
        pulled : BOOLEAN, seen : SUBSET (Item \X Time), todo : SUBSET Pending,
        kept : SUBSET Piece, whole : BOOLEAN]

ITypeOK ==
  /\ clock \in Time
  /\ head \in [Source -> [Item -> OrNone(Time)]]
  /\ config \in [Tenant \X ConnId -> OrNone(Config)]
  /\ listed \in [Tenant -> SUBSET ConnName]
  /\ runs \subseteq Run
  /\ ledger \subseteq Tenant \X Piece
  /\ base \in [Tenant -> SUBSET Piece]
  /\ job \in [Worker -> OrNone(Job)]

IInit ==
  /\ clock = 0
  /\ head = [s \in Source |-> [d \in Item |-> None]]
  /\ config = [c \in Tenant \X ConnId |-> None]
  /\ listed = [o \in Tenant |-> {}]
  /\ runs = {} /\ ledger = {}
  /\ base = [o \in Tenant |-> {}]
  /\ job = [w \in Worker |-> None]

-----------------------------------------------------------------------------
(* The world: time passes and a source's documents are written; only a     *)
(* GitHub source has dated ones.                                           *)

Pass == /\ clock < MaxClock /\ clock' = clock + 1
        /\ UNCHANGED <<head, config, listed, runs, ledger, base, job>>

Write(s, d) ==
  /\ head[s][d] # clock
  /\ d \in Dated => Describe[s].kind = "github"
  /\ head' = [head EXCEPT ![s][d] = clock]
  /\ UNCHANGED <<clock, config, listed, runs, ledger, base, job>>

-----------------------------------------------------------------------------
(* The connector configs of the admin API.                                 *)

\* The fields the kind needs are there.
validate_connector(s) == Describe[s].complete

\* A secret that is named must resolve; only a public repository needs none.
resolve_github_auth(s) == \/ Describe[s].authRef = "resolves"
                          \/ Describe[s].authRef = "none" /\ ~Describe[s].private
build_connector(s) == /\ validate_connector(s)
                      /\ Describe[s].kind = "github" => resolve_github_auth(s)

\* A write to a durable store may be lost; nobody is told.
upsert(c, cfg) == \/ config' = [config EXCEPT ![c] = cfg]
                  \/ Durable /\ UNCHANGED config
record_connector(o, name) == listed' = [listed EXCEPT ![o] = @ \cup {name}]

create_connector(o, id, name, s) ==
  /\ config[<<o, id>>] = None /\ validate_connector(s)
  /\ upsert(<<o, id>>, [name |-> name, src |-> s])
  /\ record_connector(o, name)
  /\ UNCHANGED <<clock, head, runs, ledger, base, job>>

update_connector(o, id, name, s) ==
  /\ config[<<o, id>>] # None /\ validate_connector(s)
  /\ upsert(<<o, id>>, [name |-> name, src |-> s])
  /\ record_connector(o, name)
  /\ UNCHANGED <<clock, head, runs, ledger, base, job>>

delete_connector(o, id) ==
  /\ config[<<o, id>>] # None
  /\ config' = [config EXCEPT ![<<o, id>>] = None]
  /\ UNCHANGED <<clock, head, listed, runs, ledger, base, job>>

-----------------------------------------------------------------------------
(* Runs and their cursor.                                                  *)

Highest(S) == IF S = {} THEN None ELSE CHOOSE t \in S : \A u \in S : u <= t
latest_cursor(k) ==
  Highest({r.cursor : r \in {q \in runs : q.key = k /\ q.ok /\ q.cursor # None}})
\* None of the documents pulled has a date.
Undated(j) == j.seen # {} /\ \A x \in j.seen : x[1] \notin Dated
record_run(j, ok, cursor) ==
  \/ runs' = runs \cup {[key |-> j.key, src |-> j.src, ok |-> ok, cursor |-> cursor,
                         whole |-> j.whole, byClock |-> ok /\ Undated(j)]}
  \/ Durable /\ UNCHANGED runs

\* A durable store that cannot be read has no cursor, and the pull is a full one.
Since(k) == {latest_cursor(k)} \cup (IF Durable THEN {None} ELSE {})

\* POST /admin/connectors/{id}/index: the config is read, the run is named for the
\* organization and the connector's name, and starts from the last cursor, at what
\* the server's own clock says.
ServerTime == {t \in Time : t <= clock + Skew /\ clock <= t + Skew}
index_connector(w, o, id) ==
  /\ job[w] = None /\ config[<<o, id>>] # None
  /\ LET c == config[<<o, id>>]
     IN  /\ build_connector(c.src)
         /\ \E since \in Since(<<o, c.name>>), t \in ServerTime :
              job' = [job EXCEPT ![w] =
                       [key |-> <<o, c.name>>, src |-> c.src, started |-> t,
                        since |-> since, pulled |-> FALSE, seen |-> {},
                        todo |-> {}, kept |-> {}, whole |-> FALSE]]
  /\ UNCHANGED <<clock, head, config, listed, runs, ledger, base>>

End(w) == /\ job' = [job EXCEPT ![w] = None]
          /\ record_connector(job[w].key[1], job[w].key[2])

\* A failed run is recorded without a cursor.
record_failed(w) ==
  /\ End(w) /\ record_run(job[w], FALSE, None)
  /\ UNCHANGED <<clock, head, config, base>>

\* GitHub's pull: every file, and one page of the issues changed since, the newest
\* first.  A web page is one document, a directory its text files; neither is dated.
Changed(s, since) ==
  {d \in Item \cap Dated : head[s][d] # None /\ (since = None \/ head[s][d] >= since)}
pull_issues(s, since) ==
  {d \in Changed(s, since) : Cardinality({e \in Changed(s, since) : e > d}) < PerPage}
pull_files(s) == {d \in Item \ Dated : head[s][d] # None}
pull_page(s) == {d \in Item \ Dated : d = 1 /\ head[s][d] # None}
pull_directory(s) == {d \in Item \ Dated : head[s][d] # None}
Pulled(s, since) == CASE Describe[s].kind = "github" -> pull_files(s) \cup pull_issues(s, since)
                      [] Describe[s].kind = "web" -> pull_page(s)
                      [] Describe[s].kind = "file" -> pull_directory(s)
Due(s, since) == IF Describe[s].kind = "github" THEN Changed(s, since) ELSE {}

\* An issue whose comments cannot be fetched is taken without them.
issue_to_doc(d, bare) == IF d \in bare THEN SubSeq(Chunks[d], 1, 1) ELSE Chunks[d]

\* The chunks of what was pulled, each at its place.
ChunksOf(s, docs, bare) ==
  UNION {{[doc |-> d, at |-> i, piece |-> <<s, d, head[s][d], issue_to_doc(d, bare)[i]>>] :
            i \in DOMAIN issue_to_doc(d, bare)} : d \in docs}

pull(w) ==
  /\ job[w] # None /\ ~job[w].pulled
  /\ LET j == job[w]
         docs == Pulled(j.src, j.since)
     IN  \E bare \in SUBSET {d \in docs \cap Dated : Len(Chunks[d]) > 1} :
           job' = [job EXCEPT ![w] =
                    [j EXCEPT !.pulled = TRUE, !.todo = ChunksOf(j.src, docs, bare),
                              !.seen = {<<d, head[j.src][d]>> : d \in docs},
                              !.whole = bare = {} /\ Due(j.src, j.since) \subseteq docs]]
  /\ UNCHANGED <<clock, head, config, listed, runs, ledger, base>>

PullFails(w) ==
  /\ job[w] # None /\ ~job[w].pulled
  /\ record_failed(w) /\ UNCHANGED ledger

-----------------------------------------------------------------------------
(* The pipeline takes the chunks in order: one whose key is in the ledger  *)
(* is passed over, else the key is recorded and the chunk stored.          *)

Recorded(w) == IF SharedLedger THEN {e[2] : e \in {f \in ledger : f[1] = job[w].key[1]}}
               ELSE job[w].kept
Foremost(S) == {c \in S : \A e \in S : c.doc < e.doc \/ (c.doc = e.doc /\ c.at <= e.at)}
Ingesting(w, c) == job[w] # None /\ job[w].pulled /\ c \in Foremost(job[w].todo)
New(w, c) == c.piece \notin Recorded(w)
Record(w, c) == ledger' = IF SharedLedger THEN ledger \cup {<<job[w].key[1], c.piece>>}
                          ELSE ledger

SkipChunk(w, c) ==
  /\ Ingesting(w, c) /\ ~New(w, c)
  /\ job' = [job EXCEPT ![w].todo = @ \ {c}]
  /\ UNCHANGED <<clock, head, config, listed, runs, ledger, base>>

store_chunk(w, c) ==
  /\ Ingesting(w, c) /\ New(w, c)
  /\ Record(w, c)
  /\ job' = [job EXCEPT ![w].todo = @ \ {c}, ![w].kept = @ \cup {c.piece}]
  /\ base' = [base EXCEPT ![job[w].key[1]] = @ \cup {c.piece}]
  /\ UNCHANGED <<clock, head, config, listed, runs>>

\* The embedder fails before the key is recorded, the store after it.
IngestFails(w, c) ==
  /\ Ingesting(w, c) /\ New(w, c)
  /\ record_failed(w)
  /\ Record(w, c) \/ UNCHANGED ledger

\* Mutation: the cursor is the time of the record.
NextCursor_Now(j) == IF j.seen = {} THEN j.since ELSE clock

\* The highest updated_at that was pulled; when none was dated the start of the run,
\* by the server's clock; and the old cursor when nothing was pulled.
NextCursor(j) ==
  IF j.seen = {} THEN j.since
  ELSE Some(Highest({x[2] : x \in {y \in j.seen : y[1] \in Dated}}), j.started)

RunSucceeds(w) ==
  /\ job[w] # None /\ job[w].pulled /\ job[w].todo = {}
  /\ record_run(job[w], TRUE, NextCursor(job[w]))
  /\ End(w)
  /\ UNCHANGED <<clock, head, config, ledger, base>>

\* The client hangs up and the request is dropped.
Abandon(w) ==
  /\ job[w] # None /\ job' = [job EXCEPT ![w] = None]
  /\ UNCHANGED <<clock, head, config, listed, runs, ledger, base>>

\* The process goes down with its requests and comes up with what is durable; the
\* names whose runs are listed are not.
Restart ==
  /\ Durable
  /\ job' = [w \in Worker |-> None] /\ ledger' = {}
  /\ listed' = [o \in Tenant |-> {}]
  /\ UNCHANGED <<clock, head, config, runs, base>>

INext ==
  \/ Pass \/ Restart
  \/ \E s \in Source, d \in Item : Write(s, d)
  \/ \E o \in Tenant, id \in ConnId :
       \/ delete_connector(o, id)
       \/ \E name \in ConnName, s \in Source :
            create_connector(o, id, name, s) \/ update_connector(o, id, name, s)
       \/ \E w \in Worker : index_connector(w, o, id)
  \/ \E w \in Worker : \/ pull(w) \/ PullFails(w) \/ RunSucceeds(w) \/ Abandon(w)
  \/ \E w \in Worker : job[w] # None /\ \E c \in job[w].todo :
       SkipChunk(w, c) \/ store_chunk(w, c) \/ IngestFails(w, c)

ISpec == IInit /\ [][INext]_ivars

-----------------------------------------------------------------------------
\* The source dated this by a clock that may have been behind the server's when the
\* cursor was set to the server's time.
Uncertain(k, h) == \E r \in runs : /\ r.key = k /\ r.ok /\ r.byClock
                                   /\ h < r.cursor /\ r.cursor <= h + Skew

\* A document changed before a connector's cursor, so that it will not be pulled
\* again, and is not stored as it is now in the connector's organization.
Skips(c, d) ==
  LET k == <<c[1], config[c].name>>
      s == config[c].src
      h == head[s][d]
  IN  /\ latest_cursor(k) # None /\ h # None /\ h < latest_cursor(k)
      /\ \E t \in ToSet(Chunks[d]) : <<s, d, h, t>> \notin base[c[1]]
Covered(c) ==
  \A d \in Item \cap Dated :
    Skips(c, d) => Uncertain(<<c[1], config[c].name>>, head[config[c].src][d])

\* Every run under the connector's key pulled from its source, and got all of it.
Faithful(c) ==
  \A r \in runs : (r.key = <<c[1], config[c].name>> /\ r.ok)
                    => (r.src = config[c].src /\ r.whole)

\* However runs of one connector overlap, fail, are dropped, go down with the
\* process and are retried while its source changes, and whichever reads and writes
\* of the run store are lost, its cursor never passes a document that is not stored -
\* where the cursor is the server's time, up to what the clocks may differ by.
CursorCovers ==
  ~SharedLedger => \A c \in Tenant \X ConnId : config[c] # None /\ Faithful(c) => Covered(c)

\* indexing.rs:188 "incrementality comes from the cursor": a page that left
\* something out, an issue taken without its comments, or a connector pointed
\* elsewhere under its old name takes the cursor past documents that nobody stored,
\* and a shared ledger remembers chunks whose store failed; so does a pull of files
\* alone when the source dates the next issue before the server's start of it.
NothingSkipped == \A c \in Tenant \X ConnId : config[c] # None =>
                    \A d \in Item \cap Dated : ~Skips(c, d)

\* GET /admin/indexing/runs, "indexing-run status across the caller's org's
\* connectors" (admin.rs:394): the names it goes through are the process's own and
\* the runs outlive it.
indexing_runs(o) == {q \in runs : q.key[1] = o /\ q.key[2] \in listed[o]}
RunsListed == \A o \in Tenant : {q \in runs : q.key[1] = o} \subseteq indexing_runs(o)
=============================================================================

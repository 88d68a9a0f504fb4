------------------------------- MODULE Storage -------------------------------
(***************************************************************************)
(* The row slices of the StorageAdapter seam (smooth-operator adapter.rs)  *)
(* over its three backends: the in-memory tables behind one lock, Postgres *)
(* and the DynamoDB single table.  Clients create and update conversations *)
(* and sessions, add owners and append messages; a reader walks a          *)
(* conversation's messages, or the sidebar, page by page.                  *)
(*                                                                         *)
(* A call to a network backend is several steps: a timestamp or a sequence *)
(* number is taken, and the write lands later, or fails, or lands while    *)
(* its answer is lost.  DynamoDB has no partial update: it reads a row and *)
(* writes back the whole of it, and keeps a conversation twice, as the     *)
(* claim of its idempotency key and as the row itself.                     *)
(***************************************************************************)
EXTENDS Option, Naturals, FiniteSets, Sequences, SequencesExt

CONSTANTS Backend,    \* the backends considered
          Client,     \* tasks that write
          Key,        \* idempotency keys of one organization
          MaxConv,    \* bound on conversation ids
          MaxMsg,     \* bound on messages
          MaxTime,    \* bound on the clock
          PageSize,   \* the limits of the reader's pages; the handlers replace 0
          Matching    \* messages whose text contains what is searched for

ASSUME StorageAssumption ==
  /\ Backend \subseteq {"memory", "postgres", "dynamodb"}
  /\ MaxConv \in Nat \ {0} /\ MaxMsg \in Nat /\ MaxTime \in Nat
  /\ PageSize \subseteq Nat \ {0}
  /\ Matching \subseteq 1 .. MaxMsg

Conv == 1 .. MaxConv
Sess == 0                       \* the id of the one session row
RowId == Conv \cup {Sess}
Msg == 1 .. MaxMsg
Field == {"name", "meta"}       \* of a session: its status and its metadata

VARIABLES
  backend,
  now,
  row,        \* rows by id; a conversation's canonical item in DynamoDB
  claim,      \* DynamoDB: the idempotency claims and the body each carries
  asked,      \* the key each conversation id was sent with
  owned,      \* conversations with a user participant that is the reader
  log,        \* messages of each conversation; one is named by its number
  seq,        \* the counter that hands the numbers out
  op,         \* the call each client has under way
  answered,   \* ids that successful creates returned, by key
  acked,      \* updates that were answered with success
  walk        \* the reader

vars == <<backend, now, row, claim, asked, owned, log, seq, op, answered, acked,
          walk>>

Row == [key : Key \cup {None}, name : {0, 1}, meta : {0, 1}, updated : 0 .. MaxTime]
Body == [id : Conv, row : Row]

\* What a client of a network backend has under way.
Call == [kind : {"item"}, id : Conv, key : Key, row : Row]
          \cup [kind : {"apply"}, id : RowId, field : Field, at : 0 .. MaxTime]
          \cup [kind : {"put"}, id : RowId, field : Field, row : Row]
          \cup [kind : {"sync"}, id : Conv, field : Field, row : Row]
          \cup [kind : {"land"}, id : Conv, seq : Msg]

\* What the sidebar's listing holds of a conversation.
Listing == [id : Conv, updated : 0 .. MaxTime, name : {0, 1}]

\* None is no key, no row, no claim, no message and no position.
ASSUME NoneAssumption == /\ None \notin Key /\ None \notin Row /\ None \notin Body
                         /\ None \notin Msg /\ None \notin Listing

NewRow(key) == [key |-> key, name |-> 0, meta |-> 0, updated |-> now]
Exists(id) == row[id] # None

TypeOK ==
  /\ backend \in Backend /\ now \in 0 .. MaxTime
  /\ row \in [RowId -> Row \cup {None}]
  /\ claim \in [Key -> Body \cup {None}]
  /\ asked \in [Conv -> Key \cup {None}]
  /\ owned \subseteq Conv
  /\ log \in [Conv -> SUBSET Msg] /\ seq \in 0 .. MaxMsg
  /\ op \in [Client -> OrNone(Call)]
  /\ answered \in [Key -> SUBSET Conv]
  /\ acked \subseteq RowId \X Field

Init ==
  /\ backend \in Backend /\ now = 0
  /\ row = [id \in RowId |-> None]
  /\ claim = [x \in Key |-> None]
  /\ asked = [c \in Conv |-> None]
  /\ owned = {} /\ seq = 0
  /\ log = [c \in Conv |-> {}]
  /\ op = [k \in Client |-> None]
  /\ answered = [x \in Key |-> {}] /\ acked = {}
  /\ walk = None

\* The clock of the pods, which the model takes to agree.
Tick == /\ now < MaxTime /\ now' = now + 1
        /\ UNCHANGED <<backend, row, claim, asked, owned, log, seq, op, answered,
                       acked, walk>>

Network == backend \in {"postgres", "dynamodb"}
Begin(k, call) == op[k] = None /\ op' = [op EXCEPT ![k] = call]
Goes(k, kind) == op[k] # None /\ op[k].kind = kind
Done(k) == op' = [op EXCEPT ![k] = None]

\* The reader's sidebar walk remembers which rows were written under it.
Touch(id) ==
    walk' = IF walk # None /\ walk.kind = "sidebar"
            THEN [walk EXCEPT !.touched = @ \cup {id}] ELSE walk

-----------------------------------------------------------------------------
(* create_conversation: ids are fresh UUIDs, and a retry sends the same    *)
(* conversation with the same key.                                         *)

Holder(key) == {id \in Conv : Exists(id) /\ row[id].key = key}
Sends(id, key) == /\ asked[id] \in {None, key}
                  /\ asked' = [asked EXCEPT ![id] = key]
Returns(key, ids) == answered' = [answered EXCEPT ![key] = @ \cup ids]

\* Mutation: a create does not look for its key's row.
StoreOnce_Always(id, key) == row' = [row EXCEPT ![id] = NewRow(key)]

\* A row of the organization with this key stays; else the conversation is stored.
StoreOnce(id, key) ==
    row' = IF Holder(key) # {} THEN row ELSE [row EXCEPT ![id] = NewRow(key)]

\* In memory: looked up and inserted under the one lock.
CreateLocked(id, key) ==
  /\ backend = "memory" /\ Sends(id, key)
  /\ StoreOnce(id, key)
  /\ Returns(key, IF Holder(key) # {} THEN Holder(key) ELSE {id})
  /\ Touch(id)
  /\ UNCHANGED <<backend, now, claim, owned, log, seq, op, acked>>

\* Postgres: INSERT ... ON CONFLICT DO NOTHING, then the row of the key is read
\* back; or the statement fails, or lands and the answer is lost.
CreateRow(id, key) ==
  /\ backend = "postgres" /\ Sends(id, key)
  /\ \/ /\ StoreOnce(id, key)
        /\ \/ Returns(key, IF Holder(key) # {} THEN Holder(key) ELSE {id})
           \/ UNCHANGED answered
     \/ UNCHANGED <<row, answered>>
  /\ Touch(id)
  /\ UNCHANGED <<backend, now, claim, owned, log, seq, op, acked>>

\* DynamoDB: a conditional put claims the key.  A conflict answers with the
\* conversation in the claim's body.
ClaimKey(k, id, key) ==
  /\ backend = "dynamodb" /\ Sends(id, key)
  /\ IF claim[key] = None
     THEN /\ claim' = [claim EXCEPT ![key] = [id |-> id, row |-> NewRow(key)]]
          /\ Begin(k, [kind |-> "item", id |-> id, key |-> key, row |-> NewRow(key)])
          /\ UNCHANGED answered
     ELSE /\ op[k] = None /\ Returns(key, {claim[key].id})
          /\ UNCHANGED <<claim, op>>
  /\ UNCHANGED <<backend, now, row, owned, log, seq, acked, walk>>

\* The claim won: the canonical item is put, or the put fails and the caller is
\* told so.
PutItem(k) ==
  /\ Goes(k, "item") /\ Done(k)
  /\ \/ /\ row' = [row EXCEPT ![op[k].id] = op[k].row]
        /\ Returns(op[k].key, {op[k].id}) /\ Touch(op[k].id)
     \/ UNCHANGED <<row, answered, walk>>
  /\ UNCHANGED <<backend, now, claim, asked, owned, log, seq, acked>>

\* create_session: a put, which only a retry repeats before the session serves
\* anything; an insert in Postgres, which refuses a second one.
NewSession ==
  /\ \A f \in Field : <<Sess, f>> \notin acked
  /\ \A k \in Client : op[k] # None => op[k].id # Sess
  /\ row' = [row EXCEPT ![Sess] = NewRow(None)]
  /\ UNCHANGED <<backend, now, claim, asked, owned, log, seq, op, answered, acked, walk>>
CreateSession == backend = "memory" /\ NewSession
InsertSession == backend = "postgres" /\ ~Exists(Sess) /\ NewSession
PutSession == backend = "dynamodb" /\ NewSession

-----------------------------------------------------------------------------
(* update_conversation and update_session: the fields that are Some are    *)
(* set, updated_at is the caller's clock.                                  *)

Patched(r, field, at) == [r EXCEPT ![field] = 1, !.updated = at]

UpdateInPlace(id, field) ==
  /\ backend = "memory" /\ Exists(id)
  /\ row' = [row EXCEPT ![id] = Patched(@, field, now)]
  /\ acked' = acked \cup {<<id, field>>}
  /\ Touch(id)
  /\ UNCHANGED <<backend, now, claim, asked, owned, log, seq, op, answered>>
UpdateConversation(c, field) == UpdateInPlace(c, field)
UpdateSession(field) == UpdateInPlace(Sess, field)

\* Postgres: the timestamp is taken before the statement runs.
Stamp(k, id, field) ==
  /\ backend = "postgres" /\ Exists(id)
  /\ Begin(k, [kind |-> "apply", id |-> id, field |-> field, at |-> now])
  /\ UNCHANGED <<backend, now, row, claim, asked, owned, log, seq, answered, acked, walk>>

ApplyUpdate(k) ==
  /\ Goes(k, "apply") /\ Done(k)
  /\ \/ /\ row' = [row EXCEPT ![op[k].id] = Patched(@, op[k].field, op[k].at)]
        /\ Touch(op[k].id)
        /\ \/ acked' = acked \cup {<<op[k].id, op[k].field>>}
           \/ UNCHANGED acked
     \/ UNCHANGED <<row, acked, walk>>
  /\ UNCHANGED <<backend, now, claim, asked, owned, log, seq, answered>>

\* DynamoDB: the row is read, changed and written back whole; a conversation's
\* claim is then given the same body.
ReadRow(k, id, field) ==
  /\ backend = "dynamodb" /\ Exists(id)
  /\ Begin(k, [kind |-> "put", id |-> id, field |-> field,
               row |-> Patched(row[id], field, now)])
  /\ UNCHANGED <<backend, now, row, claim, asked, owned, log, seq, answered, acked, walk>>

PutRow(k) ==
  /\ Goes(k, "put")
  /\ \/ /\ row' = [row EXCEPT ![op[k].id] = op[k].row]
        /\ Touch(op[k].id)
        /\ IF op[k].id = Sess
           THEN Done(k) /\ acked' = acked \cup {<<Sess, op[k].field>>}
           ELSE op' = [op EXCEPT ![k].kind = "sync"] /\ UNCHANGED acked
     \/ Done(k) /\ UNCHANGED <<row, acked, walk>>
  /\ UNCHANGED <<backend, now, claim, asked, owned, log, seq, answered>>

SyncClaim(k) ==
  /\ Goes(k, "sync") /\ Done(k)
  /\ \/ /\ claim' = [claim EXCEPT ![op[k].row.key] = [id |-> op[k].id, row |-> op[k].row]]
        /\ acked' = acked \cup {<<op[k].id, op[k].field>>}
     \/ UNCHANGED <<claim, acked>>
  /\ UNCHANGED <<backend, now, row, asked, owned, log, seq, answered, walk>>

-----------------------------------------------------------------------------
(* add_participant (the reader becomes an owner), append_message.          *)

NewOwner(c) ==
  /\ Exists(c) /\ owned' = owned \cup {c}
  /\ UNCHANGED <<backend, now, row, claim, asked, log, seq, op, answered, acked, walk>>
AddOwner(c) == backend = "memory" /\ NewOwner(c)
InsertOwner(c) == backend = "postgres" /\ c \notin owned /\ NewOwner(c)
PutOwner(c) == backend = "dynamodb" /\ NewOwner(c)

AppendLocked(c) ==
  /\ backend = "memory" /\ Exists(c) /\ seq < MaxMsg
  /\ seq' = seq + 1
  /\ log' = [log EXCEPT ![c] = @ \cup {seq + 1}]
  /\ Touch(c)
  /\ UNCHANGED <<backend, now, row, claim, asked, owned, op, answered, acked>>

\* The number is drawn (BIGSERIAL, or an atomic ADD on the counter item) and the
\* message is committed or put later, or not at all.
next_message_seq(k, c) ==
  /\ Network /\ Exists(c) /\ seq < MaxMsg
  /\ seq' = seq + 1
  /\ Begin(k, [kind |-> "land", id |-> c, seq |-> seq + 1])
  /\ UNCHANGED <<backend, now, row, claim, asked, owned, log, answered, acked, walk>>

Lands(k) ==
  /\ Goes(k, "land") /\ Done(k)
  /\ \/ /\ log' = [log EXCEPT ![op[k].id] = @ \cup {op[k].seq}]
        /\ Touch(op[k].id)
     \/ UNCHANGED <<log, walk>>
  /\ UNCHANGED <<backend, now, row, claim, asked, owned, seq, answered, acked>>
CommitMessage(k) == backend = "postgres" /\ Lands(k)
PutMessage(k) == backend = "dynamodb" /\ Lands(k)

-----------------------------------------------------------------------------
(* list_messages_by_conversation: one page of q.limit messages after       *)
(* q.cursor, and the cursor of the next page.                              *)

\* A set in the order that its pairs give.
Sorted(S, pairs) == CHOOSE s \in [1 .. Cardinality(S) -> S] :
                      \A i, j \in DOMAIN s : i < j => <<s[i], s[j]>> \in pairs
InOrder(desc, a, b) == IF desc THEN a > b ELSE a < b
Ordered(S, desc) == Sorted(S, {p \in S \X S : InOrder(desc, p[1], p[2])})
Take(s, n) == SubSeq(s, 1, IF n < Len(s) THEN n ELSE Len(s))
Past(q) == {m \in log[q.conv] : q.cursor = None \/ InOrder(q.desc, q.cursor, m)}
\* The rows fetched, of which the one past the limit only says there are more.
PageOf(items, limit) ==
    [messages |-> Take(items, limit),
     next |-> IF Len(items) > limit THEN items[limit] ELSE None]

\* In memory: the whole order, from the position after the cursor.
memory_page(q) ==
    LET ids == Ordered(log[q.conv], q.desc)
        at == {i \in DOMAIN ids : ids[i] = q.cursor}
        start == IF at = {} THEN 0 ELSE CHOOSE i \in at : TRUE
        slice == Take(SubSeq(ids, start + 1, Len(ids)), q.limit)
    IN  [messages |-> slice,
         next |-> IF start + Len(slice) < Len(ids) THEN Last(slice) ELSE None]

\* Mutation: the extra row that tells whether more follow is not asked for.
postgres_page_Limit(q) == PageOf(Take(Ordered(Past(q), q.desc), q.limit), q.limit)

\* Postgres: seq strictly past the cursor's, LIMIT limit + 1.
postgres_page(q) == PageOf(Take(Ordered(Past(q), q.desc), q.limit + 1), q.limit)

\* DynamoDB: one Query, a BETWEEN over the sort keys with Limit = limit + 1, which
\* returns no more items than fit into 1 MB; where it stopped (LastEvaluatedKey) is
\* not looked at.  Descending the band includes the cursor itself, which is dropped
\* from what was fetched.  An item has at most 400 KB, so two always fit.
Fitting(n) == 2 .. n + 2
Band(q) == Past(q) \cup (IF q.desc /\ q.cursor # None THEN {q.cursor} ELSE {})
dynamodb_query(q, fits) ==
    Take(Ordered(Band(q), q.desc), IF fits <= q.limit THEN fits ELSE q.limit + 1)
dynamodb_page(q, fits) ==
    PageOf(Ordered(ToSet(dynamodb_query(q, fits)) \ {q.cursor}, q.desc), q.limit)

list_messages_by_conversation(q, fits) ==
    CASE backend = "memory" -> memory_page(q)
      [] backend = "postgres" -> postgres_page(q)
      [] backend = "dynamodb" -> dynamodb_page(q, fits)

\* The size and not the limit kept items of the band back.
Cut(q, fits) == /\ backend = "dynamodb" /\ fits <= q.limit
                /\ ToSet(dynamodb_query(q, fits)) # Band(q)

StartHistory(c, desc, limit) ==
  /\ walk = None /\ Exists(c)
  /\ walk' = [kind |-> "history", conv |-> c, desc |-> desc, limit |-> limit,
              cursor |-> None, got |-> <<>>, base |-> log[c], cut |-> FALSE,
              done |-> FALSE]
  /\ UNCHANGED <<backend, now, row, claim, asked, owned, log, seq, op, answered, acked>>

HistoryPage ==
  /\ walk # None /\ walk.kind = "history" /\ ~walk.done
  /\ \E fits \in Fitting(MaxMsg) :
       LET page == list_messages_by_conversation(walk, fits)
       IN  walk' = [walk EXCEPT !.got = @ \o page.messages, !.cursor = page.next,
                                !.cut = @ \/ Cut(walk, fits), !.done = page.next = None]
  /\ UNCHANGED <<backend, now, row, claim, asked, owned, log, seq, op, answered, acked>>

-----------------------------------------------------------------------------
(* list_owned_conversation_summaries_page: the conversations are listed,   *)
(* then owners and messages are read one conversation at a time.           *)

\* Newest first, ties by id, descending; precedes is strictly after the key.
precedes(key, c) == \/ c.updated < key.updated
                    \/ c.updated = key.updated /\ c.id < key.id
\* Mutation: ties of updated_at are not broken by the id.
admits_position_Time(after, c) == after = None \/ c.updated < after.updated
admits_position(after, c) == after = None \/ precedes(after, c)
NewestFirst(S) == Sorted(S, {p \in S \X S : precedes(p[1], p[2])})

\* The title the sidebar shows, or the first message, contains the search.
First(S) == CHOOSE m \in S : \A n \in S : m <= n
matches_search(search, name, msgs) ==
    search => (name = 1 \/ First(msgs) \in Matching)
Shown(search, c, name) ==
    c \in owned /\ log[c] # {} /\ matches_search(search, name, log[c])

ListedRow(c) == [id |-> c, updated |-> row[c].updated, name |-> row[c].name]
Listed == {ListedRow(c) : c \in {d \in Conv : Exists(d)}}

\* DynamoDB: one Query again, whose items come in the order of their ids.
list_conversations_by_org(fits) ==
    IF backend = "dynamodb"
    THEN {c \in Listed : Cardinality({d \in Listed : d.id < c.id}) < fits} ELSE Listed

StartSidebar(search, limit) ==
  /\ walk = None
  /\ walk' = [kind |-> "sidebar", search |-> search, limit |-> limit,
              after |-> None, listed |-> None, got |-> <<>>, touched |-> {},
              base |-> {c.id : c \in {d \in Listed : Shown(search, d.id, d.name)}},
              cut |-> FALSE, done |-> FALSE]
  /\ UNCHANGED <<backend, now, row, claim, asked, owned, log, seq, op, answered, acked>>

InSidebar == walk # None /\ walk.kind = "sidebar" /\ ~walk.done

ListRows ==
  /\ InSidebar /\ walk.listed = None
  /\ \E fits \in Fitting(MaxConv) :
       LET convs == list_conversations_by_org(fits)
       IN  walk' = [walk EXCEPT !.listed = convs, !.cut = @ \/ convs # Listed]
  /\ UNCHANGED <<backend, now, row, claim, asked, owned, log, seq, op, answered, acked>>

\* One row past the page tells whether there is a next one; the cursor is the key
\* of the last row returned.
SidebarPage ==
  /\ InSidebar /\ walk.listed # None
  /\ LET rows == Take(NewestFirst({c \in walk.listed :
                        /\ admits_position(walk.after, c)
                        /\ Shown(walk.search, c.id, c.name)}), walk.limit + 1)
         page == Take(rows, walk.limit)
         more == Len(rows) > walk.limit
     IN  walk' = [walk EXCEPT
                   !.got = @ \o [i \in DOMAIN page |-> page[i].id],
                   !.after = IF more THEN Last(page) ELSE None,
                   !.listed = None, !.done = ~more]
  /\ UNCHANGED <<backend, now, row, claim, asked, owned, log, seq, op, answered, acked>>

-----------------------------------------------------------------------------
Step(k) == \/ PutItem(k) \/ ApplyUpdate(k) \/ PutRow(k) \/ SyncClaim(k)
           \/ CommitMessage(k) \/ PutMessage(k)
           \/ \E id \in Conv, key \in Key : ClaimKey(k, id, key)
           \/ \E id \in RowId, f \in Field : Stamp(k, id, f) \/ ReadRow(k, id, f)
           \/ \E c \in Conv : next_message_seq(k, c)
Locked == \/ \E id \in Conv, key \in Key : CreateLocked(id, key) \/ CreateRow(id, key)
          \/ CreateSession \/ InsertSession \/ PutSession
          \/ \E f \in Field : UpdateSession(f) \/ \E c \in Conv : UpdateConversation(c, f)
          \/ \E c \in Conv : \/ AddOwner(c) \/ InsertOwner(c) \/ PutOwner(c)
                            \/ AppendLocked(c)
Reads == \/ \E c \in Conv, desc \in BOOLEAN, limit \in PageSize : StartHistory(c, desc, limit)
         \/ \E search \in BOOLEAN, limit \in PageSize : StartSidebar(search, limit)
         \/ HistoryPage \/ ListRows \/ SidebarPage

Next == Tick \/ Locked \/ Reads \/ \E k \in Client : Step(k)
Spec == Init /\ [][Next]_vars

-----------------------------------------------------------------------------
Distinct(s) == \A i, j \in DOMAIN s : i # j => s[i] # s[j]
Has(s, x) == \E i \in DOMAIN s : s[i] = x

\* A walk through a conversation's messages returns them in order, none twice and,
\* of those stored when it began, none ahead of one that it left out; once a page
\* comes without a next cursor it has returned them all (adapter.rs MessagePage) -
\* except where a DynamoDB Query was cut short, and except for the newest-first walk
\* over DynamoDB, see HistoryEnds.
HistoryWalk ==
  (walk # None /\ walk.kind = "history") =>
    /\ \A i, j \in DOMAIN walk.got :
         i < j => InOrder(walk.desc, walk.got[i], walk.got[j])
    /\ \A m \in walk.base, i \in DOMAIN walk.got :
         InOrder(walk.desc, m, walk.got[i]) => Has(walk.got, m)
    /\ walk.done /\ ~walk.cut /\ ~(walk.desc /\ backend = "dynamodb")
         => \A m \in walk.base : Has(walk.got, m)

\* adapter.rs:60 "with an opaque cursor for the next page (`None` when exhausted)",
\* which is what get_conversation_messages passes on as hasMore; even where every
\* Query came back whole.
HistoryEnds ==
  (walk # None /\ walk.kind = "history" /\ walk.done /\ ~walk.cut)
    => \A m \in walk.base : Has(walk.got, m)

\* handler.rs handle_list_conversations: a conversation that is not touched while
\* its owner pages through the sidebar is never skipped, unless the organization's
\* rows did not fit into one DynamoDB Query (see SidebarReaches).  The tables behind
\* one lock also never show one twice.
SidebarWalk ==
  (walk # None /\ walk.kind = "sidebar") =>
    /\ walk.done /\ ~walk.cut => \A c \in walk.base \ walk.touched : Has(walk.got, c)
    /\ backend = "memory" => Distinct(walk.got)

\* What that comment says of every backend.  A conversation whose row lies beyond
\* the first 1 MB of its organization's is in no page.
SidebarReaches ==
  (walk # None /\ walk.kind = "sidebar" /\ walk.done)
    => \A c \in walk.base \ walk.touched : Has(walk.got, c)

\* The same comment says "a page never repeats a row an earlier page returned".
\* Two updates of a conversation that land in the other order than they took their
\* timestamps move it below the cursor again.
SidebarNoRepeat == (walk # None /\ walk.kind = "sidebar") => Distinct(walk.got)

\* However creates of one key race, fail and are retried, they are answered with
\* one conversation, and no second one has a row.
OneConversationPerKey ==
  \A x \in Key : Cardinality(answered[x] \cup Holder(x)) <= 1

\* An update that was answered is still there, whatever was updated beside it:
\* adapter.rs "None fields are left unchanged".  Two DynamoDB updates that read the
\* row before either writes it back lose one.
UpdateKept == \A u \in acked : row[u[1]][u[2]] = 1

\* The rows are what callers were told: one conversation for all the creates of a
\* key on every backend, and every answered update except over DynamoDB.
RowsAsTold == OneConversationPerKey /\ (backend # "dynamodb" => UpdateKept)

\* A create that was answered with success left a row: a retry after the canonical
\* put failed is answered from the claim, and no row is ever written.
CreatedIsFound ==
  (\A k \in Client : op[k] = None) =>
    \A x \in Key : \A id \in answered[x] : Exists(id)

\* DynamoDB's claim has the body of the row when nothing is under way
\* (dynamodb/src/lib.rs:516 "not a stale snapshot").
ClaimInSync ==
  (\A k \in Client : op[k] = None) =>
    \A x \in Key : claim[x] # None /\ Exists(claim[x].id) => claim[x].row = row[claim[x].id]
=============================================================================

# A TLA+ verification of smooth-operator

smooth-operator is an AI agent service: clients talk to it over WebSockets, it
runs agent turns against a model, keeps conversations in storage, and stops
before write tools until a human approves. This directory holds TLA+ models of
the Rust server (`rust/smooth-operator-server`), its core library
(`rust/smooth-operator`), its storage adapters and its ingestion, the TLC runs
that check them on small instances, and TLAPS proofs, for instances of any size,
of what the registry, the connections and turns, deferred sessions,
confirmations, interactions, agent turns, authentication caches, access checks,
storage adapters, knowledge stores and ingestion promise.

Paths without a directory are relative to `rust/smooth-operator-server/src/`;
`core/` stands for `rust/smooth-operator/src/`, `adapters/` and `ingestion/` for
`rust/adapters/` and `rust/ingestion/src/`.

## Inventory

| Part | State it keeps | Operations | What is hard |
| --- | --- | --- | --- |
| Running-turn registry (`running_turns.rs`) | conversation -> entry with token, flag, abort handle | try_reserve, cancel, set_abort, release, drop of a reservation | late releases of old turns, cancels from other connections, the window before the abort handle is known |
| Connection loop (`server.rs`) | `current_turn`, `cancelled_request`, the sink's queue, shutdown token | text frames, cancel, disconnect, shutdown, writer | reader, writer, turn and translator run in parallel; abort is asynchronous |
| send_message and the turn task (`handler.rs`, `runner.rs`) | the turn's place, cancelled flag, history, its tools and prompt, the title | claim, refuse, ack, spawn, prepare, call tools, stream, persist, tail, error tail, auto-title | a flag or a row read before an await and used after it; disconnects; renames beside the titler |
| Deferred sessions (`state.rs`, `handler.rs`) | `pending_sessions`, session registry, four rows per create | park, materialize, flush, re-park, discard, immediate create, resume | partial failure, records out of the map while they are flushed, closing connections |
| Write-tool confirmation (`state.rs`, `runner.rs`, `handler.rs`) | responder per session, durable record, pre-approval | park, confirm, durable fallback, continuation, teardown | unordered record writes, duplicate and late confirms, several pods, crashes |
| Rich interactions (`handler.rs`, `runner.rs`, `core/interaction.rs`, `core/identity_intake.rs`, `core/choices.rs`) | registered card per pod, durable record, contact of the session | raise, bridge, submit, take, resolve, decline, time out | peek and take under separate locks, durable answers on other pods, effects after the take |
| Session metadata (`state.rs`) | a cached copy per pod, the map in storage | load, set key, set authenticated, attach identity | whole maps written from stale copies, in spawned tasks |
| Workflows, OTP, host approver (`core/agent_config.rs`, `runner.rs`, `handler.rs`) | step pointer and attempts, `otpVerified`, the one active turn of the process | judge, cap, persist, verify, activate, ask, deactivate | lost updates, off-by-one at the cap, turns of two sessions at once |
| Authentication and widget auth (`core/auth.rs`, `core/widget_auth.rs`, `server.rs`) | JWKS cache, policy cache | select a verifier, verify, refresh, upgrade, embed | fetches outside the lock, key rotation and withdrawal, outages |
| Access to conversations (`handler.rs`) | organization of a session, owners of a conversation | create, resume, every session-addressed read and write, listing | rows that land one by one, owners gained later |
| Storage adapters (`adapters/*`) | conversations, participants, sessions, messages, claims of keys | create once, insert, update, append, page | lost answers and retries, whole-row writes, two items per conversation, keyset paging |
| Knowledge (`core/access_control.rs`, `core/curation.rs`, adapters) | documents with tenant, ACL, curation | ingest, query | side tables, pools that are filtered afterwards |
| Ingestion (`ingestion/*`, `admin.rs`, adapters' `admin.rs`) | configs, runs with a cursor, ledger | connector CRUD, pull, chunk, store, record | overlapping, failing, dropped runs; cursors that pass a document |
| Backplane (`core/backplane.rs`, adapters) | sinks by connection and session | attach, associate, publish, detach | delivery across pods |
| Suggestions, other admin endpoints, lambda, ports, console | own or none | request/response | I/O or other languages |

How they interact: the connection's reader runs handlers one frame at a time.
The upgrade decides who the connection is; every handler that names a session
checks tenant and owner first. `send_message` claims the conversation in the
registry, lands a deferred create, and spawns the turn task, which owns the
claim. The turn replays the history, offers the agent's tools, streams into the
connection's sink through a translator task, and leaves reply, workflow step and
perhaps a title; the writer task empties the sink. A gated tool or a raised card
parks the turn; a bridge task registers its sender for the session, writes the
durable record and announces the prompt; `confirm_tool_action` or
`submit_interaction` answers the sender, or, if there is none on this pod,
resolves the record. Rows go through the storage adapter; the connectors fill
the knowledge that a turn searches.

## Modules

| Module | Models | Proofs |
| --- | --- | --- |
| `TurnExclusion` | abstract: an uncancelled turn has its conversation to itself | |
| `RunningTurns` | the registry and the life of a turn's reservation | `ConnectionTurns_proofs` |
| `ConnectionTurns` | readers, writers, turn tasks, translator, shutdown; extends `RunningTurns` and changes its state only through the registry's actions | `ConnectionTurns_proofs` |
| `DeferredSession` | parked, flushed and immediate creates, reconnects, the first message | `DeferredSession_proofs` |
| `Confirmation` | one session's confirmations on several pods with shared storage | `Confirmation_proofs` |
| `Intake` | pure: the requests and answers of the card kinds, their validation and canonical forms | |
| `Interaction` | one session's cards, submits and metadata copies on several pods; extends `Intake` | `Interaction_proofs` |
| `AgentConfig` | pure: an agent's row, its tools and extensions, the workflow and its attempt cap | |
| `AgentTurn` | what the turns of several sessions offer, call, replay and leave behind, titles, reconnects, the host approver; extends `AgentConfig` | `AgentTurn_proofs` |
| `Identity` | pure: claims, verifiers, their selection, the upgrade | |
| `KeyCache` | the JWKS store and the embed policy cache; extends `Identity` | `KeyCache_proofs` |
| `Access` | tenants, owners, creates, resumes and listings; extends `Identity` | `Access_proofs` |
| `Storage` | the row operations of the three backends | `Stores_proofs` |
| `Knowledge` | ingests and queries of the five knowledge stores | `Stores_proofs` |
| `Chunker` | pure: the chunks of a text | |
| `Ingestion` | connectors, runs, cursors, the ledger | `Stores_proofs` |
| `Option` | the absent value shared by the last four | |

`MC*` modules give constants that a configuration cannot write down, symmetry
sets, and for the larger parts the slices described under Runs. Operators named
`X_Something` with a comment "Mutation" are plausible faults of `X`; they are
not used by the specifications.

### RunningTurns

A turn is its token. `turns` is the map behind the mutex; what an operation does
under the lock is one action. `cancel` holds the lock for the removal only
(`running_turns.rs:115`): `CancelConversation` is the removal, `RaiseFlag` the
flag and `AbortRemoved` the abort, and any step of another thread may fall
between them, the claim of a successor among them. `cancelling` is how far that
is. A turn is revoked from the removal on, or from the flag of a local cancel;
what the properties call uncancelled is a turn that is not. `state` says who owns the
reservation, `abort` whether the entry has the task's abort handle, `owes`
which step of a handler the starting reader still has to take: the reader is
between `tokio::spawn` and `set_abort`, or between the flag, the abort and the
release of a local cancel. `EndTurn` stands for completion, failure and the
drop of an aborted future alike, since all drop the reservation.

### ConnectionTurns

`reader[k]` is the reader's place in `handle_text_frame` or
`handle_send_message`, `phase[t]` the turn task's place. Two looks at the
cancelled flag and the sends they guard are separate steps, and a cancel by
session is the registry's three (`CancelBySession`, `SessionFlag`,
`SessionAbort`) and the notices after them. An aborted task can
be dropped at an await (`Awaiting`) but need not be, because an await on a ready
future does not yield. `queue[k]` is the sink; `Write` applies the writer's
gate. `Disconnect` leaves the turn alone and makes sends no-ops;
`StopReader` and `WriterExit` are the graceful shutdown, which waits for every
clone of the sink (`HasSender`). `ConfirmContinuation` is the turn that
`confirm_tool_action` drives. What a client has seen (`got`, `late`) and how
far a turn was when its flag was raised (`raisedIn`) are history variables.

Left out: the bodies of frames, prompt and model selection, citations,
attachments, the preamble and auto-title tasks (they read no flag and their
frames pass the same gate), and frames that only read.

### DeferredSession

A create is the set of rows it has still to write; `written` is the set of rows
storage has taken. A write that answers with an error may have landed
(`InsertFails`): such a row is in `unsure` until a write of it is acknowledged,
and stays in the record. What the retry of it meets is the adapter's
(`backend`): Postgres refuses a key that is taken, except a conversation's, the
in-memory tables and DynamoDB overwrite, and a DynamoDB create that got as far as
its claim (`half`) is answered from it, without a row. Inserting an acknowledged
row again is recorded in `clash`. A reader that
materializes takes the record out of `pending` and holds it in `rows` until it
is empty or a write fails. `Resume` and `Bind` are the two halves of a
reconnect, with the lookup in storage after the flush. A conversation is named
by the session it was minted with. Reconnects come from the visitor who may
read the conversation: the ownership check is not modelled. Only the part of the turn that
touches these rows is kept: the claim, the refusal, the inbound message.

### Confirmation

One session; a pod has a responder slot, a pre-approval slot and the claim of
its own registry. `writes` are spawned `set_pending_confirmation` tasks that
land in any order. The hook (`smooth-operator-core`, not in the repository) is
modelled from its wiring in `runner.rs`: it asks through a channel, waits for
the oldest response or the timeout, and keeps its response channel for the
whole turn. A record is older than the timeout or not; only the record of a
call still waiting is certainly fresh. `executed` remembers which confirm paid
for which call. The other keys of the session's metadata are left out.

### Interaction and Intake

One session. Every pod has its copy of the metadata (`cache`); a key is set in
the copy and the whole map then written, at once or by a spawned task (`tasks`)
that may fail or land late. `turn` is the parked tool, its channel and its
bridge; `frame` a submit with its handler's place. The look at the registered
card and the take are two steps, since the code has two locks; the steps of the
durable path (retire, act) are separate because storage is awaited in between.
Which values a kind accepts and what they become (`Intake`) is modelled by what
the code does to them: e-mails lose their capitals, numbers become E.164 or are
refused, picks are cleaned and counted. The create stamps the address it was
given on the session as it came (`handler.rs:783`), so a session may start with a
contact that no submit gave (`Opening`). Left out: the wording of directives and
errors, metadata keys of other parts.

### AgentConfig and AgentTurn

A deployment (`server`) and an agent's row are fixed at the start; each session
has a conversation and at most one turn, as the registry grants. `Prepare`
builds the turn's tools from the four sources under the allow-list, the auth
gate and the OTP flag, takes model and persona by precedence and replays one
page of the history, the oldest `MaxPrior` messages as the code asks for them;
`CallTool` and `AskHost` are the tool calls; `FinishRun` stores the
reply, has the judge's verdict, and `ReadPointer`, `WritePointer` are the halves
of the workflow's read-modify-write, beside which `ResumeRead`, `ResumeWrite`
of a reconnect run. Each of these reads may fail, and the code goes on as if the
metadata were empty (`ReadMeta`). The titler reads, asks the model, reads again
(writing all the same if that fails), writes. A name is who gave it and whether
it begins with the prefix the titler takes for a default.
`approver` is the one process-wide host approver. What models answer is
nondeterministic. Cancels are left to `ConnectionTurns`.

### Identity, KeyCache, Access

`Identity` has no state: a token is what the checks tell apart; an issuer or an
audience is compared if one is configured and the token names one, because only
`exp` and `sub` are required (`core/auth.rs:462`). `KeyCache`
counts time in ticks; a fetch is three steps (ask, arrive, store under the
lock), and the stamp is the time of the store, as in the code. `Access` has the
checks of each handler (`may_access`, scopes, tenant) against conversations
whose rows land one at a time, and records who opened what and who was told
which id. `rename_conversation` goes by the conversation's id; what it was let
through for is in the reply's `renamed`.

### Storage

One action per call of the adapter seam and per network round trip of it;
`op` is a client's call under way. `Locked` are the in-memory calls, one step
each. A lost answer is a write that lands with an error for its caller. The
DynamoDB create is the claim, the canonical put and the answer; its update
reads, puts and syncs the claim. Message numbers come from `seq`; a page is
cut from them with each backend's own condition, its limit + 1 and its cursor.
The DynamoDB lists are one Query each, which ends where 1 MB is full (`fits`, any
number from two on); nothing looks at its LastEvaluatedKey, and `cut` remembers that
something was kept back. Pods' clocks are taken to agree.

### Knowledge

`truth` is what an ingest meant, `entry` and `rows` what the stores keep. A
query fetches a pool of candidates and is answered in a later step. Scores are
an order; the sparse arm of Postgres finds the documents in `Worded`. Its dense
arm sorts by distance over an HNSW index (`adapters/postgres/src/schema.rs:254`), which comes
back with some rows near the question, anybody's; the tenant's and the ACL's
conditions are put to those. `scan` is what it came back with, any set, since
the planner may also read the whole table; for DynamoDB it is the first page of
the partition.

### Chunker and Ingestion

`Chunker` is a function from a text and a size to chunks. A word is the range
of characters it stands for, so that loss, repetition and order of content can
be told without strings. `Ingestion` has one action per admin request and per
stage of a run. A pull is one step; documents change at any time before and
after it. `clock` is the source's clock, which dates its documents; a run starts at
what the server's says (`ServerTime`), up to `Skew` off either way, which also
covers that GitHub dates to the second. `src`, `whole` and `byClock` of a run are
the model's, not the code's: where it pulled from, whether the pull was complete,
and whether its cursor is the server's time because nothing pulled had a date.

## Runs

| Run | Instance | Shows |
| --- | --- | --- |
| `registry` | 2 conversations, 3 turns (all on one, or two on one or each) | exclusive, exact and returned claims; `RunningTurns` implements `TurnExclusion` |
| `connections` | 1 connection, 2 conversations, 2 turns | outcomes survive disconnects; drains complete |
| `two_devices` | 2 connections, 1 turn with workflow and OTP | cancels, own and by session, against each step of the tail; every turn answered; shutdown ends |
| `deferred` | 2 connections, 2 sessions, 3 adapters, writes that fail or land with an error | row order, exact records, nothing lost; claims come back (liveness) |
| `confirmation` | 2 turns; 2 pods, 2 tools, 1 confirm, faults and crashes, or 1 pod, 1 tool, 2 confirms | one approval, one execution; one verdict per park |
| `interaction` | 2 pods, 1 turn, 2 cards, 2 submits, faults and crashes | a card is resolved live once, a raise returns its own answer, contacts on every copy are earned and canonical, or the create's |
| `agent_turn` | 2 sessions, 2 turns, 2 agents, 2 deployments, failing reads | gates, allow-list, workflow steps, replay, titles, host approvals |
| `identity` | 2 threads, 4 ticks, 3 key sets, 3 policies, 7 environments | withdrawn keys expire, rotated keys are picked up, identities need keys, strict embeds are allowed by a recent policy |
| `access` | 3 connections, 1 conversation, 2 sessions, 4 deployments | tenants stay apart, an opener keeps its conversation (renames included), what is one's own can be reached |
| `stores` | see below | paging, rows, retrieval, chunks and cursors |
| `history_ends` | 3 messages, pages of 1 and more | counterexample: newest-first history over DynamoDB ends after its second page |
| `replay_latest` | as `agent_turn` | counterexample: a turn of a conversation longer than a page replays its beginning and not what was said last |

`stores` explores one part at a time, named by `load`, since no step of one
reads what another writes: `rows` (2 racing creates, updates, retries),
`history` (3 messages, one conversation, a walk in either direction), `sidebar`
(3 conversations, two of one age, updates under a walk), each over the three
backends; `search` (3 documents, 3 requesters, five stores); `chunk` (texts of
up to two paragraphs of words from 1 to 5 characters, sizes from 1 to 7,
overlaps from 0 to 9); `index` (one source with an issue that keeps changing:
beside an older issue, under two requests side by side; beside a file, with
clocks that differ; beside two newer issues, which fill the page) and `moved` (connectors of each kind made, changed and deleted in two
organizations, restarts).

`confirmation` explores two loads in the same way (`MCConfirmation`), `agent_turn`
lets the host that asks meet old conversations and the one that gives titles new
ones, at no step of their workflow yet, and `access` takes no step after a rename,
which changes nothing that is modelled, and names a conversation in a create while
a session is left for it. The passing runs have between 290,000 (`registry`) and
2.7 million (`confirmation`) distinct states and take one to three minutes each.

Bounds: two turns on a conversation are enough for a turn and its successor, a
third lets the successor have one; two connections give an owner and a
stranger, a third one that comes later; two sessions a create and the reconnect
to it; two pods a writer and one with an older copy. Tokens, streamed events,
gated calls, confirms, cards, submits and outside events are capped by the
`Max...` constants; a rejected `send_message` is only modelled while the
client's line is quiet (`QuietLine`), because a client may repeat it without
end. Large constants of the code are scaled to where the boundary is met:
`PerPage` (50 issues) is 2, `Skew` one tick, the pool of candidates (5 times the limit, at least
20) is the limit and at least 2, `StepAttemptCap` is 2, `MaxReplayed` 1,
`MaxPrior` (50 messages) 5, a page of a walk (`PageSize`) 1 or 2 rows, and the
times of the caches are 1 or 2 ticks. `CHECK_DEADLOCK FALSE` everywhere: once the tokens are used up and
every client is gone the system has nothing left to do.

Fairness: weak fairness of the steps of tasks that are ready (handlers, turn
tasks, translators, writers), because the runtime polls every woken task. A
running turn ends since the agent loop is bounded by `max_iterations` and every
park by a timeout. Nothing is assumed of clients, and no fairness is placed on
cancels, shutdowns or crashes. Only `registry`, `two_devices` and `deferred`
check liveness.

Each component module also has a type invariant (`TypeOK`, `RegistryTypeOK`, `KTypeOK`,
`ITypeOK`). Those of `RunningTurns`, `DeferredSession`, `Confirmation`,
`KeyCache`, `Storage`, `Knowledge` and `Ingestion` are proved; the others hold on
the instances of the runs, where TLC was asked for them as well. The
configurations keep to the properties that say something about the code.

### Disagreements found

Two have a run. `history_ends`: adapter.rs promises a cursor until a walk is
exhausted, and DynamoDB's newest-first page spends one of its limit + 1 items on
the cursor it drops afterwards (`adapters/dynamodb/src/lib.rs:752`).
`replay_latest`: the repository's README, line 38, says that the server "remembers
the whole conversation", and `runner.rs:791` that "prior_messages is exactly the
history-up-to-now"; `load_prior_messages` (`runner.rs:1821`) reads a single page of
50 messages, oldest first, so that from the 51st message on a turn replays the first
fifty and none of what was said since.

The modules state further sentences of the repository that the code does not
keep. Naming one as the INVARIANT (or PROPERTY) of a copy of the module's
configuration gives its counterexample, with the change in brackets where a
slice of `stores` rules the case out.

| Definition | The sentence | What happens |
| --- | --- | --- |
| `RunningTurns!OneRunningTask` | `handler.rs:1871` "One running turn per CONVERSATION" | a cancel before `set_abort` frees the conversation and leaves the task running |
| `RunningTurns!OneUnflaggedTurn` | `running_turns.rs:107` "raise its cancelled flag ..., abort its task and drop the registration" | the registration goes first: a successor claims the conversation before the flag of the cancelled turn is up |
| `ConnectionTurns!CancelledIsLast` | `tests/cancel_is_terminal.rs:1` "the LAST thing a client sees" | a cancel by session arms no gate on the starting connection |
| `ConnectionTurns!OneTurnPerConnection` | `server.rs:832` | a continuation turn starts beside, and replaces, the current one |
| `ConnectionTurns!CancelledTurnHasNoReply` | Protocol Reference, line 242 | the reply is stored before the flag is looked at |
| `DeferredSession!MessageHasConversation` | `handler.rs:1894` "every child row FKs the conversation" | a session outlives its discarded rows |
| `DeferredSession!NoSplitConversation` | `tests/deferred_conversation.rs:463` "bind to the SAME conversation" | a reconnect during a flush mints a second conversation |
| `DeferredSession!NoOrphanPark` | `tests/deferred_conversation.rs:425` | a record is parked again for a connection that is gone |
| `DeferredSession!RetryResumes` | `state.rs` materialize_session "resumes where it stopped rather than re-inserting a row whose primary key is already taken" | a row landed under an error; on Postgres its insert is refused at every retry |
| `Confirmation!ExecutedOncePerPrompt` | `tests/durable_confirmation.rs:320` "a duplicate confirm cannot execute the write again" | a duplicate confirm overtakes the clear of the record |
| `Confirmation!GrantOnlyForContinuation` | `state.rs:1038` | a refused continuation leaves its pre-approval to a later turn |
| `Confirmation!VerdictForItsPrompt` | `confirm-tool-action.schema.json:22` | an answer to an old prompt resolves a newer one |
| `Confirmation!NoStaleRecord` | `runner.rs:1629` | a record lands after its own clear |
| `Confirmation!ParkReachable` | `handler.rs:2579` | a cancelled turn's teardown clears its successor's responder |
| `Interaction!TakesWhatItNamed` | `handler.rs` handle_submit_interaction "a stale submit can never resolve a newer park" | the card is replaced between the look and the take |
| `Interaction!AcceptedOnce` | the same, "makes a duplicate submit a no-op" | a duplicate finds the durable record, which is written late or not cleared yet |
| `AgentTurn!ShownToAsker` | `runner.rs` HostApprover::activate "turns are sequential" | turns of two sessions overlap, and a prompt is shown to the other one |
| `AgentTurn!PointerSurvives` | `handler.rs` persist_client_supports "so sibling metadata keys survive" | a reconnect puts the step back that it read before the turn ended |
| `AgentTurn!RenameFinal` | `handler.rs:1329` "so a manual rename (or a prior successful auto-title) is never clobbered" | the name begins with the default's prefix, comes after the titler's second look, or that look fails (`handler.rs:1487`) |
| `KeyCache!OutageOpensNothing` | `core/widget_auth.rs:127` | in permissive mode a policy that cannot be fetched is not enforced |
| `Access!AnonymousListsNothing` | `server.rs` anonymous_scope | an anonymous connection lists the seed organization's ownerless conversations |
| `Access!RenamesItsOwn` | `handler.rs:1378` "The conversation must exist AND be ours" | the conversation's row landed and no participant yet: there is no tenant to compare, and a connection of another organization that has the id renames it |
| `Storage!UpdateKept` | `core/adapter.rs` "None fields are left unchanged" | two DynamoDB updates that overlap lose one |
| `Storage!CreatedIsFound` | | a DynamoDB create retried after its second write failed is answered, without a row |
| `Storage!ClaimInSync` | `adapters/dynamodb/src/lib.rs:516` "not a stale snapshot" | the sync of the claim fails, or two of them cross |
| `Storage!SidebarNoRepeat` | `handler.rs:1087` "a page never repeats a row" | two updates land in the other order than their timestamps [`Sidebar` without its bound of one call] |
| `Storage!SidebarReaches` | `handler.rs:1087` "a row that isn't touched while paging is never skipped" | the organization's rows do not fit one DynamoDB Query, and those beyond 1 MB are in no page; in the same way an oldest-first history may end early, which `HistoryWalk` excepts |
| `Knowledge!TopKFull` | `core/access_control.rs:476` "full whenever enough accessible documents exist" | documents of others fill the pool, or what Postgres' vector index came back with |
| `ChunkerExact`'s exception | `ingestion/chunker.rs:12`, a chunk "never straddles two sections" | the overlap carried over from the chunk before stands in front of a heading |
| `Ingestion!NothingSkipped` | `ingestion/indexing.rs:188` "incrementality comes from the cursor" | a full page, missing comments, a connector pointed elsewhere, a shared ledger, or a cursor that is the server's time where the source's clock is behind |
| `Ingestion!RunsListed` | `admin.rs:394` | the names are the process's, the runs outlive it |

Where such a disagreement exists, a passing run states what does hold:
turns exclude each other until their cancel begins, although flags and tasks do not, a cancel silences
exactly the part of the tail ahead of the flag, one approval is spent once
although a prompt may be executed for two, every contact was given at the create
or by an accepted answer although answers may be accepted twice, a failed or
outdated access to the metadata costs a step one round of its cap, cursors pass
nothing that one complete pull had to bring, and a turn replays exactly what fits
the page it reads.

## Proofs

All proofs are for arbitrary constants that meet the modules' named assumptions.
Each proof module has its inductive invariant, `IInv` where there is one for all
its theorems; it was checked by TLC on the module's run before it was proved, and
the properties follow from it.

- **RunningTurns.** `ClaimHeld` alone is not inductive: a late release must be
  known to carry an old token. The invariant adds that an entry belongs to a
  live turn on that conversation no cancel of which has begun, that tokens not
  handed out are untouched, that what a reader still owes belongs to a turn it
  spawned, and how far a cancel's unlocked steps are. From it:
  `RegistryTypeCorrect`, `ClaimSafety`, `OneTurnPerConversation`, `CancelSafety`,
  and `Implementation`, the refinement of `TurnExclusion` (the removal, or
  the flag of a local cancel, maps to `Cancel`, the rest of the cancel stutters, a claim to `Accept`, the drop of a reservation to `Finish`, the
  rest stutters).
- **ConnectionTurns.** The lemma `RegistryUsed` shows that every step is a step of
  `RunningTurns` or leaves it alone; it needs only that a reader inside a handler
  works for a token (`ReaderInv`). With `Implementation` it gives
  `ServerExcludes`: the composed server, whatever its connections, cancels,
  shutdowns and pod do, implements `TurnExclusion`. `DetachedTurnsFinish` adds that an aborting
  turn is a cancelled one (`AbortInv`) and that a task past its persistence step
  has left its record (`OutcomeInv`). `CancelsSilenceTails` speaks of what a
  client was told, but a frame may sit in a queue, possibly on another
  connection's, when the flag is raised. `TailInv` is therefore about frames
  told or on their way: each kind of tail frame exists only once the task is past
  the look that guards it, and a turn caught before a look is still before it
  or has gone to the end without sending. `HandedInv` keeps tokens that are not
  handed out apart from turns. `DrainsComplete` needs `AnswerInv`: on an open
  connection every ended or cancelled turn is told, has its frame in the queue,
  or has a reader that cancels it and will send `cancelled`, which a drain waits for.
- **DeferredSession.** One invariant of fourteen parts: the record lists what
  no write has acknowledged, only live sessions with a conversation of their own are parked
  or held, minted ids are unused and have one owner, immediate creates know what
  is missing, bound sessions have an existing conversation. From it
  `DeferredTypeCorrect`, `RowOrderSafety`, `RecordSafety`, `CompletionSafety`.
- **Confirmation.** An approval is a token. `TokenInv` says that the approval of
  a frame is in one place: with its handler, in a pod's pre-approvals, with a
  continuation's bridge, among the responses on their way to a hook, or spent; every
  step moves it. Records are no such place, because any handler may read one: a
  duplicate confirm that finds the record is an approval of its own. From it
  `ApprovalsSpentOnce`. `OneVerdictEach` needs `Balanced`, which
  counts a registration left by a call that timed out beside a new request, and
  `Registered`, that a responder is on the pod of its turn. `TypeCorrect` comes
  with them.
- **Interaction.** The same argument for a card's id (`IdInv`): it is with the
  raise that drew it, registered on a pod, or with the submit that took it, which
  gives `CardsResolveOnce`. `OwnInv` follows a resolution through the channel the
  raises of a turn share (`RaisesReturnOwn`). `ContactInv` is about every copy of
  the metadata, writes on their way included, since a whole stale map may land
  late: all hold only contacts that the create or an accepted answer gave, and a submit between
  look and effect already holds the canonical form (`ContactsEarned`).
- **AgentTurn.** One part per property, over the shapes of the records.
  `GatesSound`: a turn under way was given the gate of an OTP flag that was up only if a
  code had been accepted before the turn began. `AllowListsHold`: what a turn
  offers was filtered by the lists as they were when it was prepared.
  `StepsBounded`: what a turn is about to write is the cap applied to one of the
  judge's possible verdicts on the pointer it read, which is the stored one or
  costs a loss, and the turns the step was held are bounded by the attempts stored
  and one round of the cap for each loss: a read that failed resets the attempts,
  so that without the losses the bound is false.
  It rests on what `resolve_current_step`, `next_step` and `apply_step_cap`
  compute for every workflow (`CapBounds`, `ResolveAgain`). `TitlesKept`: no
  titler past its second look works on a conversation whose new name is to be
  kept, and such a name does not begin like a default one. `AsksFailClosed`:
  approvals in the channel are covered by approvals of humans. `ReplaysExact`
  needs `ReplayInv`: a message carries the number of the turn that stored it and
  no turn stores two of one direction (`Kept`); a turn's number is on no message
  before it is prepared, and while it runs only its own inbound message, appended
  behind everything the page was read from, carries it (`Fits`). What the page
  yields is a lemma about `Picked`, which numbers the selected positions by rank:
  `Nth` is a bijection from ranks to positions, so that nothing is lost, doubled
  or reordered, whatever the past of the conversation.
- **KeyCache.** A store may put an older answer over a newer one and stamp it with
  its own time, so the stamp is no bound by itself. The invariant bounds how far
  a cached set can be behind its stamp, in both directions, by one request's
  timeout: a cached key was published that recently, and a key published for longer than
  that is in the set. With it `WithdrawnKeysExpire`, `RotationsPickedUp`,
  `StrictEmbedsAllowed`; `IdentitiesNeedKeys` is a case analysis of the
  verifiers. The theorems are about the module's own `Spec`; the run `identity`
  explores it with fewer interleavings (`MCIdentity`).
- **Access.** `ShapeInv` has that a session is of its conversation's
  organization, which `TenantsKeptApart` needs where no owner row exists yet.
  `OwnerInv` covers the creates whose rows land one at a time: a conversation
  opened by a verified user has its owner row before anybody is told its id, the
  row a create is about to write makes that true, and every other user's row is
  vouched for by an unverified one. From it `OpenersKeepTheirs` and
  `NobodyLockedOut`.
- **Storage** (`Stores_proofs`). `RowsAsTold` speaks of answers and rows, but an
  answer may be lost and its create retried. `RowsInv` has the reason why all
  creates of a key agree, and it is not the same on every backend: in memory and
  in Postgres a key has one row, which is what was answered (`OneRow`); over
  DynamoDB the row may be missing, and it is the claim that names the
  conversation, for the rows, for the answers and for every write still in
  flight (`OneClaim`). From it `RowsTold`. `WalkInv` is about walks that are
  under way: what was returned is in order and ends at the cursor, and every
  message the walk began with was returned or lies past the cursor, as does every
  conversation that nothing wrote since. Each page keeps that by lemmas on
  `PageOf` and `Sorted`, for any page size and each backend's own comparison; a
  page without a cursor leaves nothing past it (`HistoryComplete`,
  `SidebarComplete`), unless a Query was cut: then what is missing still comes
  after all that was returned. The exception for DynamoDB, newest first, is the
  disagreement above. That the in-memory sidebar repeats nothing needs that a row
  written under the walk only moves towards the front (`NoneTwice`).
- **Knowledge.** `KnowInv` has that what a store's tables say of a document is how
  it was ingested, and what the first half of a query found of the documents
  stored when it began, among what the index or the page brought (`Fetched`); documents ingested between the halves are not
  in it. That the best of a set are as many as asked for is a rank argument on
  `TopOf`, without induction (`SearchesExact`).
- **Ingestion.** `CursorCovers` looks at the latest cursor, but overlapping runs
  end in any order and each starts from the cursor of an earlier one. `CoverInv`
  therefore states coverage for the cursor of every successful run; `PulledAll`
  says of a complete pull under way what it can leave out (what its start had
  passed, and what changed too late for the cursor it will leave), and
  `PulledKept` that what it brought is stored or still to be stored
  (`CursorsCover`). A cursor that is the server's time may be ahead of the source's
  clock (`Future`), and an issue dated behind it then is one of the exceptions
  (`Doubt`). Like the property it is about ledgers that are not shared and
  connectors whose runs pulled one source completely.

Assumptions. Bounds are naturals (`ConstantsAssumption`, `ConnectionAssumption`,
`DeferredAssumption`, `ConfirmationAssumption`, `InteractionAssumption`,
`TurnAssumption`, `AccessAssumption`; `TimeAssumption` orders the durations as
the defaults do; `CapAssumption`: the cap is positive). An absent value is none
of the values it stands beside (`StageAssumption`, `NoneAssumption`, parts of
`ConfirmationAssumption` and `RowAssumption`). Inputs are well formed: an intake's
answer has values of its fields (`Interaction!AnswerAssumption`), a verifier's
principal has no blank e-mail (`Access!AnswerAssumption`, from
`into_principal`), an agent's tools and a parsed workflow are lists
(`RowAssumption`), and in a conversation's past every earlier turn left at most
one message of a direction (`PastAssumption`). Page and fetch
sizes are positive, documents and requesters are well formed and an absent value
is a value of nothing (`StorageAssumption`, `Storage!NoneAssumption`,
`KnowledgeAssumption`, `DocumentAssumption`, `IngestionAssumption`).

What the proofs changed in the model. Writing the lemmas of `ReplayExact` asked where
the page that is read ends, which the model had left out, and led to
`RemembersLatest`. `PageSize` is a constant, so that walks are
proved for every size. The replayed page, the pool of candidates and the
curated order are stated by rank instead of by a filter or a recursive sort, and
the documents a run has still to do are a set. Only
GitHub's issues carry a date, as in the connectors. `AllowListHolds` used to say where a tool
comes from; names of built-in, host and extension tools may collide
(`runner.rs:998`), and it now says what is allowed to run under a name.
`StepBounded` compares step ids, because two steps of a workflow may share one.
`RotationPickedUp` is about tokens that name a key id. Definitions that relied on
the order of overlapping `CASE` arms (`AgentConfig`, `Intake`) are chains of `IF`,
as they are in the code, and the conversations and sessions of `Access` that do
not exist yet are records of the same shape as those that do.

Only model-checked:

- All liveness (`ClaimReleased`, `EveryTurnAnswered`, `ShutdownDrains`,
  `ClaimReturned`): fairness and ENABLED are beyond the prover.
- `ChunkerExact`: the chunker folds over the words of a text, and what a fold
  computes for every text needs induction over data.
- The type invariants of `ConnectionTurns`, `Interaction`, `Access` and
  `AgentTurn`.

## Not modelled

- A DynamoDB conversation whose claim landed alone stays without its row in
  `DeferredSession`; what its later readers and updates meet is in `Storage`.
- Crashes of the process appear where something durable is read back
  (`Confirmation`, `Interaction`, `Ingestion`), not in the registry or the
  connection loop, whose state dies with it.
- The trait's default `knowledge_for_access` (`core/adapter.rs:490`) wraps a side table that
  is empty for each call; it is the store "default", and `RetrievalExact`
  asks of it only what it can know.
- Repeated ingests of one document add its chunks again (`indexing.rs:188` says
  so); `CursorCovers` is about what is missing, not what is double.
- S3 Vectors, checkpoints, memories, schema set-up, embedding and rerank scores,
  page and file parsing: I/O or numbers without a protocol.
- Suggestions and the admin endpoints that only read or write one row.
- The backplane, the lambda flavour (one frame per invocation), the ports to
  other languages, clients and console.

## Plan

1. An abstract specification of one-shot approvals that `Confirmation` and the
   live half of `Interaction` implement: `TokenInv` and `IdInv` are the same
   argument, and would be the refinement mapping.
2. `Backplane`: attach, associate, publish, detach on several pods.
3. Proofs: the type invariant of `ConnectionTurns`, most of which its `TurnInv`
   already has, and those of `Interaction`, `Access` and `AgentTurn`.

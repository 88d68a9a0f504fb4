--------------------------- MODULE DeferredSession ---------------------------
(***************************************************************************)
(* Sessions whose rows are written only once they are earned (state.rs     *)
(* PendingSession, defer_session, materialize_session,                     *)
(* materialize_conversation, flush_pending,                                *)
(* discard_pending_sessions_for_conn; handler.rs                           *)
(* handle_create_session and the part of handle_send_message that          *)
(* materializes).                                                          *)
(*                                                                         *)
(* A connection's reader task runs one handler at a time and holds a       *)
(* parked create while it flushes it; readers of other connections run     *)
(* beside it.  A conversation is named by the session it was minted with.  *)
(* Storage is one of the adapters of the repository.  A write that answers *)
(* with an error may have landed all the same.                             *)
(***************************************************************************)
EXTENDS Naturals

CONSTANTS Conn,      \* connections of this pod
          Session,   \* session ids, minted by create_conversation_session
          Backend,   \* the storage adapters a deployment may run on
          None

ASSUME DeferredAssumption == /\ Backend \subseteq {"memory", "postgres", "dynamodb"}
                             /\ None \notin Session /\ None \notin Conn

\* The rows of a create, in the order in which they have to be written:
\* conversation, user participant, agent participant, session.
ConversationRow == 1
Row == 1 .. 4

VARIABLES backend,  \* the adapter of this deployment
          status,   \* what the pod's session registry knows of a session
          owner,    \* PendingSession.conn_id
          home,     \* the conversation a session is bound to
          pending,  \* AppState.pending_sessions: rows a parked create has still to
                    \* write; {} if none is parked (a parked one lacks some row)
          eager,    \* rows an immediate create's spawned task has still to write
          written,  \* rows storage has taken
          unsure,   \* those of them whose writes have only answered with errors
          half,     \* conversations taken by their idempotency claim alone: their
                    \* row is not there, and a second create answers from the claim
          clash,    \* sessions of which an acknowledged row was inserted again
          at,       \* where a connection's reader task is,
          sess,     \* the session it works for,
          fresh,    \* the session id it has minted for a reconnect,
          rows,     \* and the rows it has still to write
          claim,    \* conversations with a running turn (RunningTurns)
          turn,     \* sessions whose turn has not stored its message yet
          orphans,  \* conversations given a message while they had no row
          split     \* conversations a reconnect named and did not get

readerVars == <<at, sess, fresh, rows>>
rowVars == <<written, unsure, half, clash>>
vars == <<backend, status, owner, home, pending, eager, rowVars, readerVars, claim,
          turn, orphans, split>>

Place == {"idle", "sendFlush", "resumeFlush", "ready", "bind", "gone"}

TypeOK ==
  /\ backend \in Backend
  /\ status \in [Session -> {"new", "minting", "creating", "live", "failed"}]
  /\ owner \in [Session -> Conn \cup {None}]
  /\ home \in [Session -> Session]
  /\ pending \in [Session -> SUBSET Row]
  /\ eager \in [Session -> SUBSET Row]
  /\ written \in [Session -> SUBSET Row]
  /\ unsure \in [Session -> SUBSET Row]
  /\ half \subseteq Session
  /\ clash \subseteq Session
  /\ at \in [Conn -> Place]
  /\ sess \in [Conn -> Session \cup {None}]
  /\ fresh \in [Conn -> Session \cup {None}]
  /\ rows \in [Conn -> SUBSET Row]
  /\ claim \subseteq Session
  /\ turn \subseteq Session
  /\ orphans \subseteq Session
  /\ split \subseteq Session

Init ==
  /\ backend \in Backend
  /\ status = [s \in Session |-> "new"]
  /\ owner = [s \in Session |-> None]
  /\ home = [s \in Session |-> s]
  /\ pending = [s \in Session |-> {}]
  /\ eager = [s \in Session |-> {}]
  /\ written = [s \in Session |-> {}]
  /\ unsure = [s \in Session |-> {}]
  /\ half = {}
  /\ clash = {}
  /\ at = [k \in Conn |-> "idle"]
  /\ sess = [k \in Conn |-> None]
  /\ fresh = [k \in Conn |-> None]
  /\ rows = [k \in Conn |-> {}]
  /\ claim = {}
  /\ turn = {}
  /\ orphans = {}
  /\ split = {}

------------------------------------------------------------------------------
(* Helpers.                                                                 *)

\* Mutation: the parked record is copied out of the map, not removed from it.
Taken_Copied(s) == pending

\* Mutation: a failed flush puts the record back as it was parked first.
Reparked_Whole(k) == [pending EXCEPT ![sess[k]] = Row]

\* Mutation: a failed flush drops the record.
Reparked_Dropped(k) == pending

\* Mutation: a send whose rows could not be written keeps its claim.
Unclaimed_Leaked(s) == claim

\* The next write of a create: its fields are tried in a fixed order.
NextRow(R) == CHOOSE r \in R : \A q \in R : r <= q

\* pending_sessions after materialize_session's remove.
Taken(s) == [pending EXCEPT ![s] = {}]

\* pending_sessions after a failed flush puts its record back.
Reparked(k) == [pending EXCEPT ![sess[k]] = rows[k]]

\* pending_sessions after the retain of a connection's close.
Discarded(k) == [s \in Session |-> IF owner[s] = k THEN {} ELSE pending[s]]

\* A create bound to an existing conversation writes no conversation row.
BoundRows == Row \ {ConversationRow}

\* The rows the create of session s consists of.
RowsOf(s) == IF home[s] = s THEN Row ELSE BoundRows

\* A read of the conversation finds its row.
Readable(v) == ConversationRow \in written[v] /\ v \notin half

\* The in-memory adapter never fails.
Faulty == backend # "memory"

\* Every adapter answers a conversation's second create with the first one, and
\* all but Postgres overwrite the other rows; its inserts find the key taken.
Accepts(s, r) == backend = "postgres" => r = ConversationRow \/ r \notin written[s]

\* An insert of row r is sent.
Sent(s, r) ==
  clash' = IF r \in written[s] \ unsure[s] THEN clash \cup {s} ELSE clash

\* It lands and is acknowledged.
Insert(s, r) ==
  /\ Accepts(s, r)
  /\ Sent(s, r)
  /\ written' = [written EXCEPT ![s] = @ \cup {r}]
  /\ unsure' = [unsure EXCEPT ![s] = @ \ {r}]
  /\ UNCHANGED half

\* It answers with an error: nothing was written, or the row was and the answer
\* was lost, or, on DynamoDB, the claim of a new conversation was and no more.
InsertFails(s, r) ==
  /\ Sent(s, r)
  /\ \/ /\ Faulty \/ ~Accepts(s, r)
        /\ UNCHANGED <<written, unsure, half>>
     \/ /\ Faulty
        /\ r \notin written[s]
        /\ written' = [written EXCEPT ![s] = @ \cup {r}]
        /\ unsure' = [unsure EXCEPT ![s] = @ \cup {r}]
        /\ \/ UNCHANGED half
           \/ /\ backend = "dynamodb" /\ r = ConversationRow
              /\ half' = half \cup {s}

\* The claims after a send on session s drops its reservation.
Unclaimed(s) == claim \ {home[s]}

\* Reader k moves on, working for session s with minted id f and rows r left.
Goto(k, place, s, f, r) ==
  /\ at' = [at EXCEPT ![k] = place]
  /\ sess' = [sess EXCEPT ![k] = s]
  /\ fresh' = [fresh EXCEPT ![k] = f]
  /\ rows' = [rows EXCEPT ![k] = r]

Rest(k, place) == Goto(k, place, None, None, {})

------------------------------------------------------------------------------
(* create_conversation_session.                                             *)

\* A fresh conversation, with nothing to tell who the visitor is: parked.
Park(k, s) ==
  /\ status' = [status EXCEPT ![s] = "live"]
  /\ owner' = [owner EXCEPT ![s] = k]
  /\ home' = [home EXCEPT ![s] = s]
  /\ pending' = [pending EXCEPT ![s] = Row]
  /\ UNCHANGED eager

\* A visitor's identity is known, or the conversation exists: written at once,
\* by a task of its own.
CreateNow(k, s, v) ==
  /\ status' = [status EXCEPT ![s] = "creating"]
  /\ owner' = [owner EXCEPT ![s] = k]
  /\ home' = [home EXCEPT ![s] = v]
  /\ eager' = [eager EXCEPT ![s] = IF v = s THEN Row ELSE BoundRows]
  /\ UNCHANGED pending

Open(k, s) ==
  /\ at[k] = "idle"
  /\ status[s] = "new"
  /\ Park(k, s) \/ CreateNow(k, s, s)
  /\ UNCHANGED <<backend, rowVars, readerVars, claim, turn, orphans, split>>

\* A reconnect names a conversation: if its create is parked it is landed first.
Resume(k, v, s) ==
  /\ at[k] = "idle"
  /\ status[v] = "live" /\ home[v] = v
  /\ status[s] = "new"
  /\ status' = [status EXCEPT ![s] = "minting"]
  /\ \/ /\ pending[v] # {}
        /\ Goto(k, "resumeFlush", v, s, pending[v])
        /\ pending' = Taken(v)
     \/ /\ pending[v] = {}
        /\ Goto(k, "bind", v, s, {})
        /\ UNCHANGED pending
  /\ UNCHANGED <<backend, owner, home, eager, rowVars, claim, turn, orphans, split>>

\* The resume itself: the conversation is found in storage, or a fresh one is
\* minted.  A read that fails finds nothing.
Bind(k) ==
  /\ at[k] = "bind"
  /\ LET v == sess[k]
         s == fresh[k]
     IN \/ /\ Readable(v)
           /\ CreateNow(k, s, v)
           /\ UNCHANGED split
        \/ /\ Faulty \/ ~Readable(v)
           /\ Park(k, s) \/ CreateNow(k, s, s)
           /\ split' = split \cup {v}
  /\ Rest(k, "idle")
  /\ UNCHANGED <<backend, rowVars, claim, turn, orphans>>

\* The spawned task of an immediate create.
EagerWrite(s) ==
  /\ eager[s] # {}
  /\ Insert(s, NextRow(eager[s]))
  /\ eager' = [eager EXCEPT ![s] = @ \ {NextRow(@)}]
  /\ status' = [status EXCEPT ![s] = IF eager'[s] = {} THEN "live" ELSE @]
  /\ UNCHANGED <<backend, owner, home, pending, readerVars, claim, turn, orphans, split>>

\* A failed write ends it with INTERNAL_ERROR; nothing is retried.
EagerFail(s) ==
  /\ eager[s] # {}
  /\ InsertFails(s, NextRow(eager[s]))
  /\ eager' = [eager EXCEPT ![s] = {}]
  /\ status' = [status EXCEPT ![s] = "failed"]
  /\ UNCHANGED <<backend, owner, home, pending, readerVars, claim, turn, orphans, split>>

------------------------------------------------------------------------------
(* send_message, from the claim to the inbound message.                     *)

SendMessage(k, s) ==
  /\ at[k] = "idle"
  /\ status[s] = "live"
  /\ home[s] \notin claim
  /\ claim' = claim \cup {home[s]}
  /\ \/ /\ pending[s] # {}
        /\ Goto(k, "sendFlush", s, None, pending[s])
        /\ pending' = Taken(s)
     \/ /\ pending[s] = {}
        /\ Goto(k, "ready", s, None, {})
        /\ UNCHANGED pending
  /\ UNCHANGED <<backend, status, owner, home, eager, rowVars, turn, orphans, split>>

\* One write of flush_pending, by the reader that holds the record.
FlushWrite(k) ==
  /\ at[k] \in {"sendFlush", "resumeFlush"}
  /\ LET left == rows[k] \ {NextRow(rows[k])}
         done == IF at[k] = "sendFlush" THEN "ready" ELSE "bind"
     IN /\ Insert(sess[k], NextRow(rows[k]))
        /\ Goto(k, IF left = {} THEN done ELSE at[k], sess[k], fresh[k], left)
  /\ UNCHANGED <<backend, status, owner, home, pending, eager, claim, turn, orphans, split>>

\* A write fails: the record goes back.  A send is refused with STORAGE_ERROR
\* and its claim dropped; a resume goes on with what storage holds.
FlushFail(k) ==
  /\ at[k] \in {"sendFlush", "resumeFlush"}
  /\ InsertFails(sess[k], NextRow(rows[k]))
  /\ pending' = Reparked(k)
  /\ \/ /\ at[k] = "sendFlush"
        /\ Rest(k, "idle")
        /\ claim' = Unclaimed(sess[k])
     \/ /\ at[k] = "resumeFlush"
        /\ Goto(k, "bind", sess[k], fresh[k], {})
        /\ UNCHANGED claim
  /\ UNCHANGED <<backend, status, owner, home, eager, turn, orphans, split>>

\* No gateway key: the claim is dropped.  Otherwise the turn is spawned.
RefuseOrSpawn(k) ==
  /\ at[k] = "ready"
  /\ \/ claim' = Unclaimed(sess[k]) /\ UNCHANGED turn
     \/ turn' = turn \cup {sess[k]} /\ UNCHANGED claim
  /\ Rest(k, "idle")
  /\ UNCHANGED <<backend, status, owner, home, pending, eager, rowVars, orphans, split>>

\* run_streaming_turn stores the inbound message; the rest of the turn ends
\* with the claim.
StoreMessage(s) ==
  /\ s \in turn
  /\ turn' = turn \ {s}
  /\ claim' = Unclaimed(s)
  /\ orphans' = IF Readable(home[s]) THEN orphans
                                       ELSE orphans \cup {home[s]}
  /\ UNCHANGED <<backend, status, owner, home, pending, eager, rowVars, readerVars, split>>

\* The socket closes; the creates parked for it are dropped.
Close(k) ==
  /\ at[k] = "idle"
  /\ Rest(k, "gone")
  /\ pending' = Discarded(k)
  /\ UNCHANGED <<backend, status, owner, home, eager, rowVars, claim, turn, orphans, split>>

------------------------------------------------------------------------------
ReaderStep(k) == Bind(k) \/ FlushWrite(k) \/ FlushFail(k) \/ RefuseOrSpawn(k)

Next ==
  \/ \E k \in Conn : \/ ReaderStep(k) \/ Close(k)
                     \/ \E s \in Session : Open(k, s) \/ SendMessage(k, s)
                     \/ \E v, s \in Session : Resume(k, v, s)
  \/ \E s \in Session : EagerWrite(s) \/ EagerFail(s) \/ StoreMessage(s)

Spec == Init /\ [][Next]_vars

Fairness ==
  /\ \A k \in Conn : WF_vars(ReaderStep(k))
  /\ \A s \in Session : WF_vars(EagerWrite(s) \/ EagerFail(s)) /\ WF_vars(StoreMessage(s))

FairSpec == Spec /\ Fairness

------------------------------------------------------------------------------
(* Properties.                                                              *)

\* Whatever fails, is retried or runs concurrently, storage takes the rows of a
\* create in the order the CRM capture and the foreign keys need, and no row is
\* inserted again once it was acknowledged.  (A conversation of which DynamoDB
\* took the claim alone counts as taken: the create goes on without its row.)
RowsInOrderOnce ==
  /\ clash = {}
  /\ \A s \in Session :
       /\ \A r \in written[s], q \in RowsOf(s) : q < r => q \in written[s]
       /\ written[s] # {} => ConversationRow \in written[home[s]]

\* Reader k holds the record of session s's create.
Holds(k, s) == at[k] \in {"sendFlush", "resumeFlush"} /\ sess[k] = s

\* The rows of a create that no write has acknowledged.
Unacknowledged(s) == (Row \ written[s]) \cup unsure[s]

\* A create is parked, or in the hands of a single reader, never both; and the
\* record lists what storage lacks, with the rows that landed under an error and
\* nothing else.
RecordExact ==
  \A s \in Session :
    /\ pending[s] # {} => pending[s] = Unacknowledged(s)
    /\ \A k \in Conn : Holds(k, s) => /\ rows[k] = Unacknowledged(s)
                                      /\ pending[s] = {}
                                      /\ \A j \in Conn : Holds(j, s) => j = k

\* A live session whose connection is still open can always be completed: what
\* is missing is parked, or being written.
Completable ==
  \A s \in Session :
    /\ status[s] = "live" /\ written[s] # RowsOf(s)
    /\ owner[s] # None /\ at[owner[s]] # "gone"
    => pending[s] # {} \/ \E k \in Conn : Holds(k, s)

\* A claim taken for a message is given up again, whether the rows could be
\* written or not.
ClaimReturned == \A s \in Session : s \in claim ~> s \notin claim

\* handler.rs: "Before the turn spawns, because the runner persists the inbound
\* message against `conversation_id` and every child row FKs the conversation".
MessageHasConversation == orphans = {}

\* deferred_conversation.rs: a closed connection's parked create "never
\* accumulates in the pending map for the pod's lifetime".
NoOrphanPark ==
  \A s \in Session : pending[s] # {} => at[owner[s]] # "gone"

\* deferred_conversation.rs: a reconnect "must bind to the SAME conversation
\* rather than mint a second one".
NoSplitConversation ==
  \A v \in split : ~Readable(v)

\* state.rs materialize_session: "a retry after a transient failure resumes where
\* it stopped rather than re-inserting a row whose primary key is already taken".
RetryResumes ==
  \A k \in Conn :
    at[k] \in {"sendFlush", "resumeFlush"} => Accepts(sess[k], NextRow(rows[k]))
==============================================================================

------------------------ MODULE DeferredSession_proofs ------------------------
(***************************************************************************)
(* Proofs about DeferredSession: the type invariant, the order of the rows *)
(* and the exactness of the parked record, for any number of connections   *)
(* and sessions.                                                           *)
(***************************************************************************)
EXTENDS DeferredSession, TLAPS

Flushing(k) == at[k] \in {"sendFlush", "resumeFlush"}
Resuming(k) == at[k] \in {"resumeFlush", "bind"}

\* A session id that nobody has been given yet has left no trace.
Untouched ==
  \A s \in Session :
    status[s] \in {"new", "minting"} =>
      /\ home[s] = s /\ pending[s] = {} /\ eager[s] = {}
      /\ written[s] = {} /\ unsure[s] = {}

\* A session id is minted for one reconnect.
FreshOwned ==
  /\ \A k \in Conn : Resuming(k) => fresh[k] \in Session /\ status[fresh[k]] = "minting"
  /\ \A j, k \in Conn : Resuming(j) /\ Resuming(k) /\ fresh[j] = fresh[k] => j = k

\* A create writes its own rows only, and an immediate one is at work until
\* they are all written.
WrittenOwn == \A s \in Session : written[s] \subseteq RowsOf(s)
Creating == \A s \in Session : status[s] = "creating" => eager[s] # {}

\* Only live sessions with a conversation of their own are parked ...
ParkedLive ==
  \A s \in Session : pending[s] # {} => home[s] = s /\ status[s] = "live"

\* ... or flushed, or named by a reconnect.
FlushedLive ==
  \A k \in Conn : Flushing(k) \/ Resuming(k) =>
    sess[k] \in Session /\ home[sess[k]] = sess[k] /\ status[sess[k]] = "live"

\* A reader in flush_pending has a row left to write.
FlushHasRows == \A k \in Conn : Flushing(k) => rows[k] # {}

\* A reader about to spawn a turn does so for a session.
ReadyFor == \A k \in Conn : at[k] = "ready" => sess[k] \in Session

\* The spawned task of an immediate create knows what is missing.
EagerExact ==
  \A s \in Session :
    eager[s] # {} => status[s] = "creating" /\ eager[s] = RowsOf(s) \ written[s]

\* A session is bound to a conversation of its own or to one that exists.
BoundToExisting ==
  \A s \in Session : home[s] # s => ConversationRow \in written[home[s]]

\* The inductive invariant.
IInv == /\ TypeOK /\ RowsInOrderOnce /\ RecordExact
        /\ Untouched /\ FreshOwned /\ EagerExact /\ BoundToExisting
        /\ ParkedLive /\ FlushedLive /\ FlushHasRows /\ ReadyFor
        /\ WrittenOwn /\ Creating /\ Completable

-------------------------------------------------------------------------------
\* The next row is one of the rows, and the first of them in the write order.
LEMMA NextRowFirst ==
  ASSUME NEW R \in SUBSET Row, R # {}
  PROVE  NextRow(R) \in R /\ \A q \in R : NextRow(R) <= q
<1>1. \E r \in R : \A q \in R : r <= q
  <2>1. CASE 1 \in R BY <2>1 DEF Row
  <2>2. CASE 1 \notin R /\ 2 \in R BY <2>2 DEF Row
  <2>3. CASE 1 \notin R /\ 2 \notin R /\ 3 \in R BY <2>3 DEF Row
  <2>4. CASE 1 \notin R /\ 2 \notin R /\ 3 \notin R
    <3>1. \A q \in R : q = 4 BY <2>4 DEF Row
    <3> QED BY <3>1
  <2> QED BY <2>1, <2>2, <2>3, <2>4
<1> QED BY <1>1 DEF NextRow

\* What an insert may change, whether it is acknowledged or not.
RowsKept(s, r) ==
  /\ written' \in [Session -> SUBSET Row] /\ unsure' \in [Session -> SUBSET Row]
  /\ half' \subseteq Session /\ clash' \subseteq Session
  /\ \A x \in Session : x # s => written'[x] = written[x] /\ unsure'[x] = unsure[x]
  /\ written[s] \subseteq written'[s] /\ written'[s] \subseteq written[s] \cup {r}
  /\ RowsInOrderOnce' /\ BoundToExisting' /\ WrittenOwn'

\* An insert of the next row of a create keeps the order of its rows; if it is
\* acknowledged its row is settled, otherwise nothing more is than before.
LEMMA InsertKeeps ==
  ASSUME IInv, NEW s \in Session, NEW r \in RowsOf(s), home' = home,
         \A q \in RowsOf(s) : q < r => q \in written[s],
         r \notin written[s] \ unsure[s],
         Insert(s, r) \/ InsertFails(s, r)
  PROVE  /\ RowsKept(s, r)
         /\ Insert(s, r) => written'[s] = written[s] \cup {r} /\ unsure'[s] = unsure[s] \ {r}
         /\ InsertFails(s, r) => Unacknowledged(s)' = Unacknowledged(s)
<1>0. TypeOK /\ RowsInOrderOnce /\ BoundToExisting /\ WrittenOwn /\ RowsOf(s) \subseteq Row
  BY DEF IInv, RowsOf, BoundRows
<1>1. /\ written' \in [Session -> SUBSET Row] /\ unsure' \in [Session -> SUBSET Row]
      /\ half' \subseteq Session /\ clash' \subseteq Session
  BY <1>0 DEF Insert, InsertFails, Sent, TypeOK
<1>2. \A x \in Session : x # s => written'[x] = written[x] /\ unsure'[x] = unsure[x]
  BY <1>0 DEF Insert, InsertFails, TypeOK
<1>3. written[s] \subseteq written'[s] /\ written'[s] \subseteq written[s] \cup {r}
  BY <1>0 DEF Insert, InsertFails, TypeOK
<1>4. Insert(s, r) => written'[s] = written[s] \cup {r} /\ unsure'[s] = unsure[s] \ {r}
  BY <1>0 DEF Insert, TypeOK
<1>5. InsertFails(s, r) => Unacknowledged(s)' = Unacknowledged(s)
  BY <1>0 DEF InsertFails, TypeOK, Unacknowledged
<1>6. clash' = {}
  BY <1>0 DEF Insert, InsertFails, Sent, RowsInOrderOnce
<1>7. \A x \in Session : RowsOf(x)' = RowsOf(x) /\ written[x] \subseteq written'[x]
  BY <1>2, <1>3 DEF RowsOf
<1>8. ASSUME NEW x \in Session, NEW a \in written'[x], NEW q \in RowsOf(x), q < a
      PROVE  q \in written'[x]
  BY <1>0, <1>2, <1>3, <1>8 DEF RowsInOrderOnce
<1>9. ASSUME NEW x \in Session, written'[x] # {} PROVE ConversationRow \in written'[home[x]]
  <2>1. CASE written[x] # {}
    BY <2>1, <1>0, <1>7 DEF RowsInOrderOnce, TypeOK
  <2>2. CASE written[x] = {} /\ home[x] # x
    BY <2>2, <1>0, <1>7 DEF BoundToExisting, TypeOK
  <2>3. CASE written[x] = {} /\ home[x] = x
    <3>1. x = s BY <2>3, <1>2, <1>9
    <3>2. ConversationRow \in RowsOf(s) /\ (r = ConversationRow \/ ConversationRow < r)
      BY <3>1, <2>3 DEF RowsOf, Row, ConversationRow
    <3> QED BY <3>1, <3>2, <2>3, <1>3, <1>9
  <2> QED BY <2>1, <2>2, <2>3
<1>10. RowsInOrderOnce'
  BY <1>6, <1>7, <1>8, <1>9 DEF RowsInOrderOnce
<1>11. BoundToExisting'
  BY <1>0, <1>7 DEF BoundToExisting, TypeOK
<1>12. WrittenOwn'
  BY <1>0, <1>2, <1>3, <1>7 DEF WrittenOwn
<1> QED BY <1>1, <1>2, <1>3, <1>4, <1>5, <1>10, <1>11, <1>12 DEF RowsKept

\* The invariant holds before the first create ...
LEMMA InitIInv == Init => IInv
BY DeferredAssumption DEF Init, IInv, TypeOK, Place, RowsInOrderOnce, RecordExact, Unacknowledged, Holds,
                          Untouched, FreshOwned, EagerExact, BoundToExisting, ParkedLive,
                          FlushedLive, FlushHasRows, ReadyFor, WrittenOwn, Creating,
                          Completable, Flushing, Resuming, RowsOf

\* ... and every step of a reader, a create's task or a turn preserves it.
LEMMA StepIInv == IInv /\ [Next]_vars => IInv'
<1> SUFFICES ASSUME IInv, [Next]_vars PROVE IInv'
  OBVIOUS
<1> USE DeferredAssumption
<1>1. ASSUME NEW k \in Conn, NEW s \in Session, Open(k, s) PROVE IInv'
  <2>1. TypeOK'
    BY <1>1 DEF Open, rowVars, Park, CreateNow, readerVars, IInv, TypeOK
  <2>2. RowsInOrderOnce'
    BY <1>1 DEF Open, rowVars, Park, CreateNow, IInv, RowsInOrderOnce, RowsOf, Untouched, TypeOK
  <2>3. RecordExact'
    <3>1. written' = written /\ unsure' = unsure /\ at' = at /\ sess' = sess /\ rows' = rows
      BY <1>1 DEF Open, rowVars, readerVars
    <3>2. \A x \in Session : Unacknowledged(x)' = Unacknowledged(x)
      BY <3>1 DEF Unacknowledged
    <3>3. \A x \in Session, j \in Conn : Holds(j, x)' <=> Holds(j, x)
      BY <3>1 DEF Holds
    <3>4. status[s] = "new" /\ Unacknowledged(s) = Row
      BY <1>1 DEF Open, IInv, Untouched, Unacknowledged
    <3>5. \A j \in Conn : ~Holds(j, s)
      BY <3>4 DEF Holds, IInv, FlushedLive, Flushing
    <3>6. /\ pending'[s] = Row \/ pending'[s] = pending[s]
          /\ \A x \in Session : x # s => pending'[x] = pending[x]
      BY <1>1 DEF Open, Park, CreateNow, IInv, TypeOK
    <3>7. ASSUME NEW x \in Session PROVE pending'[x] # {} => pending'[x] = Unacknowledged(x)'
      BY <3>2, <3>4, <3>6 DEF IInv, RecordExact
    <3>8. ASSUME NEW x \in Session, NEW i \in Conn, Holds(i, x)'
          PROVE  /\ rows'[i] = Unacknowledged(x)' /\ pending'[x] = {}
                 /\ \A j \in Conn : Holds(j, x)' => j = i
      BY <3>1, <3>2, <3>3, <3>5, <3>6, <3>8 DEF IInv, RecordExact
    <3> QED BY <3>7, <3>8 DEF RecordExact
  <2>4. Untouched'
    BY <1>1 DEF Open, rowVars, Park, CreateNow, IInv, Untouched, TypeOK
  <2>5. FreshOwned'
    BY <1>1 DEF Open, rowVars, Park, CreateNow, readerVars, IInv, FreshOwned, Resuming, TypeOK
  <2>6. EagerExact'
    BY <1>1 DEF Open, rowVars, Park, CreateNow, IInv, EagerExact, RowsOf, Untouched, TypeOK
  <2>7. BoundToExisting'
    BY <1>1 DEF Open, rowVars, Park, CreateNow, IInv, BoundToExisting, TypeOK
  <2>8. ParkedLive'
    BY <1>1 DEF Open, rowVars, Park, CreateNow, IInv, ParkedLive, TypeOK
  <2>9. FlushedLive'
    BY <1>1 DEF Open, rowVars, Park, CreateNow, readerVars, IInv, FlushedLive, Flushing, Resuming, TypeOK
  <2>10. FlushHasRows'
    BY <1>1 DEF Open, rowVars, readerVars, IInv, FlushHasRows, Flushing
  <2>11. ReadyFor'
    BY <1>1 DEF Open, rowVars, readerVars, IInv, ReadyFor
  <2>12. WrittenOwn'
    BY <1>1 DEF Open, rowVars, Park, CreateNow, IInv, WrittenOwn, RowsOf, TypeOK
  <2>13. Creating'
    <3>1. BoundRows # {} /\ Row # {}
      <4>1. 2 \in BoundRows /\ 2 \in Row BY DEF BoundRows, Row, ConversationRow
      <4> QED BY <4>1
    <3> QED BY <1>1, <3>1 DEF Open, rowVars, Park, CreateNow, IInv, Creating, TypeOK
  <2>14. Completable'
    <3>1. Row # {}
      <4>1. 2 \in Row BY DEF Row
      <4> QED BY <4>1
    <3> QED BY <1>1, <3>1 DEF Open, rowVars, Park, CreateNow, readerVars, IInv, Completable, Holds,
                              RowsOf, TypeOK
  <2> QED BY <2>1, <2>2, <2>3, <2>4, <2>5, <2>6, <2>7, <2>8,
            <2>9, <2>10, <2>11, <2>12, <2>13, <2>14
         DEF IInv
<1>2. ASSUME NEW k \in Conn, NEW v \in Session, NEW s \in Session, Resume(k, v, s) PROVE IInv'
  <2>1. TypeOK'
    <3>1. /\ at' \in [Conn -> Place] /\ sess' \in [Conn -> Session \cup {None}]
          /\ fresh' \in [Conn -> Session \cup {None}] /\ rows' \in [Conn -> SUBSET Row]
      BY <1>2 DEF Resume, Goto, Place, IInv, TypeOK
    <3>2. pending' \in [Session -> SUBSET Row]
      BY <1>2 DEF Resume, Taken, IInv, TypeOK
    <3> QED BY <1>2, <3>1, <3>2 DEF Resume, rowVars, IInv, TypeOK
  <2>2. RowsInOrderOnce'
    BY <1>2 DEF Resume, rowVars, IInv, RowsInOrderOnce, RowsOf
  <2>3. RecordExact'
    <3>1. \A j \in Conn : j # k => at'[j] = at[j] /\ sess'[j] = sess[j] /\ rows'[j] = rows[j]
      BY <1>2 DEF Resume, rowVars, Goto, IInv, TypeOK
    <3>2. Holds(k, v)' => pending[v] # {} /\ rows'[k] = pending[v] /\ pending'[v] = {}
      BY <1>2 DEF Resume, rowVars, Taken, Goto, Holds, IInv, TypeOK
    <3>3. \A x \in Session : Holds(k, x)' => x = v
      BY <1>2 DEF Resume, rowVars, Goto, Holds, IInv, TypeOK
    <3>4. \A x \in Session : pending'[x] = pending[x] \/ pending'[x] = {}
      BY <1>2 DEF Resume, rowVars, Taken, Goto, IInv, TypeOK
    <3>5. pending[v] # {} => \A j \in Conn : ~Holds(j, v)
      BY DEF IInv, RecordExact
    <3>6. written' = written /\ unsure' = unsure
      BY <1>2 DEF Resume, rowVars
    <3>7. \A x \in Session, j \in Conn : j # k => (Holds(j, x)' <=> Holds(j, x))
      BY <3>1 DEF Holds
    <3>8. ASSUME NEW x \in Session PROVE pending'[x] # {} => pending'[x] = Unacknowledged(x)'
      BY <3>4, <3>6 DEF IInv, RecordExact, Unacknowledged
    <3>9. ASSUME NEW x \in Session, NEW i \in Conn, Holds(i, x)'
          PROVE  /\ rows'[i] = Unacknowledged(x)' /\ pending'[x] = {}
                 /\ \A j \in Conn : Holds(j, x)' => j = i
      <4>1. CASE i = k
        BY <4>1, <3>2, <3>3, <3>5, <3>6, <3>7, <3>9 DEF IInv, RecordExact, Unacknowledged
      <4>2. CASE i # k
        BY <4>2, <3>1, <3>2, <3>3, <3>4, <3>5, <3>6, <3>7, <3>9 DEF IInv, RecordExact, Unacknowledged
      <4> QED BY <4>1, <4>2
    <3> QED BY <3>8, <3>9 DEF RecordExact
  <2>4. Untouched'
    <3>1. home' = home /\ eager' = eager /\ written' = written /\ unsure' = unsure
      BY <1>2 DEF Resume, rowVars
    <3>2. \A x \in Session : pending'[x] = pending[x] \/ pending'[x] = {}
      BY <1>2 DEF Resume, rowVars, Taken, IInv, TypeOK
    <3>3. \A x \in Session : status'[x] \in {"new", "minting"} => status[x] \in {"new", "minting"}
      BY <1>2 DEF Resume, rowVars
    <3> QED BY <3>1, <3>2, <3>3 DEF IInv, Untouched
  <2>5. FreshOwned'
    <3>1. /\ at[k] = "idle" /\ status[s] = "new" /\ status' = [status EXCEPT ![s] = "minting"]
          /\ fresh' = [fresh EXCEPT ![k] = s]
      BY <1>2 DEF Resume, rowVars, Goto
    <3>2. \A j \in Conn : j # k => at'[j] = at[j] /\ fresh'[j] = fresh[j]
      BY <1>2 DEF Resume, rowVars, Goto, IInv, TypeOK
    <3>3. fresh'[k] = s /\ status'[s] = "minting"
      BY <3>1 DEF IInv, TypeOK
    <3>4. \A j \in Conn : j # k /\ Resuming(j)' =>
            fresh'[j] \in Session /\ status[fresh'[j]] = "minting" /\ fresh'[j] # s
      BY <3>1, <3>2 DEF IInv, FreshOwned, Resuming
    <3>5. \A x \in Session : status[x] = "minting" => status'[x] = "minting"
      BY <3>1
    <3>6. \A i, j \in Conn : i # k /\ j # k /\ Resuming(i)' /\ Resuming(j)'
                              /\ fresh'[i] = fresh'[j] => i = j
      BY <3>2 DEF IInv, FreshOwned, Resuming
    <3>7. \A j \in Conn : Resuming(j)' => fresh'[j] \in Session /\ status'[fresh'[j]] = "minting"
      BY <3>3, <3>4, <3>5
    <3>8. \A i, j \in Conn : Resuming(i)' /\ Resuming(j)' /\ fresh'[i] = fresh'[j] => i = j
      BY <3>3, <3>4, <3>6
    <3> QED BY <3>7, <3>8 DEF FreshOwned
  <2>6. EagerExact'
    BY <1>2 DEF Resume, rowVars, IInv, EagerExact, RowsOf
  <2>7. BoundToExisting'
    BY <1>2 DEF Resume, rowVars, IInv, BoundToExisting
  <2>8. ParkedLive'
    BY <1>2 DEF Resume, rowVars, Taken, IInv, ParkedLive, Flushing, Resuming, TypeOK
  <2>9. FlushedLive'
    BY <1>2 DEF Resume, rowVars, Goto, IInv, FlushedLive, Flushing, Resuming, TypeOK
  <2>10. FlushHasRows'
    BY <1>2 DEF Resume, rowVars, Goto, IInv, FlushHasRows, Flushing, TypeOK
  <2>11. ReadyFor'
    BY <1>2 DEF Resume, rowVars, Goto, IInv, ReadyFor, TypeOK
  <2>12. WrittenOwn'
    BY <1>2 DEF Resume, rowVars, IInv, WrittenOwn, RowsOf
  <2>13. Creating'
    BY <1>2 DEF Resume, rowVars, IInv, Creating
  <2>14. Completable'
    <3>1. /\ UNCHANGED <<owner, home, written>> /\ at[k] = "idle"
          /\ \A x \in Session : status'[x] = "live" => status[x] = "live"
      BY <1>2 DEF Resume, rowVars, IInv, TypeOK
    <3>2. \A j \in Conn : j # k => at'[j] = at[j] /\ sess'[j] = sess[j]
      BY <1>2 DEF Resume, Goto, IInv, TypeOK
    <3>3. \A x \in Session : x # v => pending'[x] = pending[x]
      BY <1>2 DEF Resume, Taken, IInv, TypeOK
    <3>4. pending'[v] # {} \/ Holds(k, v)' \/ pending[v] = {}
      BY <1>2 DEF Resume, Goto, Holds, IInv, TypeOK
    <3>5. ASSUME NEW j \in Conn, NEW x \in Session, Holds(j, x) PROVE Holds(j, x)'
      BY <3>1, <3>2, <3>5 DEF Holds
    <3>6. \A x \in Session : pending[x] # {} => pending'[x] # {} \/ \E j \in Conn : Holds(j, x)'
      BY <3>3, <3>4
    <3>7. \A x \in Session : RowsOf(x)' = RowsOf(x)
      BY <3>1 DEF RowsOf
    <3>8. at[k] # "gone" /\ \A j \in Conn : at'[j] # "gone" => at[j] # "gone"
      BY <3>1, <3>2
    <3>9. owner \in [Session -> Conn \cup {None}]
      BY DEF IInv, TypeOK
    <3> QED BY <3>1, <3>5, <3>6, <3>7, <3>8, <3>9 DEF IInv, Completable
  <2> QED BY <2>1, <2>2, <2>3, <2>4, <2>5, <2>6, <2>7, <2>8,
            <2>9, <2>10, <2>11, <2>12, <2>13, <2>14
         DEF IInv
<1>3. ASSUME NEW k \in Conn, Bind(k) PROVE IInv'
  <2>1. TypeOK'
    <3>1. sess[k] \in Session /\ fresh[k] \in Session
      BY <1>3 DEF Bind, rowVars, IInv, FlushedLive, FreshOwned, Resuming
    <3>2. pending' \in [Session -> SUBSET Row] /\ eager' \in [Session -> SUBSET Row]
      BY <1>3, <3>1 DEF Bind, rowVars, Park, CreateNow, IInv, TypeOK, BoundRows
    <3>3. /\ status' \in [Session -> {"new", "minting", "creating", "live", "failed"}]
          /\ owner' \in [Session -> Conn \cup {None}] /\ home' \in [Session -> Session]
          /\ split' \subseteq Session
      BY <1>3, <3>1 DEF Bind, rowVars, Park, CreateNow, IInv, TypeOK
    <3> QED BY <1>3, <3>2, <3>3 DEF Bind, rowVars, Goto, Rest, Place, IInv, TypeOK
  <2>2. RowsInOrderOnce'
    BY <1>3 DEF Bind, rowVars, Park, CreateNow, IInv, RowsInOrderOnce, RowsOf, Untouched, TypeOK,
                FreshOwned, Resuming, FlushedLive
  <2>3. RecordExact'
    <3>1. fresh[k] \in Session /\ status[fresh[k]] = "minting"
      BY <1>3 DEF Bind, IInv, FreshOwned, Resuming
    <3>2. written' = written /\ unsure' = unsure
      BY <1>3 DEF Bind, rowVars
    <3>3. \A x \in Session : x # fresh[k] => pending'[x] = pending[x]
      BY <1>3, <3>1 DEF Bind, Park, CreateNow, IInv, TypeOK
    <3>4. pending'[fresh[k]] \in {{}, Row} /\ Unacknowledged(fresh[k]) = Row
      BY <1>3, <3>1 DEF Bind, Park, CreateNow, IInv, TypeOK, Untouched, Unacknowledged
    <3>5. \A j \in Conn, x \in Session : Holds(j, x)' => Holds(j, x) /\ rows'[j] = rows[j]
      BY <1>3 DEF Bind, Goto, Rest, Holds, IInv, TypeOK
    <3>6. \A j \in Conn : ~Holds(j, fresh[k])
      BY <3>1 DEF IInv, FlushedLive, Flushing, Holds
    <3>7. \A x \in Session : Unacknowledged(x)' = Unacknowledged(x)
      BY <3>2 DEF Unacknowledged
    <3>8. ASSUME NEW x \in Session
          PROVE  /\ pending'[x] # {} => pending'[x] = Unacknowledged(x)
                 /\ \A i \in Conn : Holds(i, x)' => /\ rows'[i] = Unacknowledged(x)
                                                    /\ pending'[x] = {}
                                                    /\ \A j \in Conn : Holds(j, x)' => j = i
      <4>1. CASE x = fresh[k] BY <4>1, <3>4, <3>5, <3>6
      <4>2. CASE x # fresh[k] BY <4>2, <3>3, <3>5 DEF IInv, RecordExact
      <4> QED BY <4>1, <4>2
    <3> QED BY <3>7, <3>8 DEF RecordExact
  <2>4. Untouched'
    BY <1>3 DEF Bind, rowVars, Park, CreateNow, IInv, Untouched, TypeOK
  <2>5. FreshOwned'
    BY <1>3 DEF Bind, rowVars, Park, CreateNow, Goto, Rest, IInv, FreshOwned, Resuming, TypeOK
  <2>6. EagerExact'
    BY <1>3 DEF Bind, rowVars, Park, CreateNow, IInv, EagerExact, RowsOf, Untouched, FreshOwned, TypeOK,
                Resuming
  <2>7. BoundToExisting'
    BY <1>3 DEF Bind, Readable, rowVars, Park, CreateNow, IInv, BoundToExisting, TypeOK
  <2>8. ParkedLive'
    BY <1>3 DEF Bind, rowVars, Park, CreateNow, IInv, ParkedLive, FreshOwned, Resuming, TypeOK
  <2>9. FlushedLive'
    BY <1>3 DEF Bind, rowVars, Park, CreateNow, Goto, Rest, IInv, FlushedLive, FreshOwned, Flushing,
                Resuming, TypeOK
  <2>10. FlushHasRows'
    BY <1>3 DEF Bind, rowVars, Goto, Rest, IInv, FlushHasRows, Flushing
  <2>11. ReadyFor'
    BY <1>3 DEF Bind, rowVars, Goto, Rest, IInv, ReadyFor
  <2>12. WrittenOwn'
    BY <1>3 DEF Bind, rowVars, Park, CreateNow, IInv, WrittenOwn, RowsOf, Untouched, FreshOwned,
                Resuming, TypeOK
  <2>13. Creating'
    <3>1. BoundRows # {} /\ Row # {}
      <4>1. 2 \in BoundRows /\ 2 \in Row BY DEF BoundRows, Row, ConversationRow
      <4> QED BY <4>1
    <3>2. fresh[k] \in Session
      BY <1>3 DEF Bind, rowVars, IInv, FreshOwned, Resuming
    <3> QED BY <1>3, <3>1, <3>2 DEF Bind, rowVars, Park, CreateNow, IInv, Creating, TypeOK
  <2>14. Completable'
    <3>1. Row # {}
      <4>1. 2 \in Row BY DEF Row
      <4> QED BY <4>1
    <3>2. fresh[k] \in Session /\ sess[k] \in Session
      BY <1>3 DEF Bind, rowVars, IInv, FreshOwned, FlushedLive, Resuming
    <3>3. \A x \in Session : x # fresh[k] =>
            /\ status'[x] = status[x] /\ owner'[x] = owner[x] /\ home'[x] = home[x]
            /\ pending'[x] = pending[x] /\ written'[x] = written[x]
      BY <1>3, <3>2 DEF Bind, rowVars, Park, CreateNow, IInv, TypeOK
    <3>4. status'[fresh[k]] = "live" => pending'[fresh[k]] = Row
      BY <1>3, <3>2 DEF Bind, rowVars, Park, CreateNow, IInv, TypeOK
    <3>5. \A j \in Conn : j # k => at'[j] = at[j] /\ sess'[j] = sess[j]
      BY <1>3 DEF Bind, rowVars, Goto, Rest
    <3>6. \A x \in Session, j \in Conn : Holds(j, x) => Holds(j, x)'
      BY <1>3, <3>5 DEF Bind, rowVars, Holds
    <3>7. at[k] # "gone" /\ \A j \in Conn : at'[j] # "gone" => at[j] # "gone"
      BY <1>3, <3>5 DEF Bind, rowVars
    <3>8. owner' \in [Session -> Conn \cup {None}] /\ owner \in [Session -> Conn \cup {None}]
      BY <1>3, <3>2 DEF Bind, rowVars, Park, CreateNow, IInv, TypeOK
    <3>9. \A x \in Session : x # fresh[k] => RowsOf(x)' = RowsOf(x)
      BY <3>3 DEF RowsOf
    <3> QED BY <3>1, <3>3, <3>4, <3>6, <3>7, <3>8, <3>9 DEF IInv, Completable
  <2> QED BY <2>1, <2>2, <2>3, <2>4, <2>5, <2>6, <2>7, <2>8,
            <2>9, <2>10, <2>11, <2>12, <2>13, <2>14
         DEF IInv
<1>4. ASSUME NEW s \in Session, EagerWrite(s) PROVE IInv'
  <2>0. /\ NextRow(eager[s]) \in eager[s] /\ \A q \in eager[s] : NextRow(eager[s]) <= q
        /\ eager[s] = RowsOf(s) \ written[s]
    BY <1>4, NextRowFirst DEF EagerWrite, IInv, TypeOK, EagerExact
  <2> DEFINE n == NextRow(eager[s])
  <2>k. RowsKept(s, n) /\ written'[s] = written[s] \cup {n}
    <3>1. /\ n \in RowsOf(s) /\ n \notin written[s] \ unsure[s]
          /\ \A q \in RowsOf(s) : q < n => q \in written[s]
      BY <2>0 DEF RowsOf, BoundRows, Row
    <3>2. Insert(s, n) /\ home' = home BY <1>4 DEF EagerWrite
    <3> HIDE DEF n
    <3> QED BY <3>1, <3>2, InsertKeeps
  <2>1. TypeOK'
    BY <1>4, <2>0 DEF EagerWrite, Insert, Sent, readerVars, IInv, TypeOK
  <2>2. RowsInOrderOnce'
    BY <2>k DEF RowsKept
  <2>3. RecordExact'
    BY <1>4, <2>0 DEF EagerWrite, Insert, Sent, readerVars, IInv, RecordExact, Unacknowledged, Holds, ParkedLive,
                      FlushedLive, Flushing, EagerExact
  <2>4. Untouched'
    BY <1>4, <2>0 DEF EagerWrite, Insert, Sent, IInv, Untouched
  <2>5. FreshOwned'
    BY <1>4, <2>0 DEF EagerWrite, readerVars, IInv, FreshOwned, Resuming, EagerExact
  <2>6. EagerExact'
    BY <1>4, <2>0 DEF EagerWrite, Insert, Sent, IInv, EagerExact, RowsOf, TypeOK
  <2>7. BoundToExisting'
    BY <2>k DEF RowsKept
  <2>8. ParkedLive'
    BY <1>4, <2>0 DEF EagerWrite, IInv, ParkedLive
  <2>9. FlushedLive'
    BY <1>4, <2>0 DEF EagerWrite, readerVars, IInv, FlushedLive, Flushing, Resuming
  <2>10. FlushHasRows'
    BY <1>4, <2>0 DEF EagerWrite, readerVars, IInv, FlushHasRows, Flushing
  <2>11. ReadyFor'
    BY <1>4, <2>0 DEF EagerWrite, readerVars, IInv, ReadyFor
  <2>12. WrittenOwn'
    BY <2>k DEF RowsKept
  <2>13. Creating'
    BY <1>4, <2>0 DEF EagerWrite, IInv, Creating, TypeOK
  <2>14. Completable'
    <3>1. eager'[s] = {} => written'[s] = RowsOf(s)
      BY <1>4, <2>0 DEF EagerWrite, Insert, Sent, IInv, TypeOK, EagerExact, WrittenOwn
    <3>2. status'[s] = "live" => eager'[s] = {}
      BY <1>4, <2>0 DEF EagerWrite, IInv, EagerExact
    <3>3. \A x \in Session : x # s => status'[x] = status[x] /\ written'[x] = written[x]
      BY <1>4, <2>0 DEF EagerWrite, Insert, Sent
    <3>4. UNCHANGED <<owner, home, pending, at, sess>>
      BY <1>4, <2>0 DEF EagerWrite, readerVars
    <3> QED BY <3>1, <3>2, <3>3, <3>4 DEF IInv, Completable, Holds, RowsOf
  <2> QED BY <2>1, <2>2, <2>3, <2>4, <2>5, <2>6, <2>7, <2>8,
            <2>9, <2>10, <2>11, <2>12, <2>13, <2>14
         DEF IInv
<1>5. ASSUME NEW s \in Session, EagerFail(s) PROVE IInv'
  <2>0. /\ NextRow(eager[s]) \in eager[s] /\ \A q \in eager[s] : NextRow(eager[s]) <= q
        /\ eager[s] = RowsOf(s) \ written[s] /\ status[s] = "creating"
    BY <1>5, NextRowFirst DEF EagerFail, IInv, TypeOK, EagerExact
  <2>k. RowsKept(s, NextRow(eager[s]))
    <3>0. PICK n : n = NextRow(eager[s]) OBVIOUS
    <3>1. /\ n \in RowsOf(s) /\ n \notin written[s] \ unsure[s]
          /\ \A q \in RowsOf(s) : q < n => q \in written[s]
      BY <2>0, <3>0 DEF RowsOf, BoundRows, Row
    <3>2. InsertFails(s, n) /\ home' = home BY <1>5, <3>0 DEF EagerFail
    <3>3. RowsKept(s, n) BY <3>1, <3>2, InsertKeeps
    <3> QED BY <3>0, <3>3
  <2>1. TypeOK'
    BY <1>5, <2>0, <2>k DEF EagerFail, RowsKept, readerVars, IInv, TypeOK
  <2>2. RowsInOrderOnce'
    BY <2>k DEF RowsKept
  <2>3. RecordExact'
    BY <1>5, <2>0, <2>k DEF EagerFail, RowsKept, readerVars, IInv, RecordExact, Unacknowledged, Holds, ParkedLive,
                               FlushedLive, Flushing
  <2>4. Untouched'
    BY <1>5, <2>0, <2>k DEF EagerFail, RowsKept, IInv, Untouched
  <2>5. FreshOwned'
    BY <1>5, <2>0, <2>k DEF EagerFail, RowsKept, readerVars, IInv, FreshOwned, Resuming, EagerExact
  <2>6. EagerExact'
    BY <1>5, <2>0, <2>k DEF EagerFail, RowsKept, IInv, EagerExact, RowsOf, TypeOK
  <2>7. BoundToExisting'
    BY <2>k DEF RowsKept
  <2>8. ParkedLive'
    BY <1>5, <2>0, <2>k DEF EagerFail, RowsKept, IInv, ParkedLive, EagerExact
  <2>9. FlushedLive'
    BY <1>5, <2>0, <2>k DEF EagerFail, RowsKept, readerVars, IInv, FlushedLive, EagerExact, Flushing, Resuming
  <2>10. FlushHasRows'
    BY <1>5, <2>0, <2>k DEF EagerFail, RowsKept, readerVars, IInv, FlushHasRows, Flushing
  <2>11. ReadyFor'
    BY <1>5, <2>0, <2>k DEF EagerFail, RowsKept, readerVars, IInv, ReadyFor
  <2>12. WrittenOwn'
    BY <2>k DEF RowsKept
  <2>13. Creating'
    BY <1>5, <2>0, <2>k DEF EagerFail, RowsKept, IInv, Creating, TypeOK
  <2>14. Completable'
    BY <1>5, <2>0, <2>k DEF EagerFail, RowsKept, readerVars, IInv, Completable, Holds, RowsOf, TypeOK, Untouched,
                FreshOwned, Resuming, Flushing, FlushedLive, EagerExact, Creating, WrittenOwn,
                RecordExact, FlushHasRows
  <2> QED BY <2>1, <2>2, <2>3, <2>4, <2>5, <2>6, <2>7, <2>8,
            <2>9, <2>10, <2>11, <2>12, <2>13, <2>14
         DEF IInv
<1>6. ASSUME NEW k \in Conn, NEW s \in Session, SendMessage(k, s) PROVE IInv'
  <2>1. TypeOK'
    BY <1>6 DEF SendMessage, rowVars, Taken, Goto, IInv, TypeOK, Place
  <2>2. RowsInOrderOnce'
    BY <1>6 DEF SendMessage, rowVars, IInv, RowsInOrderOnce, RowsOf
  <2>3. RecordExact'
    <3>1. \A j \in Conn : j # k => at'[j] = at[j] /\ sess'[j] = sess[j] /\ rows'[j] = rows[j]
      BY <1>6 DEF SendMessage, rowVars, Taken, Goto, IInv, TypeOK
    <3>2. Holds(k, s)' => pending[s] # {} /\ rows'[k] = pending[s] /\ pending'[s] = {}
      BY <1>6 DEF SendMessage, rowVars, Taken, Goto, Holds, IInv, TypeOK
    <3>3. \A x \in Session : Holds(k, x)' => x = s
      BY <1>6 DEF SendMessage, rowVars, Goto, Holds, IInv, TypeOK
    <3>4. \A x \in Session : pending'[x] = pending[x] \/ pending'[x] = {}
      BY <1>6 DEF SendMessage, rowVars, Taken, IInv, TypeOK
    <3>5. pending[s] # {} => \A j \in Conn : ~Holds(j, s)
      BY DEF IInv, RecordExact
    <3>6. written' = written /\ unsure' = unsure
      BY <1>6 DEF SendMessage, rowVars
    <3>7. \A x \in Session, j \in Conn : j # k => (Holds(j, x)' <=> Holds(j, x))
      BY <3>1 DEF Holds
    <3>8. ASSUME NEW x \in Session PROVE pending'[x] # {} => pending'[x] = Unacknowledged(x)'
      BY <3>4, <3>6 DEF IInv, RecordExact, Unacknowledged
    <3>9. ASSUME NEW x \in Session, NEW i \in Conn, Holds(i, x)'
          PROVE  /\ rows'[i] = Unacknowledged(x)' /\ pending'[x] = {}
                 /\ \A j \in Conn : Holds(j, x)' => j = i
      <4>1. CASE i = k
        BY <4>1, <3>2, <3>3, <3>5, <3>6, <3>7, <3>9 DEF IInv, RecordExact, Unacknowledged
      <4>2. CASE i # k
        BY <4>2, <3>1, <3>2, <3>3, <3>4, <3>5, <3>6, <3>7, <3>9 DEF IInv, RecordExact, Unacknowledged
      <4> QED BY <4>1, <4>2
    <3> QED BY <3>8, <3>9 DEF RecordExact
  <2>4. Untouched'
    BY <1>6 DEF SendMessage, rowVars, Taken, IInv, Untouched, TypeOK
  <2>5. FreshOwned'
    BY <1>6 DEF SendMessage, rowVars, Goto, IInv, FreshOwned, Resuming, TypeOK
  <2>6. EagerExact'
    BY <1>6 DEF SendMessage, rowVars, IInv, EagerExact, RowsOf
  <2>7. BoundToExisting'
    BY <1>6 DEF SendMessage, rowVars, IInv, BoundToExisting
  <2>8. ParkedLive'
    BY <1>6 DEF SendMessage, rowVars, Taken, IInv, ParkedLive, TypeOK
  <2>9. FlushedLive'
    BY <1>6 DEF SendMessage, rowVars, Goto, IInv, ParkedLive, FlushedLive, Flushing, Resuming, TypeOK
  <2>10. FlushHasRows'
    BY <1>6 DEF SendMessage, rowVars, Goto, IInv, FlushHasRows, Flushing, TypeOK
  <2>11. ReadyFor'
    BY <1>6 DEF SendMessage, rowVars, Goto, IInv, ReadyFor, TypeOK
  <2>12. WrittenOwn'
    BY <1>6 DEF SendMessage, rowVars, IInv, WrittenOwn, RowsOf
  <2>13. Creating'
    BY <1>6 DEF SendMessage, rowVars, IInv, Creating
  <2>14. Completable'
    <3>1. UNCHANGED <<status, owner, home, eager, written>> /\ at[k] = "idle"
      BY <1>6 DEF SendMessage, rowVars
    <3>2. \A j \in Conn : j # k =>
            at'[j] = at[j] /\ sess'[j] = sess[j] /\ rows'[j] = rows[j]
      BY <1>6 DEF SendMessage, rowVars, Goto, IInv, TypeOK
    <3>3. \A x \in Session : x # s => pending'[x] = pending[x]
      BY <1>6 DEF SendMessage, rowVars, Taken, IInv, TypeOK
    <3>4. pending'[s] # {} \/ Holds(k, s)' \/ pending[s] = {}
      BY <1>6 DEF SendMessage, rowVars, Goto, Holds, IInv, TypeOK
    <3>5. ASSUME NEW j \in Conn, NEW x \in Session, Holds(j, x) PROVE Holds(j, x)'
      BY <3>1, <3>2, <3>5 DEF Holds
    <3>6. \A x \in Session : pending[x] # {} => pending'[x] # {} \/ \E j \in Conn : Holds(j, x)'
      BY <3>3, <3>4
    <3>7. \A x \in Session : RowsOf(x)' = RowsOf(x)
      BY <3>1 DEF RowsOf
    <3>8. at[k] # "gone" /\ \A j \in Conn : at'[j] # "gone" => at[j] # "gone"
      BY <3>1, <3>2
    <3>9. owner \in [Session -> Conn \cup {None}]
      BY DEF IInv, TypeOK
    <3> QED BY <3>1, <3>5, <3>6, <3>7, <3>8, <3>9 DEF IInv, Completable
  <2> QED BY <2>1, <2>2, <2>3, <2>4, <2>5, <2>6, <2>7, <2>8,
            <2>9, <2>10, <2>11, <2>12, <2>13, <2>14
         DEF IInv
<1>7. ASSUME NEW k \in Conn, FlushWrite(k) PROVE IInv'
  <2>0. /\ NextRow(rows[k]) \in rows[k] /\ \A q \in rows[k] : NextRow(rows[k]) <= q
        /\ sess[k] \in Session /\ home[sess[k]] = sess[k] /\ status[sess[k]] = "live"
        /\ rows[k] = Unacknowledged(sess[k])
    BY <1>7, NextRowFirst DEF FlushWrite, IInv, TypeOK, FlushHasRows, Flushing, FlushedLive,
                              RecordExact, Holds
  <2>k. /\ RowsKept(sess[k], NextRow(rows[k]))
        /\ written'[sess[k]] = written[sess[k]] \cup {NextRow(rows[k])}
        /\ unsure'[sess[k]] = unsure[sess[k]] \ {NextRow(rows[k])}
    <3>1. PICK n, z : n = NextRow(rows[k]) /\ z = sess[k] OBVIOUS
    <3>2. /\ z \in Session /\ RowsOf(z) = Row /\ n \in Row /\ rows[k] = Unacknowledged(z)
          /\ n \in rows[k] /\ \A q \in rows[k] : n <= q
      BY <2>0, <3>1 DEF RowsOf, IInv, TypeOK
    <3>3. n \notin written[z] \ unsure[z] /\ \A q \in Row : q < n => q \in written[z]
      BY <3>2 DEF Unacknowledged, Row
    <3>4. Insert(z, n) /\ home' = home BY <1>7, <3>1 DEF FlushWrite
    <3>5. RowsKept(z, n) /\ written'[z] = written[z] \cup {n} /\ unsure'[z] = unsure[z] \ {n}
      BY <3>2, <3>3, <3>4, InsertKeeps
    <3> QED BY <3>1, <3>5
  <2>1. TypeOK'
    BY <1>7, <2>0 DEF FlushWrite, Insert, Sent, Goto, IInv, TypeOK, Place, Flushing, FlushedLive
  <2>2. RowsInOrderOnce'
    BY <2>k DEF RowsKept
  <2>3. RecordExact'
    BY <1>7, <2>0 DEF FlushWrite, Insert, Sent, Goto, IInv, RecordExact, Unacknowledged, Holds, TypeOK
  <2>4. Untouched'
    BY <1>7, <2>0 DEF FlushWrite, Insert, Sent, IInv, Untouched, FlushedLive, Flushing
  <2>5. FreshOwned'
    BY <1>7, <2>0 DEF FlushWrite, Goto, IInv, FreshOwned, Resuming
  <2>6. EagerExact'
    BY <1>7, <2>0 DEF FlushWrite, Insert, Sent, IInv, EagerExact, RowsOf, FlushedLive, Flushing
  <2>7. BoundToExisting'
    BY <2>k DEF RowsKept
  <2>8. ParkedLive'
    BY <1>7, <2>0 DEF FlushWrite, IInv, ParkedLive
  <2>9. FlushedLive'
    BY <1>7, <2>0 DEF FlushWrite, Goto, IInv, FlushedLive, Flushing, Resuming
  <2>10. FlushHasRows'
    BY <1>7, <2>0 DEF FlushWrite, Goto, IInv, FlushHasRows, Flushing, TypeOK
  <2>11. ReadyFor'
    BY <1>7, <2>0 DEF FlushWrite, Goto, IInv, ReadyFor, FlushedLive, Flushing
  <2>12. WrittenOwn'
    BY <2>k DEF RowsKept
  <2>13. Creating'
    BY <1>7, <2>0 DEF FlushWrite, IInv, Creating
  <2>14. Completable'
    <3> DEFINE n == NextRow(rows[k])
    <3>1. sess[k] \in Session /\ RowsOf(sess[k]) = Row /\ Row \ written[sess[k]] \subseteq rows[k]
      BY <1>7, <2>0 DEF FlushWrite, IInv, FlushedLive, Flushing, RowsOf, RecordExact, Unacknowledged, Holds
    <3>2. written' = [written EXCEPT ![sess[k]] = @ \cup {n}]
      BY <1>7, <2>0 DEF FlushWrite, Insert, Sent
    <3>3. rows[k] \ {n} = {} => written'[sess[k]] = Row
      BY <1>7, <2>0, <3>1, <3>2 DEF IInv, TypeOK
    <3>4. \A x \in Session : x = sess[k] /\ rows[k] \ {n} # {} => Holds(k, x)'
      BY <1>7, <2>0 DEF FlushWrite, Goto, Holds
    <3>5. \A x \in Session : x # sess[k] => written'[x] = written[x]
      BY <3>1, <3>2
    <3>6. \A j \in Conn : j # k => at'[j] = at[j] /\ sess'[j] = sess[j]
      BY <1>7, <2>0 DEF FlushWrite, Goto
    <3>7. \A x \in Session, j \in Conn : x # sess[k] /\ Holds(j, x) => Holds(j, x)'
      BY <1>7, <2>0, <3>6 DEF Holds
    <3>8. UNCHANGED <<status, owner, home, pending>> /\ at[k] # "gone"
      BY <1>7, <2>0 DEF FlushWrite
    <3>9. \A j \in Conn : at'[j] # "gone" => at[j] # "gone"
      BY <3>6, <3>8
    <3>10. \A x \in Session : RowsOf(x)' = RowsOf(x) /\ owner[x] \in Conn \cup {None}
      BY <3>8 DEF RowsOf, IInv, TypeOK
    <3> HIDE DEF n
    <3>11. ASSUME NEW x \in Session, status'[x] = "live", written'[x] # RowsOf(x),
                  owner[x] # None, at'[owner[x]] # "gone"
           PROVE  pending[x] # {} \/ \E j \in Conn : Holds(j, x)'
      <4>1. CASE x = sess[k] BY <4>1, <3>1, <3>3, <3>4, <3>11
      <4>2. CASE x # sess[k]
        BY <4>2, <3>5, <3>7, <3>8, <3>9, <3>10, <3>11 DEF IInv, Completable
      <4> QED BY <4>1, <4>2
    <3> QED BY <3>8, <3>10, <3>11 DEF Completable
  <2> QED BY <2>1, <2>2, <2>3, <2>4, <2>5, <2>6, <2>7, <2>8,
            <2>9, <2>10, <2>11, <2>12, <2>13, <2>14
         DEF IInv
<1>8. ASSUME NEW k \in Conn, FlushFail(k) PROVE IInv'
  <2>0. /\ NextRow(rows[k]) \in rows[k] /\ \A q \in rows[k] : NextRow(rows[k]) <= q
        /\ sess[k] \in Session /\ home[sess[k]] = sess[k] /\ status[sess[k]] = "live"
        /\ rows[k] = Unacknowledged(sess[k])
    BY <1>8, NextRowFirst DEF FlushFail, IInv, TypeOK, FlushHasRows, Flushing, FlushedLive,
                              RecordExact, Holds
  <2>k. /\ RowsKept(sess[k], NextRow(rows[k]))
        /\ (Row \ written'[sess[k]]) \cup unsure'[sess[k]] = rows[k]
    <3>1. PICK n, z : n = NextRow(rows[k]) /\ z = sess[k] OBVIOUS
    <3>2. /\ z \in Session /\ RowsOf(z) = Row /\ n \in Row /\ rows[k] = Unacknowledged(z)
          /\ n \in rows[k] /\ \A q \in rows[k] : n <= q
      BY <2>0, <3>1 DEF RowsOf, IInv, TypeOK
    <3>3. n \notin written[z] \ unsure[z] /\ \A q \in Row : q < n => q \in written[z]
      BY <3>2 DEF Unacknowledged, Row
    <3>4. InsertFails(z, n) /\ home' = home BY <1>8, <3>1 DEF FlushFail
    <3>5. RowsKept(z, n) /\ Unacknowledged(z)' = Unacknowledged(z)
      BY <3>2, <3>3, <3>4, InsertKeeps
    <3> QED BY <3>1, <3>2, <3>5 DEF Unacknowledged
  <2>1. TypeOK'
    <3>1. pending' \in [Session -> SUBSET Row] /\ claim' \subseteq Session
      BY <1>8, <2>0 DEF FlushFail, Reparked, Unclaimed, IInv, TypeOK
    <3>2. /\ at' \in [Conn -> Place] /\ sess' \in [Conn -> Session \cup {None}]
          /\ fresh' \in [Conn -> Session \cup {None}] /\ rows' \in [Conn -> SUBSET Row]
      BY <1>8, <2>0 DEF FlushFail, Goto, Rest, Place, IInv, TypeOK
    <3> QED BY <1>8, <2>k, <3>1, <3>2 DEF FlushFail, RowsKept, IInv, TypeOK
  <2>2. RowsInOrderOnce'
    BY <2>k DEF RowsKept
  <2>3. RecordExact'
    <3>1. /\ sess[k] \in Session /\ Holds(k, sess[k])
          /\ (Row \ written'[sess[k]]) \cup unsure'[sess[k]] = rows[k]
          /\ \A x \in Session : x # sess[k] => written'[x] = written[x] /\ unsure'[x] = unsure[x]
      BY <1>8, <2>0, <2>k DEF FlushFail, RowsKept, Holds
    <3>2. pending' = [pending EXCEPT ![sess[k]] = rows[k]]
      BY <1>8, <2>0, <2>k DEF FlushFail, RowsKept, Reparked
    <3>3. \A x \in Session : ~Holds(k, x)'
      BY <1>8, <2>0, <2>k DEF FlushFail, RowsKept, Goto, Rest, Holds, IInv, TypeOK
    <3>4. \A j \in Conn : j # k => at'[j] = at[j] /\ sess'[j] = sess[j] /\ rows'[j] = rows[j]
      BY <1>8, <2>0, <2>k DEF FlushFail, RowsKept, Goto, Rest, IInv, TypeOK
    <3>5. \A x \in Session, j \in Conn : j # k => (Holds(j, x)' <=> Holds(j, x))
      BY <3>4 DEF Holds
    <3>6. \A x \in Session : pending'[x] = IF x = sess[k] THEN rows[k] ELSE pending[x]
      BY <3>2 DEF IInv, TypeOK
    <3>7. \A x \in Session : x # sess[k] => Unacknowledged(x)' = Unacknowledged(x)
      BY <3>1 DEF Unacknowledged
    <3>8. ASSUME NEW x \in Session, x # sess[k]
          PROVE  /\ pending'[x] # {} => pending'[x] = Unacknowledged(x)'
                 /\ \A i \in Conn : Holds(i, x)' => /\ rows'[i] = Unacknowledged(x)'
                                                    /\ pending'[x] = {}
                                                    /\ \A j \in Conn : Holds(j, x)' => j = i
      BY <3>3, <3>4, <3>5, <3>6, <3>7, <3>8 DEF IInv, RecordExact
    <3>9. /\ pending'[sess[k]] = (Row \ written'[sess[k]]) \cup unsure'[sess[k]]
          /\ \A i \in Conn, x \in Session : x = sess[k] => ~Holds(i, x)'
      BY <3>1, <3>3, <3>5, <3>6 DEF IInv, RecordExact
    <3>10. ASSUME NEW x \in Session, x = sess[k] PROVE pending'[x] = Unacknowledged(x)'
      BY <3>9, <3>10 DEF Unacknowledged
    <3> QED BY <3>8, <3>9, <3>10 DEF RecordExact
  <2>4. Untouched'
    BY <1>8, <2>0, <2>k DEF FlushFail, RowsKept, Reparked, IInv, Untouched, FlushedLive, Flushing
  <2>5. FreshOwned'
    BY <1>8, <2>0, <2>k DEF FlushFail, RowsKept, Goto, Rest, IInv, FreshOwned, Resuming, TypeOK
  <2>6. EagerExact'
    BY <1>8, <2>0, <2>k DEF FlushFail, RowsKept, IInv, EagerExact, RowsOf
  <2>7. BoundToExisting'
    BY <2>k DEF RowsKept
  <2>8. ParkedLive'
    BY <1>8, <2>0, <2>k DEF FlushFail, RowsKept, Reparked, IInv, ParkedLive, FlushedLive, Flushing
  <2>9. FlushedLive'
    BY <1>8, <2>0, <2>k DEF FlushFail, RowsKept, Goto, Rest, IInv, FlushedLive, Flushing, Resuming, TypeOK
  <2>10. FlushHasRows'
    BY <1>8, <2>0, <2>k DEF FlushFail, RowsKept, Goto, Rest, IInv, FlushHasRows, Flushing, TypeOK
  <2>11. ReadyFor'
    BY <1>8, <2>0, <2>k DEF FlushFail, RowsKept, Goto, Rest, IInv, ReadyFor, TypeOK
  <2>12. WrittenOwn'
    BY <2>k DEF RowsKept
  <2>13. Creating'
    BY <1>8, <2>0, <2>k DEF FlushFail, RowsKept, IInv, Creating
  <2>14. Completable'
    <3>1. /\ UNCHANGED <<status, owner, home>> /\ at[k] # "gone"
          /\ pending' = [pending EXCEPT ![sess[k]] = rows[k]]
          /\ \A x \in Session : x # sess[k] => written'[x] = written[x]
      BY <1>8, <2>0, <2>k DEF FlushFail, RowsKept, Reparked
    <3>2. sess[k] \in Session /\ rows[k] # {}
      BY <1>8, <2>0, <2>k DEF FlushFail, RowsKept, IInv, FlushedLive, FlushHasRows, Flushing
    <3>3. \A j \in Conn : j # k => at'[j] = at[j] /\ sess'[j] = sess[j]
      BY <1>8, <2>0, <2>k DEF FlushFail, RowsKept, Goto, Rest, IInv, TypeOK
    <3>4. \A x \in Session, j \in Conn : x # sess[k] /\ Holds(j, x) => Holds(j, x)'
      BY <3>3 DEF Holds
    <3>5. \A j \in Conn : at'[j] # "gone" => at[j] # "gone"
      BY <3>1, <3>3
    <3>6. \A x \in Session : /\ RowsOf(x)' = RowsOf(x) /\ owner[x] \in Conn \cup {None}
                             /\ pending'[x] = IF x = sess[k] THEN rows[k] ELSE pending[x]
      BY <3>1 DEF RowsOf, IInv, TypeOK
    <3> QED BY <3>1, <3>2, <3>4, <3>5, <3>6 DEF IInv, Completable
  <2> QED BY <2>1, <2>2, <2>3, <2>4, <2>5, <2>6, <2>7, <2>8,
            <2>9, <2>10, <2>11, <2>12, <2>13, <2>14
         DEF IInv
<1>9. ASSUME NEW k \in Conn, RefuseOrSpawn(k) PROVE IInv'
  <2>1. TypeOK'
    BY <1>9 DEF RefuseOrSpawn, rowVars, Unclaimed, Goto, Rest, IInv, TypeOK, Place, ReadyFor
  <2>2. RowsInOrderOnce'
    BY <1>9 DEF RefuseOrSpawn, rowVars, IInv, RowsInOrderOnce, RowsOf
  <2>3. RecordExact'
    BY <1>9 DEF RefuseOrSpawn, rowVars, Goto, Rest, IInv, RecordExact, Unacknowledged, Holds
  <2>4. Untouched'
    BY <1>9 DEF RefuseOrSpawn, rowVars, IInv, Untouched
  <2>5. FreshOwned'
    BY <1>9 DEF RefuseOrSpawn, rowVars, Goto, Rest, IInv, FreshOwned, Resuming
  <2>6. EagerExact'
    BY <1>9 DEF RefuseOrSpawn, rowVars, IInv, EagerExact, RowsOf
  <2>7. BoundToExisting'
    BY <1>9 DEF RefuseOrSpawn, rowVars, IInv, BoundToExisting
  <2>8. ParkedLive'
    BY <1>9 DEF RefuseOrSpawn, rowVars, IInv, ParkedLive
  <2>9. FlushedLive'
    BY <1>9 DEF RefuseOrSpawn, rowVars, Goto, Rest, IInv, FlushedLive, Flushing, Resuming
  <2>10. FlushHasRows'
    BY <1>9 DEF RefuseOrSpawn, rowVars, Goto, Rest, IInv, FlushHasRows, Flushing
  <2>11. ReadyFor'
    BY <1>9 DEF RefuseOrSpawn, rowVars, Goto, Rest, IInv, ReadyFor, TypeOK
  <2>12. WrittenOwn'
    BY <1>9 DEF RefuseOrSpawn, rowVars, IInv, WrittenOwn, RowsOf
  <2>13. Creating'
    BY <1>9 DEF RefuseOrSpawn, rowVars, IInv, Creating
  <2>14. Completable'
    BY <1>9 DEF RefuseOrSpawn, rowVars, Unclaimed, Goto, Rest, IInv, Completable, Holds, RowsOf, TypeOK,
                Untouched, FreshOwned, Resuming, Flushing, FlushedLive, EagerExact, Creating,
                WrittenOwn, RecordExact, FlushHasRows
  <2> QED BY <2>1, <2>2, <2>3, <2>4, <2>5, <2>6, <2>7, <2>8,
            <2>9, <2>10, <2>11, <2>12, <2>13, <2>14
         DEF IInv
<1>10. ASSUME NEW s \in Session, StoreMessage(s) PROVE IInv'
  <2>1. TypeOK'
    BY <1>10 DEF StoreMessage, rowVars, Unclaimed, readerVars, IInv, TypeOK
  <2>2. RowsInOrderOnce'
    BY <1>10 DEF StoreMessage, rowVars, IInv, RowsInOrderOnce, RowsOf
  <2>3. RecordExact'
    BY <1>10 DEF StoreMessage, rowVars, readerVars, IInv, RecordExact, Unacknowledged, Holds
  <2>4. Untouched'
    BY <1>10 DEF StoreMessage, rowVars, IInv, Untouched
  <2>5. FreshOwned'
    BY <1>10 DEF StoreMessage, rowVars, readerVars, IInv, FreshOwned, Resuming
  <2>6. EagerExact'
    BY <1>10 DEF StoreMessage, rowVars, IInv, EagerExact, RowsOf
  <2>7. BoundToExisting'
    BY <1>10 DEF StoreMessage, rowVars, IInv, BoundToExisting
  <2>8. ParkedLive'
    BY <1>10 DEF StoreMessage, rowVars, IInv, ParkedLive
  <2>9. FlushedLive'
    BY <1>10 DEF StoreMessage, rowVars, readerVars, IInv, FlushedLive, Flushing, Resuming
  <2>10. FlushHasRows'
    BY <1>10 DEF StoreMessage, rowVars, readerVars, IInv, FlushHasRows, Flushing
  <2>11. ReadyFor'
    BY <1>10 DEF StoreMessage, rowVars, readerVars, IInv, ReadyFor
  <2>12. WrittenOwn'
    BY <1>10 DEF StoreMessage, rowVars, IInv, WrittenOwn, RowsOf
  <2>13. Creating'
    BY <1>10 DEF StoreMessage, rowVars, IInv, Creating
  <2>14. Completable'
    BY <1>10 DEF StoreMessage, rowVars, Unclaimed, readerVars, IInv, Completable, Holds, RowsOf, TypeOK,
                 Untouched, FreshOwned, Resuming, Flushing, FlushedLive, EagerExact, Creating,
                 WrittenOwn, RecordExact, FlushHasRows
  <2> QED BY <2>1, <2>2, <2>3, <2>4, <2>5, <2>6, <2>7, <2>8,
            <2>9, <2>10, <2>11, <2>12, <2>13, <2>14
         DEF IInv
<1>11. ASSUME NEW k \in Conn, Close(k) PROVE IInv'
  <2>1. TypeOK'
    BY <1>11 DEF Close, rowVars, Discarded, Goto, Rest, IInv, TypeOK, Place
  <2>2. RowsInOrderOnce'
    BY <1>11 DEF Close, rowVars, IInv, RowsInOrderOnce, RowsOf
  <2>3. RecordExact'
    BY <1>11 DEF Close, rowVars, Discarded, Goto, Rest, IInv, RecordExact, Unacknowledged, Holds
  <2>4. Untouched'
    BY <1>11 DEF Close, rowVars, Discarded, IInv, Untouched
  <2>5. FreshOwned'
    BY <1>11 DEF Close, rowVars, Goto, Rest, IInv, FreshOwned, Resuming
  <2>6. EagerExact'
    BY <1>11 DEF Close, rowVars, IInv, EagerExact, RowsOf
  <2>7. BoundToExisting'
    BY <1>11 DEF Close, rowVars, IInv, BoundToExisting
  <2>8. ParkedLive'
    BY <1>11 DEF Close, rowVars, Discarded, IInv, ParkedLive
  <2>9. FlushedLive'
    BY <1>11 DEF Close, rowVars, Goto, Rest, IInv, FlushedLive, Flushing, Resuming
  <2>10. FlushHasRows'
    BY <1>11 DEF Close, rowVars, Goto, Rest, IInv, FlushHasRows, Flushing
  <2>11. ReadyFor'
    BY <1>11 DEF Close, rowVars, Goto, Rest, IInv, ReadyFor
  <2>12. WrittenOwn'
    BY <1>11 DEF Close, rowVars, IInv, WrittenOwn, RowsOf
  <2>13. Creating'
    BY <1>11 DEF Close, rowVars, IInv, Creating
  <2>14. Completable'
    BY <1>11 DEF Close, rowVars, Discarded, Goto, Rest, IInv, Completable, Holds, RowsOf, TypeOK,
                 Untouched, FreshOwned, Resuming, Flushing, FlushedLive, EagerExact, Creating,
                 WrittenOwn, RecordExact, FlushHasRows
  <2> QED BY <2>1, <2>2, <2>3, <2>4, <2>5, <2>6, <2>7, <2>8,
            <2>9, <2>10, <2>11, <2>12, <2>13, <2>14
         DEF IInv
<1>12. CASE UNCHANGED vars
  <2>1. TypeOK' /\ RowsInOrderOnce' /\ Untouched' /\ EagerExact' /\ BoundToExisting'
    BY <1>12 DEF vars, rowVars, readerVars, IInv, TypeOK, RowsInOrderOnce, Untouched, EagerExact,
                 BoundToExisting, RowsOf
  <2>2. RecordExact' /\ Completable'
    BY <1>12 DEF vars, rowVars, readerVars, IInv, RecordExact, Unacknowledged, Completable,
                 Holds, RowsOf
  <2>3. FreshOwned' /\ ParkedLive' /\ FlushedLive' /\ FlushHasRows' /\ ReadyFor'
    BY <1>12 DEF vars, readerVars, IInv, FreshOwned, ParkedLive, FlushedLive, FlushHasRows,
                 ReadyFor, Flushing, Resuming
  <2>4. WrittenOwn' /\ Creating'
    BY <1>12 DEF vars, rowVars, IInv, WrittenOwn, Creating, RowsOf
  <2> QED BY <2>1, <2>2, <2>3, <2>4 DEF IInv
<1> QED BY <1>1, <1>2, <1>3, <1>4, <1>5, <1>6, <1>7, <1>8, <1>9, <1>10, <1>11, <1>12
          DEF Next, ReaderStep

-------------------------------------------------------------------------------
\* All of the above holds in every reachable state.
LEMMA Inductive == Spec => []IInv
BY InitIInv, StepIInv, PTL DEF Spec

\* Every variable of the deferred creates keeps its type.
THEOREM DeferredTypeCorrect == Spec => []TypeOK
<1>1. IInv => TypeOK BY DEF IInv
<1> QED BY <1>1, Inductive, PTL

\* flush_pending and the immediate create write the rows of a create in their
\* order and each one once, for any number of connections, sessions, failures
\* and retries.
THEOREM RowOrderSafety == Spec => []RowsInOrderOnce
<1>1. IInv => RowsInOrderOnce BY DEF IInv
<1> QED BY <1>1, Inductive, PTL

\* The record that materialize_session takes, flush_pending consumes and a
\* failure puts back lists what storage lacks, and has a single holder.
THEOREM RecordSafety == Spec => []RecordExact
<1>1. IInv => RecordExact BY DEF IInv
<1> QED BY <1>1, Inductive, PTL

\* No failure, retry or concurrent reader loses the rows of a live session whose
\* connection is open: they are written, parked or in some reader's hands.
THEOREM CompletionSafety == Spec => []Completable
<1>1. IInv => Completable BY DEF IInv
<1> QED BY <1>1, Inductive, PTL
==============================================================================

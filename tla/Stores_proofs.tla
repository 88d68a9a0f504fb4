---------------------------- MODULE Stores_proofs ----------------------------
(***************************************************************************)
(* Proofs about what the server keeps, for any number of clients, rows,    *)
(* documents, readers, connectors and requests: the rows of the adapters   *)
(* (Storage), what a search is shown (Knowledge) and what the connectors'  *)
(* cursors pass (Ingestion).                                               *)
(***************************************************************************)
EXTENDS Storage, Knowledge, Ingestion, FiniteSetTheorems, SequenceTheorems,
        WellFoundedInduction, TLAPS

-----------------------------------------------------------------------------
(* The greatest of a bounded set of times.                                 *)

\* A set of naturals has a least element.
LEMMA LeastIn ==
  ASSUME NEW I, I \subseteq Nat, I # {}
  PROVE  \E x \in I : \A y \in I : x <= y
<1>1. PICK x \in I : \A y \in I : ~(<<y, x>> \in OpToRel(<, Nat))
  BY WFMin, NatLessThanWellFounded
<1>2. ASSUME NEW y \in I PROVE x <= y
  <2>1. x \in Nat /\ y \in Nat /\ <<y, x>> \in Nat \X Nat
    OBVIOUS
  <2>2. ~(<<y, x>>[1] < <<y, x>>[2])
    BY <1>1, <2>1 DEF OpToRel
  <2> QED BY <2>1, <2>2
<1> QED BY <1>2

\* Highest finds the greatest of a bounded set of times.
LEMMA HighestIn ==
  ASSUME NEW n \in Nat, NEW I, I \subseteq 0 .. n, I # {}
  PROVE  Highest(I) \in I /\ \A y \in I : y <= Highest(I)
<1> DEFINE J == {j \in 0 .. n : n - j \in I}
<1>1. J \subseteq Nat /\ J # {}
  <2>1. PICK i \in I : TRUE
    OBVIOUS
  <2>2. i \in 0 .. n /\ n - i \in 0 .. n /\ n - (n - i) = i
    BY <2>1
  <2>3. n - i \in J
    BY <2>1, <2>2
  <2> QED BY <2>3
<1>2. PICK x \in J : \A y \in J : x <= y
  <2> HIDE DEF J
  <2> QED BY <1>1, LeastIn
<1>3. n - x \in I
  BY <1>2
<1>4. ASSUME NEW i \in I PROVE i <= n - x
  <2>1. i \in 0 .. n /\ n - i \in 0 .. n /\ n - (n - i) = i
    OBVIOUS
  <2>2. n - i \in J
    BY <2>1
  <2>3. x <= n - i /\ x \in 0 .. n
    BY <1>2, <2>2
  <2> QED BY <2>1, <2>3
<1> QED BY <1>3, <1>4 DEF Highest


-----------------------------------------------------------------------------
(* Storage: the rows.                                                      *)

\* A client's call is one of the backend's: an update of a row that exists, or a
\* row to be put with the key of its conversation.
Fits(o) ==
  /\ \/ backend = "postgres" /\ o.kind \in {"apply", "land"}
     \/ backend = "dynamodb" /\ o.kind \in {"item", "put", "sync", "land"}
  /\ o.kind = "apply" => Exists(o.id)
  /\ o.kind = "item" => o.row.key = o.key
  /\ o.kind \in {"put", "sync"} /\ o.id # Sess => o.row.key \in Key
CallsFit == \A k \in Client : op[k] # None => Fits(op[k])
Keyed == \A c \in Conv : Exists(c) => row[c].key \in Key

\* In memory and in Postgres a key has one row, which is what its creates return,
\* and an answered update is in its row.
Told(u) == Exists(u[1]) /\ row[u[1]][u[2]] = 1
OneRow ==
  /\ \A c \in Conv : Exists(c) => asked[c] = row[c].key
  /\ \A c, d \in Conv : Exists(c) /\ Exists(d) /\ row[c].key = row[d].key => c = d
  /\ \A x \in Key : answered[x] \subseteq Holder(x)
  /\ \A u \in acked : Told(u)

\* Over DynamoDB the claim of a key names its conversation, and whoever writes a
\* row of the key has it from the claim.
Claims(c, x) == claim[x] # None /\ claim[x].id = c
OneClaim ==
  /\ \A c \in Conv : Exists(c) => Claims(c, row[c].key)
  /\ \A x \in Key : \A c \in answered[x] : Claims(c, x)
  /\ \A k \in Client : op[k] # None /\ op[k].kind \in {"item", "put", "sync"} /\ op[k].id # Sess =>
       Claims(op[k].id, op[k].row.key)

\* The inductive invariant behind RowsAsTold.
RowsInv == /\ TypeOK /\ CallsFit /\ Keyed
           /\ backend # "dynamodb" => OneRow
           /\ backend = "dynamodb" => OneClaim

\* An update sets its field and leaves the key and the other field.
LEMMA PatchedRow ==
  ASSUME NEW r \in Row, NEW f \in Field, NEW t \in 0 .. MaxTime
  PROVE  /\ Patched(r, f, t) \in Row /\ Patched(r, f, t).key = r.key
         /\ Patched(r, f, t)[f] = 1
         /\ \A g \in Field : r[g] = 1 => Patched(r, f, t)[g] = 1
<1>1. CASE f = "name"
  BY <1>1 DEF Patched, Row, Field
<1>2. CASE f = "meta"
  BY <1>2 DEF Patched, Row, Field
<1> QED BY <1>1, <1>2 DEF Field

\* A row just created.
LEMMA NewRowTyped ==
  ASSUME TypeOK, NEW x \in Key \cup {None}
  PROVE  NewRow(x) \in Row /\ NewRow(x).key = x /\ NewRow(x) # None
BY NoneAssumption DEF NewRow, Row, TypeOK

\* Nothing is stored yet.
LEMMA RowsBegin == Init => RowsInv
<1> SUFFICES ASSUME Init PROVE RowsInv
  OBVIOUS
<1>1. TypeOK
  BY StorageAssumption DEF Init, TypeOK, OrNone
<1>2. CallsFit /\ Keyed /\ OneRow /\ OneClaim
  BY DEF Init, CallsFit, Keyed, OneRow, OneClaim, Exists, RowId, Holder
<1> QED BY <1>1, <1>2 DEF RowsInv

\* Every step keeps the types.
LEMMA RowTypes ==
  ASSUME TypeOK, CallsFit, Keyed, Next
  PROVE  TypeOK'
<1> USE StorageAssumption
<1>0. /\ \A k \in Client : op[k] # None => op[k] \in Call
      /\ \A id \in RowId : Exists(id) => row[id] \in Row
      /\ Conv \subseteq RowId /\ Sess \in RowId
  BY DEF TypeOK, OrNone, Exists, RowId
<1>1. ASSUME NEW k \in Client, NEW call \in Call, Begin(k, call)
      PROVE  op' \in [Client -> OrNone(Call)]
  BY <1>1 DEF Begin, TypeOK, OrNone
<1>2. ASSUME NEW k \in Client, Done(k)
      PROVE  op' \in [Client -> OrNone(Call)]
  BY <1>2 DEF Done, TypeOK, OrNone
<1>3. CASE Tick
  BY <1>3 DEF Tick, TypeOK
<1>4. ASSUME NEW id \in Conv, NEW key \in Key, CreateLocked(id, key) \/ CreateRow(id, key)
      PROVE  TypeOK'
  <2>1. NewRow(key) \in Row
    BY NewRowTyped
  <2>2. asked' \in [Conv -> Key \cup {None}]
    BY <1>4 DEF CreateLocked, CreateRow, Sends, TypeOK
  <2>3. row' \in [RowId -> Row \cup {None}]
    BY <1>0, <1>4, <2>1 DEF CreateLocked, CreateRow, StoreOnce, TypeOK
  <2>4. answered' \in [Key -> SUBSET Conv]
    BY <1>4 DEF CreateLocked, CreateRow, Returns, Holder, TypeOK
  <2> QED BY <1>4, <2>2, <2>3, <2>4 DEF CreateLocked, CreateRow, TypeOK
<1>5. ASSUME NewSession PROVE TypeOK'
  <2>1. row' \in [RowId -> Row \cup {None}]
    BY <1>0, <1>5, NewRowTyped DEF NewSession, TypeOK
  <2> QED BY <1>5, <2>1 DEF NewSession, TypeOK
<1>6. ASSUME NEW id \in RowId, NEW f \in Field, UpdateInPlace(id, f) PROVE TypeOK'
  <2>1. Patched(row[id], f, now) \in Row
    BY <1>0, <1>6, PatchedRow DEF UpdateInPlace, TypeOK
  <2>2. row' \in [RowId -> Row \cup {None}]
    BY <1>6, <2>1 DEF UpdateInPlace, TypeOK
  <2> QED BY <1>6, <2>2 DEF UpdateInPlace, TypeOK
<1>7. ASSUME NEW c \in Conv, NewOwner(c) PROVE TypeOK'
  BY <1>7 DEF NewOwner, TypeOK
<1>8. ASSUME NEW c \in Conv, AppendLocked(c) PROVE TypeOK'
  <2>1. seq + 1 \in Msg /\ seq + 1 \in 0 .. MaxMsg
    BY <1>8 DEF AppendLocked, TypeOK, Msg
  <2>2. log' \in [Conv -> SUBSET Msg]
    BY <1>8, <2>1 DEF AppendLocked, TypeOK
  <2> QED BY <1>8, <2>1, <2>2 DEF AppendLocked, TypeOK
<1>9. CASE Reads
  <2>1. UNCHANGED <<backend, now, row, claim, asked, owned, log, seq, op, answered, acked>>
    BY <1>9 DEF Reads, StartHistory, StartSidebar, HistoryPage, ListRows, SidebarPage
  <2> QED BY <2>1 DEF TypeOK
<1>10. ASSUME NEW k \in Client, PutItem(k) PROVE TypeOK'
  <2>1. op[k].id \in Conv /\ op[k].key \in Key /\ op[k].row \in Row
    BY <1>0, <1>10 DEF PutItem, Goes, Call
  <2>2. row' \in [RowId -> Row \cup {None}]
    BY <1>0, <1>10, <2>1 DEF PutItem, TypeOK
  <2>3. answered' \in [Key -> SUBSET Conv]
    BY <1>10, <2>1 DEF PutItem, Returns, TypeOK
  <2> QED BY <1>2, <1>10, <2>2, <2>3 DEF PutItem, TypeOK
<1>11. ASSUME NEW k \in Client, ApplyUpdate(k) PROVE TypeOK'
  <2>1. op[k].id \in RowId /\ op[k].field \in Field /\ op[k].at \in 0 .. MaxTime
    BY <1>0, <1>11 DEF ApplyUpdate, Goes, Call
  <2>2. Exists(op[k].id)
    BY <1>11 DEF ApplyUpdate, Goes, CallsFit, Fits
  <2>3. Patched(row[op[k].id], op[k].field, op[k].at) \in Row
    BY <1>0, <2>1, <2>2, PatchedRow
  <2>4. row' \in [RowId -> Row \cup {None}]
    BY <1>11, <2>1, <2>3 DEF ApplyUpdate, TypeOK
  <2>5. acked' \subseteq RowId \X Field
    BY <1>11, <2>1 DEF ApplyUpdate, TypeOK
  <2> QED BY <1>2, <1>11, <2>4, <2>5 DEF ApplyUpdate, TypeOK
<1>12. ASSUME NEW k \in Client, PutRow(k) PROVE TypeOK'
  <2>1. op[k].id \in RowId /\ op[k].field \in Field /\ op[k].row \in Row /\ op[k] \in Call
    BY <1>0, <1>12 DEF PutRow, Goes, Call
  <2>2. row' \in [RowId -> Row \cup {None}]
    BY <1>12, <2>1 DEF PutRow, TypeOK
  <2>3. acked' \subseteq RowId \X Field
    BY <1>0, <1>12, <2>1 DEF PutRow, TypeOK
  <2>4. op' \in [Client -> OrNone(Call)]
    <3>1. CASE op[k].id # Sess /\ op' = [op EXCEPT ![k].kind = "sync"]
      <4>1. op[k].id \in Conv
        BY <2>1, <3>1 DEF RowId
      <4>2. op[k].kind = "put"
        BY <1>12 DEF PutRow, Goes
      <4>3. op[k] \in [kind : {"put"}, id : RowId, field : Field, row : Row]
        BY <2>1, <4>2 DEF Call
      <4>4. [op[k] EXCEPT !.kind = "sync"] \in [kind : {"sync"}, id : Conv, field : Field, row : Row]
        BY <4>1, <4>3
      <4>5. [op[k] EXCEPT !.kind = "sync"] \in Call
        BY <4>4 DEF Call
      <4> QED BY <3>1, <4>5 DEF TypeOK, OrNone
    <3>2. CASE Done(k)
      BY <1>2, <3>2
    <3> QED BY <1>12, <3>1, <3>2 DEF PutRow
  <2> QED BY <1>12, <2>2, <2>3, <2>4 DEF PutRow, TypeOK
<1>13. ASSUME NEW k \in Client, SyncClaim(k) PROVE TypeOK'
  <2>1. op[k].id \in Conv /\ op[k].field \in Field /\ op[k].row \in Row
    BY <1>0, <1>13 DEF SyncClaim, Goes, Call
  <2>2. [id |-> op[k].id, row |-> op[k].row] \in Body
    BY <2>1 DEF Body
  <2>3. claim' \in [Key -> Body \cup {None}]
    BY <1>13, <2>2 DEF SyncClaim, TypeOK
  <2>4. acked' \subseteq RowId \X Field
    BY <1>0, <1>13, <2>1 DEF SyncClaim, TypeOK
  <2> QED BY <1>2, <1>13, <2>3, <2>4 DEF SyncClaim, TypeOK
<1>14. ASSUME NEW k \in Client, Lands(k) PROVE TypeOK'
  <2>1. op[k].id \in Conv /\ op[k].seq \in Msg
    BY <1>0, <1>14 DEF Lands, Goes, Call
  <2>2. log' \in [Conv -> SUBSET Msg]
    BY <1>14, <2>1 DEF Lands, TypeOK
  <2> QED BY <1>2, <1>14, <2>2 DEF Lands, TypeOK
<1>15. ASSUME NEW k \in Client, NEW id \in Conv, NEW key \in Key, ClaimKey(k, id, key)
       PROVE  TypeOK'
  <2>1. asked' \in [Conv -> Key \cup {None}]
    BY <1>15 DEF ClaimKey, Sends, TypeOK
  <2>2. CASE claim[key] = None
    <3>1. NewRow(key) \in Row
      BY NewRowTyped
    <3>2. [kind |-> "item", id |-> id, key |-> key, row |-> NewRow(key)] \in Call
      BY <3>1 DEF Call
    <3>3. [id |-> id, row |-> NewRow(key)] \in Body
      BY <1>0, <3>1 DEF Body
    <3>4. op' \in [Client -> OrNone(Call)]
      BY <1>1, <1>15, <2>2, <3>2 DEF ClaimKey
    <3>5. claim' \in [Key -> Body \cup {None}]
      BY <1>15, <2>2, <3>3 DEF ClaimKey, TypeOK
    <3> QED BY <1>15, <2>1, <2>2, <3>4, <3>5 DEF ClaimKey, TypeOK
  <2>3. CASE claim[key] # None
    <3>1. UNCHANGED <<backend, now, row, owned, log, seq, acked, claim, op>>
      BY <1>15, <2>3 DEF ClaimKey
    <3>2. claim[key].id \in Conv /\ Returns(key, {claim[key].id})
      BY <1>15, <2>3 DEF ClaimKey, TypeOK, Body
    <3> QED BY <2>1, <3>1, <3>2 DEF Returns, TypeOK
  <2> QED BY <2>2, <2>3
<1>16. ASSUME NEW k \in Client, NEW id \in RowId, NEW f \in Field,
              Stamp(k, id, f) \/ ReadRow(k, id, f)
       PROVE  TypeOK'
  <2>1. CASE Stamp(k, id, f)
    <3>1. [kind |-> "apply", id |-> id, field |-> f, at |-> now] \in Call
      BY DEF Call, TypeOK
    <3> QED BY <1>1, <2>1, <3>1 DEF Stamp, TypeOK
  <2>2. CASE ReadRow(k, id, f)
    <3>1. Patched(row[id], f, now) \in Row
      BY <1>0, <2>2, PatchedRow DEF ReadRow, TypeOK
    <3>2. [kind |-> "put", id |-> id, field |-> f, row |-> Patched(row[id], f, now)] \in Call
      BY <3>1 DEF Call
    <3> QED BY <1>1, <2>2, <3>2 DEF ReadRow, TypeOK
  <2> QED BY <1>16, <2>1, <2>2
<1>17. ASSUME NEW k \in Client, NEW c \in Conv, next_message_seq(k, c) PROVE TypeOK'
  <2>1. seq + 1 \in Msg /\ seq + 1 \in 0 .. MaxMsg
    BY <1>17 DEF next_message_seq, TypeOK, Msg
  <2>2. [kind |-> "land", id |-> c, seq |-> seq + 1] \in Call
    BY <2>1 DEF Call
  <2>3. op' \in [Client -> OrNone(Call)]
    BY <1>1, <1>17, <2>2 DEF next_message_seq
  <2> QED BY <1>17, <2>1, <2>3 DEF next_message_seq, TypeOK
<1>18. CASE Locked
  BY <1>0, <1>4, <1>5, <1>6, <1>7, <1>8, <1>18
     DEF Locked, CreateSession, InsertSession, PutSession, UpdateSession, UpdateConversation,
         AddOwner, InsertOwner, PutOwner
<1>19. ASSUME NEW k \in Client, Step(k) PROVE TypeOK'
  BY <1>10, <1>11, <1>12, <1>13, <1>14, <1>15, <1>16, <1>17, <1>19
     DEF Step, CommitMessage, PutMessage
<1> QED BY <1>3, <1>9, <1>18, <1>19 DEF Next

\* A row that exists goes on existing.
LEMMA RowsGrow ==
  ASSUME TypeOK, CallsFit, Next, NEW id \in RowId, Exists(id)
  PROVE  Exists(id)'
<1>1. TypeOK /\ Next => row'[id] = row[id] \/ row'[id] \in Row
  <2> SUFFICES ASSUME row'[id] # row[id] PROVE row'[id] \in Row
    OBVIOUS
  <2>0. /\ \A k \in Client : op[k] # None => op[k] \in Call /\ Fits(op[k])
        /\ \A i \in RowId : Exists(i) => row[i] \in Row
        /\ Conv \subseteq RowId /\ Sess \in RowId
        /\ now \in 0 .. MaxTime /\ row \in [RowId -> Row \cup {None}]
    BY DEF TypeOK, OrNone, Exists, RowId, CallsFit
  <2>1. ASSUME NEW i \in RowId, NEW r \in Row, row' = [row EXCEPT ![i] = r]
        PROVE  row'[id] \in Row
    BY <2>0, <2>1
  <2>2. ASSUME NEW c \in Conv, NEW key \in Key, CreateLocked(c, key) \/ CreateRow(c, key)
        PROVE  row'[id] \in Row
    BY <2>0, <2>1, <2>2, NewRowTyped DEF CreateLocked, CreateRow, StoreOnce
  <2>3. ASSUME NewSession PROVE row'[id] \in Row
    BY <2>0, <2>1, <2>3, NewRowTyped DEF NewSession
  <2>4. ASSUME NEW i \in RowId, NEW f \in Field, UpdateInPlace(i, f) PROVE row'[id] \in Row
    BY <2>0, <2>1, <2>4, PatchedRow DEF UpdateInPlace
  <2>5. ASSUME NEW k \in Client, PutItem(k) PROVE row'[id] \in Row
    <3>1. op[k].id \in RowId /\ op[k].row \in Row
      BY <2>0, <2>5 DEF PutItem, Goes, Call
    <3> QED BY <2>1, <2>5, <3>1 DEF PutItem
  <2>6. ASSUME NEW k \in Client, ApplyUpdate(k) PROVE row'[id] \in Row
    <3>1. op[k].id \in RowId /\ op[k].field \in Field /\ op[k].at \in 0 .. MaxTime /\ Exists(op[k].id)
      BY <2>0, <2>6 DEF ApplyUpdate, Goes, Call, Fits
    <3>2. Patched(row[op[k].id], op[k].field, op[k].at) \in Row
      BY <2>0, <3>1, PatchedRow
    <3> QED BY <2>1, <2>6, <3>1, <3>2 DEF ApplyUpdate
  <2>7. ASSUME NEW k \in Client, PutRow(k) PROVE row'[id] \in Row
    <3>1. op[k].id \in RowId /\ op[k].row \in Row
      BY <2>0, <2>7 DEF PutRow, Goes, Call
    <3> QED BY <2>1, <2>7, <3>1 DEF PutRow
  <2>8. CASE Locked
    BY <2>0, <2>2, <2>3, <2>4, <2>8
       DEF Locked, CreateSession, InsertSession, PutSession, UpdateSession, UpdateConversation,
           AddOwner, InsertOwner, PutOwner, NewOwner, AppendLocked
  <2>9. ASSUME NEW k \in Client, Step(k) PROVE row'[id] \in Row
    BY <2>5, <2>6, <2>7, <2>9
       DEF Step, SyncClaim, CommitMessage, PutMessage, Lands, ClaimKey, Stamp, ReadRow,
           next_message_seq
  <2>10. ~Tick /\ ~Reads
    BY DEF Tick, Reads, StartHistory, StartSidebar, HistoryPage, ListRows, SidebarPage
  <2> QED BY <2>8, <2>9, <2>10 DEF Next
<1> QED BY <1>1, NoneAssumption DEF Exists

\* Every step keeps the calls the backend's.
LEMMA CallsStep ==
  ASSUME TypeOK, CallsFit, Keyed, Next
  PROVE  CallsFit'
<1>0. /\ \A k \in Client : op[k] # None => op[k] \in Call /\ Fits(op[k])
      /\ \A id \in RowId : Exists(id) => row[id] \in Row
      /\ Conv \subseteq RowId /\ Sess \in RowId /\ backend' = backend
      /\ op \in [Client -> OrNone(Call)] /\ now \in 0 .. MaxTime
  <2>1. backend' = backend
    BY DEF Next, Tick, Locked, Reads, Step, CreateLocked, CreateRow, CreateSession, InsertSession,
           PutSession, NewSession, UpdateSession, UpdateConversation, UpdateInPlace, AddOwner,
           InsertOwner, PutOwner, NewOwner, AppendLocked, StartHistory, StartSidebar, HistoryPage,
           ListRows, SidebarPage, PutItem, ApplyUpdate, PutRow, SyncClaim, CommitMessage,
           PutMessage, Lands, ClaimKey, Stamp, ReadRow, next_message_seq
  <2> QED BY <2>1 DEF TypeOK, OrNone, Exists, RowId, CallsFit
<1>1. ASSUME NEW o, Fits(o), o \in Call PROVE Fits(o)'
  <2>1. o.id \in RowId
    BY <1>0, <1>1 DEF Call
  <2>2. Exists(o.id) => Exists(o.id)'
    BY <2>1, RowsGrow
  <2> QED BY <1>0, <1>1, <2>2 DEF Fits
<1>2. ASSUME \A k \in Client : op'[k] # None => op'[k] = op[k] \/ (op'[k] \in Call /\ Fits(op'[k]))
      PROVE  CallsFit'
  <2>1. ASSUME NEW k \in Client, op'[k] # None, NEW o, o = op'[k] PROVE o \in Call /\ Fits(o)
    BY <1>0, <1>2, <2>1
  <2>2. ASSUME NEW k \in Client, op'[k] # None, NEW o, o = op'[k] PROVE Fits(o)'
    BY <1>1, <2>1, <2>2
  <2>3. ASSUME NEW k \in Client, op'[k] # None PROVE Fits(op[k])'
    BY <2>2, <2>3 DEF Fits
  <2> QED BY <2>3 DEF CallsFit
<1>3. ASSUME NEW k \in Client, NEW call \in Call, Begin(k, call), Fits(call) PROVE CallsFit'
  BY <1>0, <1>2, <1>3 DEF Begin
<1>4. ASSUME NEW k \in Client, Done(k) PROVE CallsFit'
  BY <1>0, <1>2, <1>4 DEF Done
<1>5. ASSUME op' = op PROVE CallsFit'
  BY <1>2, <1>5
<1>6. ASSUME NEW k \in Client, PutRow(k) PROVE CallsFit'
  <2>1. CASE op[k].id # Sess /\ op' = [op EXCEPT ![k].kind = "sync"]
    <3>1. op[k] # None /\ op[k].kind = "put" /\ op[k] \in Call /\ Fits(op[k])
      BY <1>0, <1>6 DEF PutRow, Goes
    <3>2. op[k] \in [kind : {"put"}, id : RowId, field : Field, row : Row]
      BY <3>1 DEF Call
    <3>3. [op[k] EXCEPT !.kind = "sync"] \in [kind : {"sync"}, id : Conv, field : Field, row : Row]
      BY <2>1, <3>2 DEF RowId
    <3>4. [op[k] EXCEPT !.kind = "sync"] \in Call
      BY <3>3 DEF Call
    <3>5. /\ [op[k] EXCEPT !.kind = "sync"].kind = "sync"
          /\ [op[k] EXCEPT !.kind = "sync"].row = op[k].row
      BY <3>2
    <3>6. Fits([op[k] EXCEPT !.kind = "sync"])
      BY <2>1, <3>1, <3>5 DEF Fits
    <3> QED BY <1>0, <1>2, <2>1, <3>4, <3>6
  <2>2. CASE Done(k)
    BY <1>4, <2>2
  <2> QED BY <1>6, <2>1, <2>2 DEF PutRow
<1>7. ASSUME NEW k \in Client, NEW id \in Conv, NEW key \in Key, ClaimKey(k, id, key)
      PROVE  CallsFit'
  <2>1. CASE claim[key] = None
    <3> DEFINE o == [kind |-> "item", id |-> id, key |-> key, row |-> NewRow(key)]
    <3>1. o \in Call /\ o.row.key = o.key
      BY NewRowTyped DEF Call
    <3>2. Fits(o)
      BY <1>7, <3>1 DEF Fits, ClaimKey
    <3>3. Begin(k, o)
      BY <1>7, <2>1 DEF ClaimKey
    <3> HIDE DEF o
    <3> QED BY <1>3, <3>1, <3>2, <3>3
  <2>2. CASE claim[key] # None
    BY <1>5, <1>7, <2>2 DEF ClaimKey
  <2> QED BY <2>1, <2>2
<1>8. ASSUME NEW k \in Client, NEW id \in RowId, NEW f \in Field, Stamp(k, id, f)
      PROVE  CallsFit'
  <2> DEFINE o == [kind |-> "apply", id |-> id, field |-> f, at |-> now]
  <2>1. o \in Call
    BY <1>0 DEF Call
  <2>2. Fits(o)
    BY <1>8 DEF Fits, Stamp
  <2>3. Begin(k, o)
    BY <1>8 DEF Stamp
  <2> HIDE DEF o
  <2> QED BY <1>3, <2>1, <2>2, <2>3
<1>9. ASSUME NEW k \in Client, NEW id \in RowId, NEW f \in Field, ReadRow(k, id, f)
      PROVE  CallsFit'
  <2> DEFINE o == [kind |-> "put", id |-> id, field |-> f, row |-> Patched(row[id], f, now)]
  <2>1. row[id] \in Row /\ (id # Sess => id \in Conv)
    BY <1>0, <1>9 DEF ReadRow, RowId
  <2>2. Patched(row[id], f, now) \in Row /\ Patched(row[id], f, now).key = row[id].key
    BY <1>0, <2>1, PatchedRow
  <2>3. o \in Call
    BY <2>2 DEF Call
  <2>4. id # Sess => o.row.key \in Key
    BY <1>9, <2>1, <2>2 DEF ReadRow, Keyed
  <2>5. Fits(o)
    BY <1>9, <2>4 DEF Fits, ReadRow
  <2>6. Begin(k, o)
    BY <1>9 DEF ReadRow
  <2> HIDE DEF o
  <2> QED BY <1>3, <2>3, <2>5, <2>6
<1>10. ASSUME NEW k \in Client, NEW c \in Conv, next_message_seq(k, c) PROVE CallsFit'
  <2> DEFINE o == [kind |-> "land", id |-> c, seq |-> seq + 1]
  <2>1. o \in Call
    BY <1>10, StorageAssumption DEF Call, next_message_seq, TypeOK, Msg
  <2>2. Fits(o)
    BY <1>10 DEF Fits, next_message_seq, Network
  <2>3. Begin(k, o)
    BY <1>10 DEF next_message_seq
  <2> HIDE DEF o
  <2> QED BY <1>3, <2>1, <2>2, <2>3
<1>11. CASE Tick \/ Locked \/ Reads
  BY <1>5, <1>11 DEF Tick, Locked, Reads, CreateLocked, CreateRow, CreateSession, InsertSession,
         PutSession, NewSession, UpdateSession, UpdateConversation, UpdateInPlace, AddOwner,
         InsertOwner, PutOwner, NewOwner, AppendLocked, StartHistory, StartSidebar, HistoryPage,
         ListRows, SidebarPage
<1>12. ASSUME NEW k \in Client, Step(k) PROVE CallsFit'
  BY <1>4, <1>6, <1>7, <1>8, <1>9, <1>10, <1>12
     DEF Step, PutItem, ApplyUpdate, SyncClaim, CommitMessage, PutMessage, Lands
<1> QED BY <1>11, <1>12 DEF Next

\* Every step keeps the conversations' rows keyed.
LEMMA KeyedStep ==
  ASSUME TypeOK, CallsFit, Keyed, Next
  PROVE  Keyed'
<1> SUFFICES ASSUME NEW c \in Conv, row'[c] # row[c], row'[c] # None PROVE row'[c].key \in Key
  BY DEF Keyed, Exists
<1>0. /\ \A k \in Client : op[k] # None => op[k] \in Call /\ Fits(op[k])
      /\ \A id \in RowId : Exists(id) => row[id] \in Row
      /\ Conv \subseteq RowId /\ Sess \in RowId /\ Sess \notin Conv
      /\ now \in 0 .. MaxTime /\ row \in [RowId -> Row \cup {None}]
  BY DEF TypeOK, OrNone, Exists, RowId, CallsFit, Conv, Sess
<1>1. ASSUME NEW i \in RowId, NEW r, i = c => r.key \in Key, row' = [row EXCEPT ![i] = r]
      PROVE  row'[c].key \in Key
  BY <1>0, <1>1
<1>2. ASSUME NEW d \in Conv, NEW key \in Key, CreateLocked(d, key) \/ CreateRow(d, key)
      PROVE  row'[c].key \in Key
  BY <1>0, <1>1, <1>2, NewRowTyped DEF CreateLocked, CreateRow, StoreOnce
<1>3. ~NewSession
  BY <1>0 DEF NewSession
<1>4. ASSUME NEW i \in RowId, NEW f \in Field, UpdateInPlace(i, f) PROVE row'[c].key \in Key
  BY <1>0, <1>1, <1>4, PatchedRow DEF UpdateInPlace, Keyed
<1>5. ASSUME NEW k \in Client, PutItem(k) PROVE row'[c].key \in Key
  <2>1. op[k].id \in RowId /\ op[k].row.key \in Key
    BY <1>0, <1>5 DEF PutItem, Goes, Call, Fits
  <2> QED BY <1>1, <1>5, <2>1 DEF PutItem
<1>6. ASSUME NEW k \in Client, ApplyUpdate(k) PROVE row'[c].key \in Key
  <2>1. op[k].id \in RowId /\ op[k].field \in Field /\ op[k].at \in 0 .. MaxTime /\ Exists(op[k].id)
    BY <1>0, <1>6 DEF ApplyUpdate, Goes, Call, Fits
  <2>2. Patched(row[op[k].id], op[k].field, op[k].at).key = row[op[k].id].key
    BY <1>0, <2>1, PatchedRow
  <2> QED BY <1>1, <1>6, <2>1, <2>2 DEF ApplyUpdate, Keyed
<1>7. ASSUME NEW k \in Client, PutRow(k) PROVE row'[c].key \in Key
  <2>1. op[k].id \in RowId /\ (op[k].id = c => op[k].row.key \in Key)
    BY <1>0, <1>7 DEF PutRow, Goes, Call, Fits
  <2> QED BY <1>1, <1>7, <2>1 DEF PutRow
<1>8. CASE Locked
  BY <1>0, <1>2, <1>3, <1>4, <1>8
     DEF Locked, CreateSession, InsertSession, PutSession, UpdateSession, UpdateConversation,
         AddOwner, InsertOwner, PutOwner, NewOwner, AppendLocked
<1>9. ASSUME NEW k \in Client, Step(k) PROVE row'[c].key \in Key
  BY <1>5, <1>6, <1>7, <1>9
     DEF Step, SyncClaim, CommitMessage, PutMessage, Lands, ClaimKey, Stamp, ReadRow,
         next_message_seq
<1>10. ~Tick /\ ~Reads
  BY DEF Tick, Reads, StartHistory, StartSidebar, HistoryPage, ListRows, SidebarPage
<1> QED BY <1>8, <1>9, <1>10 DEF Next

\* In memory and in Postgres every step keeps one row for a key and what was told.
LEMMA OneRowStep ==
  ASSUME TypeOK, CallsFit, Keyed, OneRow, backend # "dynamodb", Next
  PROVE  OneRow'
<1>0. /\ \A k \in Client : op[k] # None => op[k] \in Call /\ Fits(op[k])
      /\ \A id \in RowId : Exists(id) => row[id] \in Row
      /\ Conv \subseteq RowId /\ Sess \in RowId /\ Sess \notin Conv
      /\ now \in 0 .. MaxTime /\ row \in [RowId -> Row \cup {None}]
      /\ acked \subseteq RowId \X Field
  BY DEF TypeOK, OrNone, Exists, RowId, CallsFit, Conv, Sess
<1>1. ASSUME \A c \in Conv : /\ Exists(c)' <=> Exists(c)
                             /\ Exists(c) => row'[c].key = row[c].key,
             asked' = asked, answered' = answered, \A u \in acked' : Told(u)'
      PROVE  OneRow'
  <2>1. \A x \in Key : Holder(x)' = Holder(x)
    BY <1>1 DEF Holder
  <2> QED BY <1>1, <2>1 DEF OneRow
<1>2. ASSUME row' = row, asked' = asked, answered' = answered, acked' = acked PROVE OneRow'
  <2>1. \A c \in RowId : Exists(c)' <=> Exists(c)
    BY <1>2 DEF Exists
  <2>2. \A u \in acked : Told(u)'
    BY <1>2 DEF OneRow, Told, Exists
  <2> QED BY <1>0, <1>1, <1>2, <2>1, <2>2
<1>3. ASSUME NEW id \in Conv, NEW key \in Key, CreateLocked(id, key) \/ CreateRow(id, key)
      PROVE  OneRow'
  <2>1. acked' = acked /\ Sends(id, key)
    BY <1>3 DEF CreateLocked, CreateRow
  <2>2. asked' = [asked EXCEPT ![id] = key] /\ asked[id] \in {None, key} /\ asked \in [Conv -> Key \cup {None}]
    BY <2>1 DEF Sends, TypeOK
  <2>3. Exists(id) => row[id].key = key
    BY <2>2, NoneAssumption DEF OneRow, Keyed
  <2>4. answered \in [Key -> SUBSET Conv]
    BY DEF TypeOK
  <2>5. CASE row' = row
    <3>1. \A c \in RowId : Exists(c)' <=> Exists(c)
      BY <2>5 DEF Exists
    <3>2. \A x \in Key : Holder(x)' = Holder(x)
      BY <2>5, <3>1, <1>0 DEF Holder
    <3>3. \A x \in Key : answered'[x] \subseteq answered[x] \cup Holder(x)
      <4>1. \/ answered' = answered
            \/ Returns(key, IF Holder(key) # {} THEN Holder(key) ELSE {id})
        BY <1>3 DEF CreateLocked, CreateRow
      <4>2. ASSUME Holder(key) = {}, StoreOnce(id, key) PROVE FALSE
        <5>1. NewRow(key) # None /\ row'[id] = NewRow(key)
          BY <1>0, <4>2, NewRowTyped DEF StoreOnce
        <5>2. Exists(id)
          BY <2>5, <5>1 DEF Exists
        <5> QED BY <2>3, <4>2, <5>2 DEF Holder
      <4>3. answered' = answered \/ Holder(key) # {}
        BY <1>3, <4>2 DEF CreateLocked, CreateRow
      <4> QED BY <2>4, <4>1, <4>3 DEF Returns
    <3>4. \A c \in Conv : Exists(c) => asked'[c] = row[c].key
      BY <2>2, <2>3 DEF OneRow
    <3>5. \A u \in acked : Told(u)'
      BY <2>5 DEF OneRow, Told, Exists
    <3> QED BY <1>0, <2>1, <2>5, <3>1, <3>2, <3>3, <3>4, <3>5 DEF OneRow
  <2>6. CASE row' # row
    <3>1. Holder(key) = {} /\ row' = [row EXCEPT ![id] = NewRow(key)]
      BY <1>3, <2>6 DEF CreateLocked, CreateRow, StoreOnce
    <3>2. ~Exists(id)
      BY <2>3, <3>1 DEF Holder
    <3>3. /\ Exists(id)' /\ row'[id].key = key
          /\ \A i \in RowId \ {id} : row'[i] = row[i] /\ (Exists(i)' <=> Exists(i))
      BY <1>0, <3>1, NewRowTyped DEF Exists
    <3>4. \A c \in Conv : Exists(c)' => asked'[c] = row'[c].key
      BY <1>0, <2>2, <3>3 DEF OneRow
    <3>5. \A c \in Conv : Exists(c) => row[c].key # key
      BY <3>1 DEF Holder
    <3>6. \A c, d \in Conv : Exists(c)' /\ Exists(d)' /\ row'[c].key = row'[d].key => c = d
      BY <1>0, <3>3, <3>5 DEF OneRow
    <3>7. \A x \in Key : Holder(x)' = IF x = key THEN {id} ELSE Holder(x)
      BY <1>0, <3>1, <3>2, <3>3 DEF Holder
    <3>8. \A x \in Key : answered'[x] \subseteq IF x = key THEN {id} ELSE answered[x]
      <4>1. answered' = answered \/ Returns(key, {id})
        BY <1>3, <3>1 DEF CreateLocked, CreateRow
      <4>2. answered[key] = {}
        BY <3>1 DEF OneRow
      <4> QED BY <2>4, <4>1, <4>2 DEF Returns
    <3>9. \A u \in acked : Told(u)'
      BY <1>0, <3>2, <3>3 DEF OneRow, Told
    <3> QED BY <2>1, <3>4, <3>6, <3>7, <3>8, <3>9 DEF OneRow
  <2> QED BY <2>5, <2>6
<1>4. ASSUME NewSession PROVE OneRow'
  <2>1. \A i \in RowId \ {Sess} : row'[i] = row[i] /\ (Exists(i)' <=> Exists(i))
    BY <1>0, <1>4 DEF NewSession, Exists
  <2>2. \A u \in acked : u[1] \in RowId \ {Sess}
    BY <1>0, <1>4 DEF NewSession
  <2>3. \A u \in acked : Told(u)'
    BY <2>1, <2>2 DEF OneRow, Told
  <2> QED BY <1>0, <1>1, <1>4, <2>1, <2>3 DEF NewSession
<1>5. ASSUME NEW id \in RowId, NEW f \in Field, NEW t \in 0 .. MaxTime, Exists(id),
             row' = [row EXCEPT ![id] = Patched(@, f, t)],
             asked' = asked, answered' = answered, acked' \subseteq acked \cup {<<id, f>>}
      PROVE  OneRow'
  <2>1. row[id] \in Row
    BY <1>0, <1>5
  <2>2. /\ row'[id] = Patched(row[id], f, t) /\ row'[id] \in Row /\ row'[id].key = row[id].key
        /\ row'[id][f] = 1 /\ \A g \in Field : row[id][g] = 1 => row'[id][g] = 1
    BY <1>0, <1>5, <2>1, PatchedRow
  <2>3. \A i \in RowId \ {id} : row'[i] = row[i] /\ (Exists(i)' <=> Exists(i))
    BY <1>0, <1>5 DEF Exists
  <2>4. Exists(id)'
    BY <2>2, NoneAssumption DEF Exists
  <2>5. ASSUME NEW u \in acked' PROVE Told(u)'
    <3>1. CASE u = <<id, f>>
      <4>1. u[1] = id /\ u[2] = f
        BY <3>1
      <4> QED BY <2>2, <2>4, <4>1 DEF Told
    <3>2. CASE u \in acked
      <4>1. u[1] \in RowId /\ u[2] \in Field /\ Told(u)
        BY <1>0, <3>2 DEF OneRow
      <4>2. CASE u[1] = id
        <5>1. row[id][u[2]] = 1
          BY <4>1, <4>2 DEF Told
        <5>2. row'[u[1]][u[2]] = 1
          BY <2>2, <4>1, <4>2, <5>1
        <5> QED BY <2>4, <4>2, <5>2 DEF Told
      <4>3. CASE u[1] # id
        BY <2>3, <4>1, <4>3 DEF Told
      <4> QED BY <4>2, <4>3
    <3> QED BY <1>5, <3>1, <3>2
  <2> QED BY <1>0, <1>1, <1>5, <2>2, <2>3, <2>4, <2>5
<1>6. ASSUME NEW id \in RowId, NEW f \in Field, UpdateInPlace(id, f) PROVE OneRow'
  BY <1>0, <1>5, <1>6 DEF UpdateInPlace
<1>7. ASSUME NEW k \in Client, ApplyUpdate(k) PROVE OneRow'
  <2>1. op[k].id \in RowId /\ op[k].field \in Field /\ op[k].at \in 0 .. MaxTime /\ Exists(op[k].id)
    BY <1>0, <1>7 DEF ApplyUpdate, Goes, Call, Fits
  <2>2. asked' = asked /\ answered' = answered /\ acked' \subseteq acked \cup {<<op[k].id, op[k].field>>}
    BY <1>7 DEF ApplyUpdate
  <2>3. CASE row' = [row EXCEPT ![op[k].id] = Patched(@, op[k].field, op[k].at)]
    BY <1>5, <2>1, <2>2, <2>3
  <2>4. CASE row' = row /\ acked' = acked
    BY <1>2, <2>2, <2>4
  <2> QED BY <1>7, <2>3, <2>4 DEF ApplyUpdate
<1>8. CASE Locked
  BY <1>0, <1>2, <1>3, <1>4, <1>6, <1>8
     DEF Locked, CreateSession, InsertSession, PutSession, UpdateSession, UpdateConversation,
         AddOwner, InsertOwner, PutOwner, NewOwner, AppendLocked
<1>9. ASSUME NEW k \in Client, Step(k) PROVE OneRow'
  <2>1. ~PutItem(k) /\ ~PutRow(k) /\ ~SyncClaim(k)
    BY <1>0 DEF PutItem, PutRow, SyncClaim, Goes, Fits
  <2> QED BY <1>2, <1>7, <1>9, <2>1
       DEF Step, CommitMessage, PutMessage, Lands, ClaimKey, Stamp, ReadRow, next_message_seq
<1>10. CASE Tick \/ Reads
  BY <1>2, <1>10 DEF Tick, Reads, StartHistory, StartSidebar, HistoryPage, ListRows, SidebarPage
<1> QED BY <1>8, <1>9, <1>10 DEF Next

\* Over DynamoDB every step keeps each key's claim the source of its rows.
LEMMA OneClaimStep ==
  ASSUME TypeOK, CallsFit, Keyed, OneClaim, backend = "dynamodb", Next
  PROVE  OneClaim'
<1>0. /\ \A k \in Client : op[k] # None => op[k] \in Call /\ Fits(op[k])
      /\ \A id \in RowId : Exists(id) => row[id] \in Row
      /\ Conv \subseteq RowId /\ Sess \in RowId /\ Sess \notin Conv
      /\ now \in 0 .. MaxTime /\ row \in [RowId -> Row \cup {None}]
      /\ op \in [Client -> OrNone(Call)] /\ claim \in [Key -> Body \cup {None}]
      /\ answered \in [Key -> SUBSET Conv]
  BY DEF TypeOK, OrNone, Exists, RowId, CallsFit, Conv, Sess
<1> DEFINE Kept == \A x \in Key, c \in Conv : Claims(c, x) => Claims(c, x)'
           RowsFrom == \A c \in Conv : Exists(c)' /\ row'[c] # row[c] => Claims(c, row[c].key)'
           TellsFrom == \A x \in Key : \A c \in answered'[x] \ answered[x] : Claims(c, x)'
           CallsFrom == \A k \in Client :
             op'[k] # None /\ op'[k] # op[k] /\ op'[k].kind \in {"item", "put", "sync"} /\ op'[k].id # Sess
               => Claims(op[k].id, op[k].row.key)'
<1>1. ASSUME Kept, RowsFrom, TellsFrom, CallsFrom PROVE OneClaim'
  <2>1. ASSUME NEW c \in Conv, Exists(c)' PROVE Claims(c, row[c].key)'
    <3>1. CASE row'[c] = row[c]
      <4>1. Exists(c) /\ row[c].key \in Key
        BY <2>1, <3>1 DEF Exists, Keyed
      <4>2. Claims(c, row[c].key)
        BY <4>1 DEF OneClaim
      <4> QED BY <1>1, <3>1, <4>1, <4>2 DEF Claims
    <3>2. CASE row'[c] # row[c]
      BY <1>1, <2>1, <3>2 DEF Claims
    <3> QED BY <3>1, <3>2
  <2>2. ASSUME NEW x \in Key, NEW c \in answered'[x] PROVE Claims(c, x)'
    BY <1>0, <1>1, <2>2 DEF OneClaim
  <2>3. ASSUME NEW k \in Client, op'[k] # None, op'[k].kind \in {"item", "put", "sync"}, op'[k].id # Sess
        PROVE  Claims(op[k].id, op[k].row.key)'
    <3>1. CASE op'[k] = op[k]
      <4>1. op[k].id \in Conv /\ op[k].row.key \in Key
        BY <1>0, <2>3, <3>1 DEF Call, Fits, RowId
      <4>2. Claims(op[k].id, op[k].row.key)
        BY <2>3, <3>1 DEF OneClaim
      <4> QED BY <1>1, <3>1, <4>1, <4>2 DEF Claims
    <3>2. CASE op'[k] # op[k]
      BY <1>1, <2>3, <3>2
    <3> QED BY <3>1, <3>2
  <2> QED BY <2>1, <2>2, <2>3 DEF OneClaim
<1>2. claim' = claim => Kept
  BY DEF Claims
<1>3. row' = row => RowsFrom
  OBVIOUS
<1>4. answered' = answered => TellsFrom
  OBVIOUS
<1>5. op' = op \/ (\E k \in Client : Done(k)) => CallsFrom
  BY <1>0 DEF Done
<1> HIDE DEF Kept, RowsFrom, TellsFrom, CallsFrom
<1>6. ASSUME NEW k \in Client, PutItem(k) PROVE OneClaim'
  <2>1. /\ op[k].id \in Conv /\ op[k].key \in Key /\ op[k].row.key = op[k].key
        /\ Claims(op[k].id, op[k].key) /\ claim' = claim
    BY <1>0, <1>6 DEF PutItem, Goes, Call, Fits, OneClaim
  <2>2. RowsFrom
    BY <1>0, <1>6, <2>1 DEF PutItem, RowsFrom, Claims
  <2>3. TellsFrom
    BY <1>0, <1>6, <2>1 DEF PutItem, TellsFrom, Claims, Returns
  <2> QED BY <1>1, <1>2, <1>5, <1>6, <2>1, <2>2, <2>3 DEF PutItem
<1>7. ASSUME NEW k \in Client, PutRow(k) PROVE OneClaim'
  <2>1. op[k] # None /\ op[k].kind = "put" /\ op[k] \in Call /\ Fits(op[k])
    BY <1>0, <1>7 DEF PutRow, Goes
  <2>2. op[k] \in [kind : {"put"}, id : RowId, field : Field, row : Row]
    BY <2>1 DEF Call
  <2>3. claim' = claim /\ answered' = answered
    BY <1>7 DEF PutRow
  <2>4. op[k].id # Sess => Claims(op[k].id, op[k].row.key)
    BY <2>1 DEF OneClaim
  <2>5. RowsFrom
    BY <1>0, <1>7, <2>2, <2>3, <2>4 DEF PutRow, RowsFrom, Claims
  <2>6. CallsFrom
    <3>1. CASE op[k].id # Sess /\ op' = [op EXCEPT ![k].kind = "sync"]
      <4>1. op'[k].id = op[k].id /\ op'[k].row = op[k].row /\ \A l \in Client \ {k} : op'[l] = op[l]
        BY <1>0, <2>2, <3>1
      <4>2. Claims(op[k].id, op[k].row.key)'
        BY <2>3, <2>4, <3>1, <4>1 DEF Claims
      <4> QED BY <4>1, <4>2 DEF CallsFrom
    <3>2. CASE Done(k)
      BY <1>5, <3>2
    <3> QED BY <1>7, <3>1, <3>2 DEF PutRow
  <2> QED BY <1>1, <1>2, <1>4, <2>3, <2>5, <2>6
<1>8. ASSUME NEW k \in Client, SyncClaim(k) PROVE OneClaim'
  <2>1. op[k] # None /\ op[k].kind = "sync" /\ op[k] \in Call /\ Fits(op[k])
    BY <1>0, <1>8 DEF SyncClaim, Goes
  <2>2. op[k].id \in Conv /\ op[k].row \in Row /\ op[k].row.key \in Key
    BY <1>0, <2>1 DEF Call, Fits
  <2>3. Claims(op[k].id, op[k].row.key)
    BY <1>0, <2>1, <2>2 DEF OneClaim
  <2>4. [id |-> op[k].id, row |-> op[k].row] \in Body
    BY <2>2 DEF Body
  <2>5. CASE claim' = [claim EXCEPT ![op[k].row.key] = [id |-> op[k].id, row |-> op[k].row]]
    <3>1. claim'[op[k].row.key] # None /\ claim'[op[k].row.key].id = op[k].id
      BY <1>0, <2>2, <2>4, <2>5, NoneAssumption
    <3>2. \A x \in Key : x # op[k].row.key => claim'[x] = claim[x]
      BY <1>0, <2>5
    <3>3. Kept
      BY <2>3, <3>1, <3>2 DEF Kept, Claims
    <3> QED BY <1>1, <1>3, <1>4, <1>5, <1>8, <3>3 DEF SyncClaim
  <2>6. CASE claim' = claim
    BY <1>1, <1>2, <1>3, <1>4, <1>5, <1>8, <2>6 DEF SyncClaim
  <2> QED BY <1>8, <2>5, <2>6 DEF SyncClaim
<1>9. ASSUME NEW k \in Client, NEW id \in Conv, NEW key \in Key, ClaimKey(k, id, key)
      PROVE  OneClaim'
  <2>1. row' = row
    BY <1>9 DEF ClaimKey
  <2>2. CASE claim[key] = None
    <3>1. NewRow(key) \in Row /\ NewRow(key).key = key
      BY NewRowTyped
    <3>2. [id |-> id, row |-> NewRow(key)] \in Body
      BY <3>1 DEF Body
    <3>3. claim'[key] # None /\ claim'[key].id = id /\ \A x \in Key : x # key => claim'[x] = claim[x]
      BY <1>0, <1>9, <2>2, <3>2, NoneAssumption DEF ClaimKey
    <3>4. Kept
      BY <2>2, <3>3 DEF Kept, Claims
    <3>5. /\ op'[k].id = id /\ op'[k].row.key = key
          /\ \A l \in Client \ {k} : op'[l] = op[l]
      BY <1>0, <1>9, <2>2, <3>1 DEF ClaimKey, Begin
    <3>6. Claims(op[k].id, op[k].row.key)'
      BY <3>3, <3>5 DEF Claims
    <3>7. CallsFrom
      BY <3>5, <3>6 DEF CallsFrom
    <3> QED BY <1>1, <1>3, <1>4, <1>9, <2>1, <2>2, <3>4, <3>7 DEF ClaimKey
  <2>3. CASE claim[key] # None
    <3>1. claim' = claim /\ op' = op /\ Returns(key, {claim[key].id})
      BY <1>9, <2>3 DEF ClaimKey
    <3>2. TellsFrom
      BY <1>0, <2>3, <3>1 DEF TellsFrom, Returns, Claims
    <3> QED BY <1>1, <1>2, <1>3, <1>5, <2>1, <3>1, <3>2
  <2> QED BY <2>2, <2>3
<1>10. ASSUME NEW k \in Client, NEW id \in RowId, NEW f \in Field, ReadRow(k, id, f)
       PROVE  OneClaim'
  <2>1. claim' = claim /\ row' = row /\ answered' = answered
    BY <1>10 DEF ReadRow
  <2>2. row[id] \in Row /\ (id # Sess => id \in Conv) /\ Exists(id)
    BY <1>0, <1>10 DEF ReadRow, RowId
  <2>3. Patched(row[id], f, now).key = row[id].key
    BY <1>0, <2>2, PatchedRow
  <2>4. /\ op'[k].id = id /\ op'[k].row.key = row[id].key
        /\ \A l \in Client \ {k} : op'[l] = op[l]
    BY <1>0, <1>10, <2>3 DEF ReadRow, Begin
  <2>5. id # Sess => Claims(id, row[id].key)
    BY <2>2 DEF OneClaim
  <2>6. CallsFrom
    BY <2>1, <2>4, <2>5 DEF CallsFrom, Claims
  <2> QED BY <1>1, <1>2, <1>3, <1>4, <2>1, <2>6
<1>11. ASSUME NEW k \in Client, NEW c \in Conv, next_message_seq(k, c) PROVE OneClaim'
  <2>1. claim' = claim /\ row' = row /\ answered' = answered
    BY <1>11 DEF next_message_seq
  <2>2. CallsFrom
    BY <1>0, <1>11 DEF CallsFrom, next_message_seq, Begin
  <2> QED BY <1>1, <1>2, <1>3, <1>4, <2>1, <2>2
<1>12. ASSUME NEW k \in Client, Lands(k) PROVE OneClaim'
  BY <1>1, <1>2, <1>3, <1>4, <1>5, <1>12 DEF Lands
<1>13. ASSUME NewSession PROVE OneClaim'
  <2>1. RowsFrom
    BY <1>0, <1>13 DEF NewSession, RowsFrom
  <2> QED BY <1>1, <1>2, <1>4, <1>5, <1>13, <2>1 DEF NewSession
<1>14. ASSUME UNCHANGED <<row, claim, op, answered>> PROVE OneClaim'
  BY <1>1, <1>2, <1>3, <1>4, <1>5, <1>14
<1>15. CASE Locked
  BY <1>13, <1>14, <1>15
     DEF Locked, CreateLocked, CreateRow, CreateSession, InsertSession, PutSession, UpdateSession,
         UpdateConversation, UpdateInPlace, AddOwner, InsertOwner, PutOwner, NewOwner, AppendLocked
<1>16. ASSUME NEW k \in Client, Step(k) PROVE OneClaim'
  <2>1. ~ApplyUpdate(k)
    BY <1>0 DEF ApplyUpdate, Goes, Fits
  <2> QED BY <1>6, <1>7, <1>8, <1>9, <1>10, <1>11, <1>12, <1>16, <2>1
       DEF Step, CommitMessage, PutMessage, Stamp
<1>17. CASE Tick \/ Reads
  BY <1>14, <1>17 DEF Tick, Reads, StartHistory, StartSidebar, HistoryPage, ListRows, SidebarPage
<1> QED BY <1>15, <1>16, <1>17 DEF Next

\* Every step keeps the invariant.
LEMMA RowsStep == RowsInv /\ [Next]_vars => RowsInv'
<1> SUFFICES ASSUME RowsInv, [Next]_vars PROVE RowsInv'
  OBVIOUS
<1>1. CASE Next
  <2>1. TypeOK' /\ CallsFit' /\ Keyed' /\ backend' = backend
    <3>1. backend' = backend
      BY <1>1 DEF Next, Tick, Locked, Reads, Step, CreateLocked, CreateRow, CreateSession,
           InsertSession, PutSession, NewSession, UpdateSession, UpdateConversation, UpdateInPlace,
           AddOwner, InsertOwner, PutOwner, NewOwner, AppendLocked, StartHistory, StartSidebar,
           HistoryPage, ListRows, SidebarPage, PutItem, ApplyUpdate, PutRow, SyncClaim,
           CommitMessage, PutMessage, Lands, ClaimKey, Stamp, ReadRow, next_message_seq
    <3> QED BY <1>1, <3>1, RowTypes, CallsStep, KeyedStep DEF RowsInv
  <2>2. backend # "dynamodb" => OneRow'
    BY <1>1, OneRowStep DEF RowsInv
  <2>3. backend = "dynamodb" => OneClaim'
    BY <1>1, OneClaimStep DEF RowsInv
  <2> QED BY <2>1, <2>2, <2>3 DEF RowsInv
<1>2. CASE UNCHANGED vars
  <2>1. TypeOK'
    BY <1>2 DEF RowsInv, TypeOK, vars
  <2>2. CallsFit' /\ Keyed'
    BY <1>2 DEF RowsInv, CallsFit, Fits, Keyed, Exists, vars
  <2>3. backend # "dynamodb" => OneRow'
    BY <1>2 DEF RowsInv, OneRow, Told, Holder, Exists, vars
  <2>4. backend = "dynamodb" => OneClaim'
    BY <1>2 DEF RowsInv, OneClaim, Claims, Exists, vars
  <2> QED BY <1>2, <2>1, <2>2, <2>3, <2>4 DEF RowsInv, vars
<1> QED BY <1>1, <1>2

\* The invariant gives what callers were told.
LEMMA RowsInvTold == RowsInv => RowsAsTold
<1> SUFFICES ASSUME RowsInv PROVE RowsAsTold
  OBVIOUS
<1>1. ASSUME NEW x \in Key, NEW c, answered[x] \cup Holder(x) \subseteq {c}
      PROVE  Cardinality(answered[x] \cup Holder(x)) <= 1
  <2>1. IsFiniteSet({c}) /\ Cardinality({c}) = 1
    BY FS_Singleton
  <2>2. answered[x] \cup Holder(x) \in SUBSET {c}
    BY <1>1
  <2> QED BY <2>1, <2>2, FS_Subset
<1>2. ASSUME NEW x \in Key PROVE Cardinality(answered[x] \cup Holder(x)) <= 1
  <2>1. CASE backend = "dynamodb"
    <3>1. answered[x] \cup Holder(x) \subseteq {claim[x].id}
      BY <2>1 DEF RowsInv, OneClaim, Claims, Holder
    <3> QED BY <1>1, <3>1
  <2>2. CASE backend # "dynamodb"
    <3>1. answered[x] \subseteq Holder(x) /\ \A c, d \in Holder(x) : c = d
      BY <2>2 DEF RowsInv, OneRow, Holder
    <3>2. \E c : answered[x] \cup Holder(x) \subseteq {c}
      BY <3>1
    <3> QED BY <1>1, <3>2
  <2> QED BY <2>1, <2>2
<1>3. backend # "dynamodb" => UpdateKept
  BY DEF RowsInv, OneRow, Told, UpdateKept
<1> QED BY <1>2, <1>3 DEF RowsAsTold, OneConversationPerKey

\* Rows, claims, calls, messages and answers keep their shape on every backend.
THEOREM StorageTyped == Spec => []TypeOK
<1>1. RowsInv => TypeOK
  BY DEF RowsInv
<1> QED BY <1>1, RowsBegin, RowsStep, PTL DEF Spec

\* However creates and updates race, fail and are retried: one conversation for
\* all the creates of a key on every backend, and in memory and in Postgres every
\* answered update still in its row (adapter.rs and its three implementations).
THEOREM RowsTold == Spec => []RowsAsTold
<1> QED BY RowsBegin, RowsStep, RowsInvTold, PTL DEF Spec
-----------------------------------------------------------------------------
(* Sorted sets and their pages.                                            *)

\* A finite set that is totally ordered can be listed in its order: each element
\* goes to the place after those ahead of it.
LEMMA SortedExists ==
  ASSUME NEW S, IsFiniteSet(S), NEW R,
         \A a \in S : <<a, a>> \notin R,
         \A a, b, c \in S : <<a, b>> \in R /\ <<b, c>> \in R => <<a, c>> \in R,
         \A a, b \in S : a = b \/ <<a, b>> \in R \/ <<b, a>> \in R
  PROVE  \E s \in [1 .. Cardinality(S) -> S] :
           \A i, j \in DOMAIN s : i < j => <<s[i], s[j]>> \in R
<1> DEFINE n == Cardinality(S)
           A(d) == {e \in S : <<e, d>> \in R}
           f == [d \in S |-> Cardinality(A(d)) + 1]
<1>1. n \in Nat
  BY FS_CardinalityType
<1>2. ASSUME NEW d \in S
      PROVE  IsFiniteSet(A(d)) /\ Cardinality(A(d)) \in Nat /\ Cardinality(A(d)) < n
  <2>1. A(d) \in SUBSET S /\ A(d) # S
    BY <1>2
  <2> HIDE DEF A
  <2>2. IsFiniteSet(A(d)) /\ Cardinality(A(d)) <= n /\ Cardinality(A(d)) # n
    BY <2>1, FS_Subset
  <2>3. Cardinality(A(d)) \in Nat
    BY <2>2, FS_CardinalityType
  <2> QED BY <1>1, <2>2, <2>3
<1>3. f \in [S -> 1 .. n]
  <2> HIDE DEF n, A
  <2> QED BY <1>1, <1>2
<1>4. ASSUME NEW a \in S, NEW b \in S, <<a, b>> \in R PROVE f[a] < f[b]
  <2>1. A(a) \in SUBSET A(b) /\ A(a) # A(b)
    BY <1>4
  <2> HIDE DEF A
  <2>2. IsFiniteSet(A(b))
    BY <1>2
  <2>3. Cardinality(A(a)) <= Cardinality(A(b)) /\ Cardinality(A(a)) # Cardinality(A(b))
    BY <2>1, <2>2, FS_Subset
  <2> QED BY <1>2, <2>3
<1> HIDE DEF f, A
<1>5. f \in Injection(S, 1 .. n)
  <2>1. ASSUME NEW a \in S, NEW b \in S, f[a] = f[b] PROVE a = b
    <3>1. f[a] \in Nat /\ f[b] \in Nat
      BY <1>1, <1>3
    <3>2. <<a, b>> \notin R
      BY <1>4, <2>1, <3>1
    <3>3. <<b, a>> \notin R
      BY <1>4, <2>1, <3>1
    <3> QED BY <3>2, <3>3
  <2> QED BY <1>3, <2>1 DEF Injection, IsInjective
<1>6. IsFiniteSet(1 .. n) /\ Cardinality(1 .. n) = n
  BY <1>1, FS_Interval
<1>7. f \in Surjection(S, 1 .. n)
  BY <1>5, <1>6, FS_Injection
<1>8. \A i \in 1 .. n : \E d \in S : f[d] = i
  BY <1>7 DEF Surjection
<1> DEFINE g == [i \in 1 .. n |-> CHOOSE d \in S : f[d] = i]
<1>9. \A i \in 1 .. n : g[i] \in S /\ f[g[i]] = i
  BY <1>8
<1>10. g \in [1 .. n -> S]
  BY <1>9
<1>11. DOMAIN g = 1 .. n
  OBVIOUS
<1> HIDE DEF g, n
<1>12. ASSUME NEW i \in 1 .. n, NEW j \in 1 .. n, i < j PROVE <<g[i], g[j]>> \in R
  <2>1. g[i] \in S /\ g[j] \in S /\ f[g[i]] = i /\ f[g[j]] = j
    BY <1>9
  <2>2. i \in Nat /\ j \in Nat
    BY <1>1
  <2>3. g[i] # g[j]
    BY <1>12, <2>1, <2>2
  <2>4. <<g[j], g[i]>> \notin R
    BY <1>4, <1>12, <2>1, <2>2
  <2> QED BY <2>1, <2>3, <2>4
<1> QED BY <1>10, <1>11, <1>12 DEF n

\* Sorted lists all of such a set, in its order.
LEMMA SortedAll ==
  ASSUME NEW S, IsFiniteSet(S), NEW R,
         \A a \in S : <<a, a>> \notin R,
         \A a, b, c \in S : <<a, b>> \in R /\ <<b, c>> \in R => <<a, c>> \in R,
         \A a, b \in S : a = b \/ <<a, b>> \in R \/ <<b, a>> \in R
  PROVE  /\ Cardinality(S) \in Nat
         /\ Sorted(S, R) \in Seq(S) /\ Len(Sorted(S, R)) = Cardinality(S)
         /\ \A i, j \in 1 .. Cardinality(S) : i < j => <<Sorted(S, R)[i], Sorted(S, R)[j]>> \in R
         /\ \A a \in S : \E i \in 1 .. Cardinality(S) : Sorted(S, R)[i] = a
<1> DEFINE n == Cardinality(S)
           s == Sorted(S, R)
<1>1. n \in Nat
  BY FS_CardinalityType
<1>2. s \in [1 .. n -> S] /\ \A i, j \in DOMAIN s : i < j => <<s[i], s[j]>> \in R
  BY SortedExists DEF Sorted
<1>3. DOMAIN s = 1 .. n
  BY <1>2
<1> HIDE DEF s, n
<1>4. ASSUME NEW i \in 1 .. n, NEW j \in 1 .. n, s[i] = s[j] PROVE i = j
  <2>1. s[i] \in S /\ i \in Nat /\ j \in Nat
    BY <1>1, <1>2
  <2>2. ~(i < j) /\ ~(j < i)
    BY <1>2, <1>3, <1>4, <2>1
  <2> QED BY <2>1, <2>2
<1>5. s \in Injection(1 .. n, S)
  BY <1>2, <1>4 DEF Injection, IsInjective
<1>6. Cardinality(1 .. n) = n
  BY <1>1, FS_Interval
<1>7. s \in Surjection(1 .. n, S)
  BY <1>5, <1>6, FS_Injection DEF n
<1>8. \A a \in S : \E i \in 1 .. n : s[i] = a
  BY <1>7 DEF Surjection
<1>9. s \in Seq(S) /\ Len(s) = n
  BY <1>1, <1>2, <1>3, IsASeq
<1> QED BY <1>1, <1>2, <1>3, <1>8, <1>9 DEF s, n

\* The first n of a sequence.
LEMMA TakeFirst ==
  ASSUME NEW X, NEW s \in Seq(X), NEW n \in Nat
  PROVE  /\ Take(s, n) \in Seq(X) /\ Len(Take(s, n)) = IF n < Len(s) THEN n ELSE Len(s)
         /\ \A i \in 1 .. Len(Take(s, n)) : Take(s, n)[i] = s[i]
<1> DEFINE m == IF n < Len(s) THEN n ELSE Len(s)
<1>1. Len(s) \in Nat /\ m \in Nat /\ m <= Len(s)
  BY LenProperties
<1>2. \A i \in 1 .. m : i \in 1 .. Len(s)
  BY <1>1
<1>3. /\ SubSeq(s, 1, m) \in Seq(X) /\ Len(SubSeq(s, 1, m)) = m
      /\ \A i \in 1 .. m : SubSeq(s, 1, m)[i] = s[i]
  <2> HIDE DEF m
  <2>1. \A i \in 1 .. m : s[i] \in X
    BY <1>2, ElementOfSeq
  <2> QED BY <1>1, <2>1, SMT
<1> QED BY <1>1, <1>3 DEF Take

-----------------------------------------------------------------------------
(* Storage: one page of a conversation's messages.                         *)

Rises(desc, s) == \A i, j \in DOMAIN s : i < j => InOrder(desc, s[i], s[j])

\* Sets of messages are finite.
LEMMA MsgsFinite ==
  ASSUME NEW S, S \subseteq Msg
  PROVE  IsFiniteSet(S) /\ \A m \in S : m \in Nat
<1>1. MaxMsg \in Int /\ 1 \in Int
  BY StorageAssumption
<1>2. IsFiniteSet(Msg)
  BY <1>1, FS_Interval DEF Msg
<1>3. \A m \in S : m \in Nat
  BY StorageAssumption DEF Msg
<1> QED BY <1>2, <1>3, FS_Subset

\* The messages of a set, in order.
LEMMA OrderedAll ==
  ASSUME NEW S, S \subseteq Msg, NEW desc
  PROVE  /\ Cardinality(S) \in Nat
         /\ Ordered(S, desc) \in Seq(S) /\ Len(Ordered(S, desc)) = Cardinality(S)
         /\ Rises(desc, Ordered(S, desc))
         /\ \A m \in S : Has(Ordered(S, desc), m)
<1> DEFINE R == {p \in S \X S : InOrder(desc, p[1], p[2])}
           s == Ordered(S, desc)
<1>1. IsFiniteSet(S)
  BY MsgsFinite
<1>2. \A m \in S : m \in Nat
  BY MsgsFinite
<1>3. \A a, b \in S : <<a, b>> \in R <=> InOrder(desc, a, b)
  OBVIOUS
<1>4. s = Sorted(S, R)
  BY DEF Ordered
<1> HIDE DEF R, s
<1>5. /\ \A a \in S : <<a, a>> \notin R
      /\ \A a, b, c \in S : <<a, b>> \in R /\ <<b, c>> \in R => <<a, c>> \in R
      /\ \A a, b \in S : a = b \/ <<a, b>> \in R \/ <<b, a>> \in R
  BY <1>2, <1>3 DEF InOrder
<1>6. /\ Cardinality(S) \in Nat
      /\ s \in Seq(S) /\ Len(s) = Cardinality(S)
      /\ \A i, j \in 1 .. Cardinality(S) : i < j => <<s[i], s[j]>> \in R
      /\ \A a \in S : \E i \in 1 .. Cardinality(S) : s[i] = a
  BY <1>1, <1>4, <1>5, SortedAll
<1>7. DOMAIN s = 1 .. Cardinality(S)
  BY <1>6, LenProperties
<1>8. \A i \in DOMAIN s : s[i] \in S
  BY <1>6, <1>7, ElementOfSeq
<1>9. Rises(desc, s) /\ \A m \in S : Has(s, m)
  BY <1>3, <1>6, <1>7, <1>8 DEF Rises, Has
<1> QED BY <1>6, <1>9 DEF s

\* What a page holds of the set P it is taken from: messages of P in order, and the
\* cursor of the next page is the last of them.
PageIn(P, desc, page) ==
  /\ page.messages \in Seq(P) /\ Rises(desc, page.messages)
  /\ \/ page.next = None
     \/ page.messages # <<>> /\ page.next = page.messages[Len(page.messages)]
\* What it leaves out is past that cursor.
PageCovers(P, desc, page) ==
  \A m \in P : \/ Has(page.messages, m)
               \/ page.next # None /\ InOrder(desc, page.next, m)
\* It comes before it in any case.
PageFirst(P, desc, page) ==
  \A m \in P : \/ Has(page.messages, m)
               \/ \A i \in DOMAIN page.messages : InOrder(desc, page.messages[i], m)

\* A page that covers is also a first one.
LEMMA CoversFirst ==
  ASSUME NEW P, P \subseteq Msg, NEW desc, NEW page,
         PageIn(P, desc, page), PageCovers(P, desc, page)
  PROVE  PageFirst(P, desc, page)
<1> DEFINE s == page.messages
<1>1. /\ s \in Seq(P) /\ Rises(desc, s)
      /\ page.next = None \/ (s # <<>> /\ page.next = s[Len(s)])
      /\ \A m \in P : Has(s, m) \/ (page.next # None /\ InOrder(desc, page.next, m))
  BY DEF PageIn, PageCovers
<1> HIDE DEF s
<1>2. /\ Len(s) \in Nat /\ DOMAIN s = 1 .. Len(s) /\ \A i \in DOMAIN s : s[i] \in P
      /\ s # <<>> => Len(s) \in DOMAIN s
  BY <1>1, LenProperties, ElementOfSeq, EmptySeq
<1>3. \A x \in P : x \in Nat
  BY StorageAssumption DEF Msg
<1>4. ASSUME NEW m \in P, ~Has(s, m), NEW i \in DOMAIN s
      PROVE  InOrder(desc, s[i], m)
  <2>1. s # <<>> /\ InOrder(desc, s[Len(s)], m)
    BY <1>1, <1>4
  <2>2. i = Len(s) \/ i < Len(s)
    BY <1>2, <1>4
  <2>3. i < Len(s) => InOrder(desc, s[i], s[Len(s)])
    BY <1>1, <1>2, <1>4, <2>1 DEF Rises
  <2>4. s[i] \in Nat /\ s[Len(s)] \in Nat /\ m \in Nat
    BY <1>2, <1>3, <1>4, <2>1
  <2> QED BY <2>1, <2>2, <2>3, <2>4 DEF InOrder
<1> QED BY <1>4 DEF PageFirst, s

\* PageOf of rows in order gives such a page.
LEMMA PageOfIn ==
  ASSUME NEW P, P \subseteq Msg, NEW desc, NEW limit \in Nat \ {0},
         NEW items \in Seq(P), Rises(desc, items)
  PROVE  PageIn(P, desc, PageOf(items, limit))
<1> DEFINE t == Take(items, limit)
           m == IF limit < Len(items) THEN limit ELSE Len(items)
<1>1. /\ t \in Seq(P) /\ Len(t) = m /\ \A i \in 1 .. Len(t) : t[i] = items[i]
  BY TakeFirst
<1>2. Len(items) \in Nat /\ DOMAIN items = 1 .. Len(items) /\ DOMAIN t = 1 .. Len(t)
  BY <1>1, LenProperties
<1>3. Len(t) \in Nat /\ Len(t) <= Len(items) /\ (Len(items) > limit => Len(t) = limit)
  <2> DEFINE n == Len(items)
  <2>1. n \in Nat /\ limit \in Nat
    BY <1>2
  <2> HIDE DEF n
  <2> QED BY <1>1, <2>1 DEF n
<1> HIDE DEF t, m
<1>4. Rises(desc, t)
  BY <1>1, <1>2, <1>3 DEF Rises
<1>5. Len(items) > limit => t # <<>> /\ items[limit] = t[Len(t)]
  BY <1>1, <1>3
<1> QED BY <1>1, <1>4, <1>5 DEF PageIn, PageOf, t

\* It covers the set when the rows are all of it, or one more than the page holds
\* and the first of it.
LEMMA PageOfCovers ==
  ASSUME NEW P, P \subseteq Msg, NEW desc, NEW limit \in Nat \ {0},
         NEW items \in Seq(P), Rises(desc, items),
         \A x \in P : \/ Has(items, x)
                      \/ /\ Len(items) > limit
                         /\ \A i \in DOMAIN items : InOrder(desc, items[i], x)
  PROVE  PageCovers(P, desc, PageOf(items, limit))
<1> DEFINE t == Take(items, limit)
           m == IF limit < Len(items) THEN limit ELSE Len(items)
<1>1. /\ t \in Seq(P) /\ Len(t) = m /\ \A i \in 1 .. Len(t) : t[i] = items[i]
  BY TakeFirst
<1>2. Len(items) \in Nat /\ DOMAIN items = 1 .. Len(items) /\ DOMAIN t = 1 .. Len(t)
  BY <1>1, LenProperties
<1>3. m \in Nat /\ m <= Len(items) /\ (Len(items) > limit => m = limit)
      /\ (~(Len(items) > limit) => m = Len(items))
  <2> DEFINE n == Len(items)
  <2>1. n \in Nat /\ limit \in Nat
    BY <1>2
  <2> HIDE DEF n
  <2> QED BY <2>1 DEF n
<1> HIDE DEF t, m
<1>4. Len(items) > limit => items[limit] \in P /\ limit \in DOMAIN items
  BY <1>2, ElementOfSeq
<1>5. Len(items) > limit => items[limit] # None
  BY <1>4, NoneAssumption
<1> DEFINE next == IF Len(items) > limit THEN items[limit] ELSE None
<1>6. ASSUME NEW x \in P
      PROVE  Has(t, x) \/ (Len(items) > limit /\ InOrder(desc, items[limit], x))
  <2>1. CASE Has(items, x)
    <3>1. PICK i \in DOMAIN items : items[i] = x
      BY <2>1 DEF Has
    <3>2. CASE i \in 1 .. m
      BY <1>1, <1>2, <3>1, <3>2 DEF Has
    <3>3. CASE i \notin 1 .. m
      <4>1. Len(items) > limit /\ limit < i
        <5>1. i \in Nat /\ 1 <= i /\ i <= Len(items) /\ limit \in Nat
          BY <1>2, <3>1
        <5>2. m < i
          BY <1>3, <3>3, <5>1
        <5>3. Len(items) > limit
          BY <1>3, <5>1, <5>2
        <5> QED BY <1>3, <5>2, <5>3
      <4> QED BY <1>4, <3>1, <4>1 DEF Rises
    <3> QED BY <3>2, <3>3
  <2>2. CASE ~Has(items, x)
    BY <1>4, <2>2
  <2> QED BY <2>1, <2>2
<1> QED BY <1>5, <1>6 DEF PageCovers, PageOf, t

\* It is a first page when the rows are the first of the set.
LEMMA PageOfFirst ==
  ASSUME NEW P, P \subseteq Msg, NEW desc, NEW limit \in Nat \ {0},
         NEW items \in Seq(P), Rises(desc, items),
         \A x \in P : \/ Has(items, x)
                      \/ \A i \in DOMAIN items : InOrder(desc, items[i], x)
  PROVE  PageFirst(P, desc, PageOf(items, limit))
<1> DEFINE t == Take(items, limit)
           m == IF limit < Len(items) THEN limit ELSE Len(items)
<1>1. /\ t \in Seq(P) /\ Len(t) = m /\ \A i \in 1 .. Len(t) : t[i] = items[i]
  BY TakeFirst
<1>2. Len(items) \in Nat /\ DOMAIN items = 1 .. Len(items) /\ DOMAIN t = 1 .. Len(t)
  BY <1>1, LenProperties
<1>3. m \in Nat /\ m <= Len(items)
  <2> DEFINE n == Len(items)
  <2>1. n \in Nat /\ limit \in Nat
    BY <1>2
  <2> HIDE DEF n
  <2> QED BY <2>1 DEF n
<1> HIDE DEF t, m
<1>4. ASSUME NEW x \in P, ~Has(t, x), NEW i \in DOMAIN t
      PROVE  InOrder(desc, t[i], x)
  <2>1. i \in DOMAIN items /\ t[i] = items[i] /\ i \in Nat /\ i <= m
    BY <1>1, <1>2, <1>3, <1>4
  <2>2. CASE Has(items, x)
    <3>1. PICK j \in DOMAIN items : items[j] = x
      BY <2>2 DEF Has
    <3>2. j \in Nat /\ ~(j <= m)
      BY <1>1, <1>2, <1>3, <1>4, <3>1 DEF Has
    <3>3. i < j
      BY <1>3, <2>1, <3>2
    <3> QED BY <2>1, <3>1, <3>3 DEF Rises
  <2>3. CASE ~Has(items, x)
    BY <2>1, <2>3
  <2> QED BY <2>2, <2>3
<1> QED BY <1>4 DEF PageFirst, PageOf, t

\* A call for a page: of a conversation, after nothing or after a message it holds.
Paged(q) ==
  /\ q.conv \in Conv /\ q.desc \in BOOLEAN /\ q.limit \in Nat \ {0}
  /\ q.cursor = None \/ q.cursor \in log[q.conv]

\* What is past the cursor is stored, and is not the cursor.
LEMMA PastMsgs ==
  ASSUME TypeOK, NEW q, Paged(q)
  PROVE  /\ log[q.conv] \subseteq Msg /\ Past(q) \subseteq log[q.conv] /\ Past(q) \subseteq Msg
         /\ q.cursor \notin Past(q)
<1>1. log[q.conv] \subseteq Msg
  BY DEF Paged, TypeOK
<1>2. \A m \in Msg : m \in Nat
  BY StorageAssumption DEF Msg
<1>3. q.cursor \notin Past(q)
  BY <1>1, <1>2, NoneAssumption DEF Past, Paged, InOrder
<1> QED BY <1>1, <1>3 DEF Past

\* The page of the tables in memory.
LEMMA MemoryPage ==
  ASSUME TypeOK, NEW q, Paged(q)
  PROVE  PageIn(Past(q), q.desc, memory_page(q)) /\ PageCovers(Past(q), q.desc, memory_page(q))
<1> DEFINE L == log[q.conv]
           ids == Ordered(L, q.desc)
           n == Len(ids)
           at == {i \in DOMAIN ids : ids[i] = q.cursor}
           start == IF at = {} THEN 0 ELSE CHOOSE i \in at : TRUE
           items == SubSeq(ids, start + 1, n)
           slice == Take(items, q.limit)
           k == IF q.limit < Len(items) THEN q.limit ELSE Len(items)
<1>1. L \subseteq Msg /\ Past(q) \subseteq L /\ Past(q) \subseteq Msg /\ q.desc \in BOOLEAN
      /\ q.limit \in Nat \ {0}
  BY PastMsgs DEF Paged
<1>2. /\ ids \in Seq(L) /\ Rises(q.desc, ids) /\ \A m \in L : Has(ids, m)
      /\ n \in Nat /\ DOMAIN ids = 1 .. n
  <2> HIDE DEF L
  <2>1. /\ ids \in Seq(L) /\ Rises(q.desc, ids) /\ \A m \in L : Has(ids, m)
    BY <1>1, OrderedAll
  <2> QED BY <2>1, LenProperties
<1> HIDE DEF ids
<1>3. \A i \in 1 .. n : ids[i] \in L
  BY <1>2, ElementOfSeq
<1>4. /\ start \in Nat /\ start <= n
      /\ start > 0 => start \in 1 .. n /\ ids[start] = q.cursor
      /\ start = 0 => q.cursor = None
      /\ q.cursor = None => start = 0
  <2>1. CASE q.cursor = None
    <3>1. at = {}
      BY <1>1, <1>2, <1>3, <2>1, NoneAssumption
    <3> QED BY <1>2, <2>1, <3>1
  <2>2. CASE q.cursor # None
    <3>1. PICK i \in DOMAIN ids : ids[i] = q.cursor
      BY <1>2, <2>2 DEF Paged, Has
    <3>2. at # {}
      BY <3>1
    <3>3. start \in at
      BY <3>2
    <3> HIDE DEF start
    <3>4. start \in 1 .. n /\ ids[start] = q.cursor
      BY <1>2, <3>3
    <3> QED BY <1>2, <2>2, <3>4
  <2> QED BY <2>1, <2>2
<1> HIDE DEF start, n
<1>5. /\ Len(items) = n - start /\ Len(items) \in Nat
      /\ \A i \in 1 .. Len(items) : items[i] = ids[start + i] /\ start + i \in 1 .. n
      /\ items \in Seq(L) /\ DOMAIN items = 1 .. Len(items)
  <2>1. start + 1 \in 1 .. n + 1 /\ n \in Nat /\ n = Len(ids) /\ start \in Nat /\ start <= n
    BY <1>2, <1>4 DEF n
  <2>2. \A i \in (start + 1) .. n : ids[i] \in L
    <3> SUFFICES ASSUME NEW i \in (start + 1) .. n PROVE ids[i] \in L
      OBVIOUS
    <3>1. i \in 1 .. n
      BY <2>1
    <3> QED BY <1>3, <3>1
  <2> DEFINE lo == start + 1
  <2>3. /\ items \in Seq(L)
        /\ Len(items) = IF lo <= n THEN n - lo + 1 ELSE 0
        /\ \A i \in 1 .. n - lo + 1 : items[i] = ids[lo + i - 1]
    <3>1. lo \in Int /\ n \in Int /\ \A i \in lo .. n : ids[i] \in L
      BY <2>1, <2>2
    <3>2. items = SubSeq(ids, lo, n)
      OBVIOUS
    <3> HIDE DEF L, lo, items
    <3> QED BY <3>1, <3>2, SubSeqProperties
  <2>4. Len(items) = n - start /\ Len(items) \in Nat
    <3> HIDE DEF items
    <3>1. CASE lo <= n
      BY <2>1, <2>3, <3>1
    <3>2. CASE ~(lo <= n)
      BY <2>1, <2>3, <3>2
    <3> QED BY <3>1, <3>2
  <2>5. DOMAIN items = 1 .. Len(items)
    <3> HIDE DEF items
    <3> QED BY <2>3, LenProperties
  <2>6. ASSUME NEW i \in 1 .. Len(items)
        PROVE  items[i] = ids[start + i] /\ start + i \in 1 .. n
    <3> HIDE DEF items
    <3>1. i \in Nat /\ i >= 1 /\ i <= n - start
      BY <2>1, <2>4
    <3>2. i \in 1 .. n - lo + 1 /\ lo + i - 1 = start + i
      BY <2>1, <3>1
    <3>3. start + i \in 1 .. n
      BY <2>1, <3>1
    <3>4. items[i] = ids[lo + i - 1]
      BY <2>3, <3>2
    <3> QED BY <3>2, <3>3, <3>4
  <2> QED BY <2>3, <2>4, <2>5, <2>6
<1> HIDE DEF items
<1>6. ASSUME NEW i \in DOMAIN items PROVE items[i] \in Past(q)
  <2>1. items[i] = ids[start + i] /\ start + i \in 1 .. n /\ i \in Nat /\ i >= 1
    BY <1>5
  <2>2. items[i] \in L
    BY <1>3, <2>1
  <2>3. CASE start = 0
    BY <1>4, <2>2, <2>3 DEF Past
  <2>4. CASE start # 0
    <3>1. start \in 1 .. n /\ ids[start] = q.cursor /\ start < start + i
      BY <1>4, <2>1, <2>4
    <3>2. InOrder(q.desc, ids[start], ids[start + i])
      BY <1>2, <2>1, <3>1 DEF Rises
    <3> QED BY <2>1, <2>2, <3>1, <3>2 DEF Past
  <2> QED BY <2>3, <2>4
<1>7. items \in Seq(Past(q))
  BY <1>5, <1>6, IsASeq
<1>8. Rises(q.desc, items)
  <2> SUFFICES ASSUME NEW i \in DOMAIN items, NEW j \in DOMAIN items, i < j
               PROVE  InOrder(q.desc, items[i], items[j])
    BY DEF Rises
  <2>1. /\ items[i] = ids[start + i] /\ start + i \in 1 .. n
        /\ items[j] = ids[start + j] /\ start + j \in 1 .. n
    BY <1>5
  <2>2. start + i < start + j
    BY <1>4, <1>5
  <2> QED BY <1>2, <2>1, <2>2 DEF Rises
<1>9. ASSUME NEW x \in Past(q) PROVE Has(items, x)
  <2>1. PICK i \in 1 .. n : ids[i] = x
    BY <1>1, <1>2 DEF Has
  <2>2. i > start
    <3>1. CASE start = 0
      BY <1>2, <3>1
    <3>2. CASE start # 0
      <4>1. start \in 1 .. n /\ ids[start] = q.cursor /\ q.cursor # None /\ start \in Nat
        BY <1>4, <3>2
      <4>2. InOrder(q.desc, q.cursor, x)
        BY <4>1 DEF Past
      <4>3. i < start => InOrder(q.desc, x, q.cursor)
        BY <1>2, <2>1, <4>1 DEF Rises
      <4>4. x \in Nat /\ q.cursor \in Nat
        <5>1. \A m \in Msg : m \in Nat
          BY StorageAssumption DEF Msg
        <5> QED BY <1>1, <1>3, <4>1, <5>1
      <4>5. i # start
        BY <2>1, <4>1, <4>2, <4>4 DEF InOrder
      <4>6. ~(i < start)
        BY <4>2, <4>3, <4>4 DEF InOrder
      <4> QED BY <1>2, <4>1, <4>5, <4>6
    <3> QED BY <3>1, <3>2
  <2>3. i - start \in 1 .. Len(items) /\ start + (i - start) = i
    BY <1>2, <1>4, <1>5, <2>2
  <2>4. items[i - start] = x
    BY <1>5, <2>1, <2>3
  <2> QED BY <1>5, <2>3, <2>4 DEF Has
<1>10. memory_page(q) = PageOf(items, q.limit)
  <2>1. slice \in Seq(L) /\ Len(slice) = k /\ \A i \in 1 .. Len(slice) : slice[i] = items[i]
    <3> HIDE DEF L
    <3> QED BY <1>1, <1>5, TakeFirst
  <2>2. k \in Nat /\ (Len(items) > q.limit => k = q.limit)
        /\ (~(Len(items) > q.limit) => k = Len(items))
    <3> DEFINE a == Len(items)
               b == q.limit
    <3>1. a \in Nat /\ b \in Nat
      BY <1>1, <1>5
    <3> HIDE DEF a, b
    <3> QED BY <3>1 DEF a, b
  <2> HIDE DEF k, slice
  <2>3. start + Len(slice) < n <=> Len(items) > q.limit
    <3>1. Len(slice) \in Nat /\ start \in Nat /\ n \in Nat /\ q.limit \in Nat
      BY <1>1, <1>2, <1>4, <2>1, <2>2
    <3>2. CASE Len(items) > q.limit
      BY <1>5, <2>1, <2>2, <3>1, <3>2
    <3>3. CASE ~(Len(items) > q.limit)
      BY <1>5, <2>1, <2>2, <3>1, <3>3
    <3> QED BY <3>2, <3>3
  <2>4. Len(items) > q.limit => Last(slice) = items[q.limit]
    BY <1>1, <2>1, <2>2 DEF Last
  <2>5. memory_page(q) = [messages |-> slice,
                          next |-> IF start + Len(slice) < n THEN Last(slice) ELSE None]
    BY DEF memory_page, slice, items, start, n, ids
  <2> QED BY <2>3, <2>4, <2>5 DEF PageOf, slice
<1>11. PageIn(Past(q), q.desc, PageOf(items, q.limit))
  BY <1>1, <1>7, <1>8, PageOfIn
<1>12. PageCovers(Past(q), q.desc, PageOf(items, q.limit))
  BY <1>1, <1>7, <1>8, <1>9, PageOfCovers
<1> QED BY <1>10, <1>11, <1>12

\* The first n of a sorted set: all of it, or n elements and every other one later.
LEMMA FirstSorted ==
  ASSUME NEW S, IsFiniteSet(S), NEW R, NEW n \in Nat,
         \A a \in S : <<a, a>> \notin R,
         \A a, b, c \in S : <<a, b>> \in R /\ <<b, c>> \in R => <<a, c>> \in R,
         \A a, b \in S : a = b \/ <<a, b>> \in R \/ <<b, a>> \in R
  PROVE  LET items == Take(Sorted(S, R), n)
         IN  /\ items \in Seq(S) /\ Len(items) \in Nat /\ DOMAIN items = 1 .. Len(items)
             /\ \A i, j \in DOMAIN items : i < j => <<items[i], items[j]>> \in R
             /\ \A x \in S : \/ Has(items, x)
                             \/ /\ Len(items) = n
                                /\ \A i \in DOMAIN items : <<items[i], x>> \in R
<1> DEFINE ids == Sorted(S, R)
           items == Take(ids, n)
           k == IF n < Len(ids) THEN n ELSE Len(ids)
<1>1. ids \in Seq(S) /\ \A i, j \in 1 .. Len(ids) : i < j => <<ids[i], ids[j]>> \in R
  BY SortedAll
<1>14. \A x \in S : \E i \in 1 .. Len(ids) : ids[i] = x
  BY SortedAll
<1> HIDE DEF ids
<1>2. Len(ids) \in Nat /\ DOMAIN ids = 1 .. Len(ids)
  BY <1>1, LenProperties
<1>3. k \in Nat /\ k <= Len(ids) /\ (n < Len(ids) => k = n) /\ (~(n < Len(ids)) => k = Len(ids))
  <2> DEFINE a == Len(ids)
  <2>1. a \in Nat
    BY <1>2
  <2> HIDE DEF a
  <2> QED BY <2>1 DEF a
<1>13. Len(ids) \in Nat /\ k \in Nat /\ k <= Len(ids)
  BY <1>2, <1>3
<1>4. items \in Seq(S) /\ Len(items) = k /\ \A i \in 1 .. Len(items) : items[i] = ids[i]
  BY <1>1, TakeFirst
<1> HIDE DEF items, k
<1>5. DOMAIN items = 1 .. Len(items)
  BY <1>4, LenProperties
<1>6. \A i, j \in DOMAIN items : i < j => <<items[i], items[j]>> \in R
  <2>1. \A i \in DOMAIN items : i \in DOMAIN ids /\ items[i] = ids[i]
    <3> SUFFICES ASSUME NEW i \in DOMAIN items PROVE i \in DOMAIN ids /\ items[i] = ids[i]
      OBVIOUS
    <3>1. i \in 1 .. k
      BY <1>4, <1>5
    <3>2. i \in 1 .. Len(ids)
      BY <1>13, <3>1
    <3> QED BY <1>2, <1>4, <3>1, <3>2
  <2> QED BY <1>1, <1>2, <2>1
<1>7. ASSUME NEW x \in S
      PROVE  \/ Has(items, x)
             \/ /\ Len(items) = n
                /\ \A i \in DOMAIN items : <<items[i], x>> \in R
  <2>1. PICK j \in DOMAIN ids : ids[j] = x
    BY <1>14, <1>2
  <2>2. CASE j \in 1 .. k
    BY <1>4, <1>5, <2>1, <2>2 DEF Has
  <2>3. CASE j \notin 1 .. k
    <3>1. j \in Nat /\ 1 <= j /\ j <= Len(ids)
      BY <1>2, <2>1
    <3>2. k < j
      BY <1>3, <2>3, <3>1
    <3>3. n < Len(ids)
      <4>1. ~(k = Len(ids))
        BY <1>13, <3>1, <3>2
      <4> QED BY <1>3, <4>1
    <3>4. Len(items) = n
      BY <1>3, <1>4, <3>3
    <3>5. ASSUME NEW i \in DOMAIN items PROVE <<items[i], x>> \in R
      <4>1. i \in Nat /\ i <= k /\ items[i] = ids[i] /\ i \in DOMAIN ids
        <5>1. i \in 1 .. k
          BY <1>4, <1>5
        <5>2. i \in Nat /\ 1 <= i /\ i <= k /\ i <= Len(ids)
          BY <1>13, <5>1
        <5> QED BY <1>2, <1>4, <5>1, <5>2
      <4>2. i < j
        BY <1>3, <3>1, <3>2, <4>1
      <4> QED BY <1>1, <1>2, <2>1, <4>1, <4>2
    <3> QED BY <3>4, <3>5
  <2> QED BY <2>2, <2>3
<1> QED BY <1>3, <1>4, <1>5, <1>6, <1>7 DEF items, ids

\* The first rows of a set of messages.
LEMMA FirstRows ==
  ASSUME NEW S, S \subseteq Msg, NEW desc, NEW n \in Nat
  PROVE  LET items == Take(Ordered(S, desc), n)
         IN  /\ items \in Seq(S) /\ Rises(desc, items) /\ Len(items) \in Nat
             /\ DOMAIN items = 1 .. Len(items)
             /\ \A x \in S : \/ Has(items, x)
                             \/ /\ Len(items) = n
                                /\ \A i \in DOMAIN items : InOrder(desc, items[i], x)
<1> DEFINE R == {p \in S \X S : InOrder(desc, p[1], p[2])}
           items == Take(Sorted(S, R), n)
<1>1. IsFiniteSet(S) /\ \A m \in S : m \in Nat
  BY MsgsFinite
<1>2. \A a, b \in S : <<a, b>> \in R <=> InOrder(desc, a, b)
  OBVIOUS
<1>3. Ordered(S, desc) = Sorted(S, R)
  BY DEF Ordered
<1> HIDE DEF R
<1>4. /\ \A a \in S : <<a, a>> \notin R
      /\ \A a, b, c \in S : <<a, b>> \in R /\ <<b, c>> \in R => <<a, c>> \in R
      /\ \A a, b \in S : a = b \/ <<a, b>> \in R \/ <<b, a>> \in R
  BY <1>1, <1>2 DEF InOrder
<1>5. /\ items \in Seq(S) /\ Len(items) \in Nat /\ DOMAIN items = 1 .. Len(items)
      /\ \A i, j \in DOMAIN items : i < j => <<items[i], items[j]>> \in R
      /\ \A x \in S : \/ Has(items, x)
                      \/ /\ Len(items) = n
                         /\ \A i \in DOMAIN items : <<items[i], x>> \in R
  BY <1>1, <1>4, FirstSorted
<1> HIDE DEF items
<1>6. \A i \in DOMAIN items : items[i] \in S
  BY <1>5, ElementOfSeq
<1>7. Rises(desc, items)
  BY <1>2, <1>5, <1>6 DEF Rises
<1>8. \A x \in S : \/ Has(items, x)
                   \/ /\ Len(items) = n
                      /\ \A i \in DOMAIN items : InOrder(desc, items[i], x)
  BY <1>2, <1>5, <1>6
<1> QED BY <1>3, <1>5, <1>7, <1>8 DEF items

\* The page of Postgres.
LEMMA PostgresPage ==
  ASSUME TypeOK, NEW q, Paged(q)
  PROVE  /\ PageIn(Past(q), q.desc, postgres_page(q))
         /\ PageCovers(Past(q), q.desc, postgres_page(q))
<1> DEFINE P == Past(q)
           d == q.desc
           n == q.limit
           items == Take(Ordered(P, d), n + 1)
<1>1. P \subseteq Msg /\ d \in BOOLEAN /\ n \in Nat \ {0} /\ n + 1 \in Nat /\ n + 1 > n
  BY PastMsgs DEF Paged
<1>2. postgres_page(q) = PageOf(items, n)
  BY DEF postgres_page
<1> HIDE DEF P, d, n
<1>3. /\ items \in Seq(P) /\ Rises(d, items)
      /\ \A x \in P : \/ Has(items, x)
                      \/ /\ Len(items) = n + 1
                         /\ \A i \in DOMAIN items : InOrder(d, items[i], x)
  BY <1>1, FirstRows
<1> HIDE DEF items
<1>4. PageIn(P, d, PageOf(items, n)) /\ PageCovers(P, d, PageOf(items, n))
  BY <1>1, <1>3, PageOfIn, PageOfCovers
<1> QED BY <1>2, <1>4 DEF P, d

\* The page of DynamoDB: newest first, or cut short, it may end early; otherwise it
\* covers.
LEMMA DynamoPage ==
  ASSUME TypeOK, NEW q, Paged(q), NEW fits \in Nat, backend = "dynamodb"
  PROVE  /\ PageIn(Past(q), q.desc, dynamodb_page(q, fits))
         /\ PageFirst(Past(q), q.desc, dynamodb_page(q, fits))
         /\ ~q.desc /\ ~Cut(q, fits) => PageCovers(Past(q), q.desc, dynamodb_page(q, fits))
<1> DEFINE P == Past(q)
           d == q.desc
           n == q.limit
           band == Band(q)
           size == IF fits <= n THEN fits ELSE n + 1
           fetched == Take(Ordered(band, d), size)
           U == ToSet(fetched) \ {q.cursor}
           items == Ordered(U, d)
<1>1. /\ P \subseteq Msg /\ d \in BOOLEAN /\ n \in Nat \ {0} /\ n + 1 \in Nat /\ n + 1 > n
      /\ band \subseteq Msg /\ q.cursor \notin P /\ size \in Nat
  BY PastMsgs DEF Paged, Band
<1>2. dynamodb_page(q, fits) = PageOf(items, n)
  BY DEF dynamodb_page, dynamodb_query
<1>3. P \subseteq band /\ \A x \in band : x \in P \/ x = q.cursor
  BY DEF Band
<1>4. ~d => band = P
  BY DEF Band
<1>13. ~Cut(q, fits) => ToSet(fetched) = band \/ size = n + 1
  BY DEF Cut, dynamodb_query
<1> HIDE DEF P, d, n, band, size
<1>5. /\ fetched \in Seq(band) /\ Rises(d, fetched) /\ Len(fetched) \in Nat
      /\ DOMAIN fetched = 1 .. Len(fetched)
      /\ \A x \in band : \/ Has(fetched, x)
                         \/ /\ Len(fetched) = size
                            /\ \A i \in DOMAIN fetched : InOrder(d, fetched[i], x)
  BY <1>1, FirstRows
<1> HIDE DEF fetched
<1>6. \A i \in DOMAIN fetched : fetched[i] \in band
  BY <1>5, ElementOfSeq
<1>7. \A x : x \in ToSet(fetched) <=> Has(fetched, x)
  BY DEF ToSet, Has
<1>8. U \subseteq P /\ U \subseteq Msg
  <2>1. \A x \in ToSet(fetched) : x \in band
    BY <1>6, <1>7 DEF Has
  <2> QED BY <1>1, <1>3, <2>1
<1>9. /\ Len(items) = Cardinality(U) /\ items \in Seq(U) /\ Rises(d, items)
      /\ \A x \in U : Has(items, x)
  <2> HIDE DEF U
  <2> QED BY <1>1, <1>8, OrderedAll
<1>10. items \in Seq(P)
  <2> HIDE DEF U, items
  <2>1. DOMAIN items = 1 .. Len(items) /\ Len(items) \in Nat
    BY <1>9, LenProperties
  <2>2. \A i \in 1 .. Len(items) : items[i] \in P
    BY <1>8, <1>9, <2>1, ElementOfSeq
  <2>3. items \in [1 .. Len(items) -> P]
    BY <1>9, <2>1, <2>2
  <2> QED BY <2>1, <2>3, SeqDef
<1>11. PageIn(P, d, PageOf(items, n))
  <2> HIDE DEF items
  <2> QED BY <1>1, <1>9, <1>10, PageOfIn
<1>14. \A i \in DOMAIN items : items[i] \in U
  <2> HIDE DEF items, U
  <2> QED BY <1>9, LenProperties, ElementOfSeq
<1>15. PageFirst(P, d, PageOf(items, n))
  <2>1. ASSUME NEW x \in P
        PROVE  Has(items, x) \/ \A i \in DOMAIN items : InOrder(d, items[i], x)
    <3>1. CASE Has(fetched, x)
      BY <1>1, <1>7, <1>9, <3>1
    <3>2. CASE ~Has(fetched, x)
      <4>1. \A i \in DOMAIN fetched : InOrder(d, fetched[i], x)
        BY <1>3, <1>5, <3>2
      <4>2. \A u \in U : InOrder(d, u, x)
        BY <1>7, <4>1 DEF Has
      <4> QED BY <1>14, <4>2
    <3> QED BY <3>1, <3>2
  <2> HIDE DEF items
  <2> QED BY <1>1, <1>9, <1>10, <2>1, PageOfFirst
<1>12. ASSUME ~d, ~Cut(q, fits) PROVE PageCovers(P, d, PageOf(items, n))
  <2>1. U = ToSet(fetched)
    BY <1>1, <1>4, <1>6, <1>7, <1>12 DEF Has
  <2>2. Cardinality(U) = Len(fetched)
    <3>1. fetched \in Injection(1 .. Len(fetched), U)
      <4>1. \A i \in 1 .. Len(fetched) : fetched[i] \in U
        BY <1>5, <1>7, <2>1 DEF Has
      <4>2. fetched \in [1 .. Len(fetched) -> U]
        <5> HIDE DEF U
        <5> QED BY <1>5, <4>1, IsASeq
      <4>3. ASSUME NEW i \in 1 .. Len(fetched), NEW j \in 1 .. Len(fetched), i # j
            PROVE  fetched[i] # fetched[j]
        <5>1. fetched[i] \in Nat /\ fetched[j] \in Nat
          <6>1. \A x \in Msg : x \in Nat
            BY StorageAssumption DEF Msg
          <6> QED BY <1>1, <1>5, <1>6, <6>1
        <5>2. i \in Nat /\ j \in Nat /\ (i < j \/ j < i)
          BY <1>5, <4>3
        <5>3. InOrder(d, fetched[i], fetched[j]) \/ InOrder(d, fetched[j], fetched[i])
          BY <1>5, <5>2 DEF Rises
        <5> QED BY <5>1, <5>3 DEF InOrder
      <4> HIDE DEF U
      <4> QED BY <4>2, <4>3 DEF Injection, IsInjective
    <3>2. fetched \in Surjection(1 .. Len(fetched), U)
      <4>1. \A x \in U : \E i \in 1 .. Len(fetched) : fetched[i] = x
        BY <1>5, <1>7, <2>1 DEF Has
      <4> HIDE DEF U
      <4> QED BY <3>1, <4>1 DEF Injection, Surjection
    <3>3. IsFiniteSet(1 .. Len(fetched)) /\ Cardinality(1 .. Len(fetched)) = Len(fetched)
      BY <1>5, FS_Interval
    <3> HIDE DEF U
    <3>4. Cardinality(U) = Cardinality(1 .. Len(fetched))
      BY <3>1, <3>2, <3>3, FS_Surjection
    <3> QED BY <3>3, <3>4
  <2>3. ASSUME NEW x \in P
        PROVE  \/ Has(items, x)
               \/ /\ Len(items) > n
                  /\ \A i \in DOMAIN items : InOrder(d, items[i], x)
    <3>1. CASE Has(fetched, x)
      BY <1>7, <1>9, <2>1, <3>1
    <3>2. CASE ~Has(fetched, x)
      <4>1. Len(fetched) = n + 1 /\ \A i \in DOMAIN fetched : InOrder(d, fetched[i], x)
        BY <1>3, <1>5, <1>7, <1>12, <1>13, <3>2
      <4>2. Len(items) > n
        BY <1>1, <1>9, <2>2, <4>1
      <4>3. \A u \in U : InOrder(d, u, x)
        BY <1>7, <2>1, <4>1 DEF Has
      <4> QED BY <1>14, <4>2, <4>3
    <3> QED BY <3>1, <3>2
  <2> HIDE DEF items
  <2> QED BY <1>1, <1>9, <1>10, <2>3, PageOfCovers
<1> QED BY <1>2, <1>11, <1>12, <1>15 DEF P, d

-----------------------------------------------------------------------------
(* Storage: a walk through a conversation's messages.                      *)

\* Whichever backend answers, a page holds messages past the cursor in order and
\* names the last of them, and skips none before it; only DynamoDB's newest-first page,
\* and one cut short, may leave out more.
LEMMA PageSound ==
  ASSUME TypeOK, NEW q, Paged(q), NEW fits \in Nat
  PROVE  /\ PageIn(Past(q), q.desc, list_messages_by_conversation(q, fits))
         /\ PageFirst(Past(q), q.desc, list_messages_by_conversation(q, fits))
         /\ ~(q.desc /\ backend = "dynamodb") /\ ~Cut(q, fits)
              => PageCovers(Past(q), q.desc, list_messages_by_conversation(q, fits))
<1>1. backend \in {"memory", "postgres", "dynamodb"} /\ Past(q) \subseteq Msg
  BY StorageAssumption, PastMsgs DEF TypeOK
<1>2. CASE backend = "memory"
  <2>1. list_messages_by_conversation(q, fits) = memory_page(q)
    BY <1>2 DEF list_messages_by_conversation
  <2> QED BY <1>1, <2>1, MemoryPage, CoversFirst
<1>3. CASE backend = "postgres"
  <2>1. list_messages_by_conversation(q, fits) = postgres_page(q)
    BY <1>3 DEF list_messages_by_conversation
  <2> QED BY <1>1, <2>1, PostgresPage, CoversFirst
<1>4. CASE backend = "dynamodb"
  <2>1. list_messages_by_conversation(q, fits) = dynamodb_page(q, fits)
    BY <1>4 DEF list_messages_by_conversation
  <2> QED BY <1>4, <2>1, DynamoPage
<1> QED BY <1>1, <1>2, <1>3, <1>4

Walker == [kind : {"history"}, conv : Conv, desc : BOOLEAN, limit : PageSize,
           cursor : Msg \cup {None}, got : Seq(Msg), base : SUBSET Msg,
           cut : BOOLEAN, done : BOOLEAN]
Walking(w) == w # None /\ w.kind = "history"
\* What the walk is still to return is past its cursor.
Ahead(w, m) == ~w.done /\ (w.cursor = None \/ InOrder(w.desc, w.cursor, m))

\* The inductive invariant behind HistoryWalk: the cursor is the last message
\* returned, and what the walk began with is returned or comes after all of that, and
\* is still ahead unless the walk was cut.
HistoryInv ==
  Walking(walk) =>
    /\ walk \in Walker
    /\ walk.base \subseteq log[walk.conv]
    /\ \A i \in DOMAIN walk.got : walk.got[i] \in log[walk.conv]
    /\ Rises(walk.desc, walk.got)
    /\ ~walk.done =>
         \/ walk.cursor = None /\ walk.got = <<>>
         \/ walk.got # <<>> /\ walk.cursor = walk.got[Len(walk.got)]
    /\ \A m \in walk.base :
         Has(walk.got, m) \/ \A i \in DOMAIN walk.got : InOrder(walk.desc, walk.got[i], m)
    /\ ~(walk.desc /\ backend = "dynamodb") /\ ~walk.cut
         => \A m \in walk.base : Has(walk.got, m) \/ Ahead(walk, m)

\* A page is added to the walk.
LEMMA HistoryStep ==
  ASSUME TypeOK, HistoryInv, HistoryPage
  PROVE  HistoryInv'
<1>0. PICK fits \in Fitting(MaxMsg) :
        walk' = [walk EXCEPT !.got = @ \o list_messages_by_conversation(walk, fits).messages,
                             !.cursor = list_messages_by_conversation(walk, fits).next,
                             !.cut = @ \/ Cut(walk, fits),
                             !.done = list_messages_by_conversation(walk, fits).next = None]
  BY DEF HistoryPage
<1>22. fits \in Nat
  BY StorageAssumption DEF Fitting
<1> DEFINE page == list_messages_by_conversation(walk, fits)
           cut == Cut(walk, fits)
           P == Past(walk)
           g == walk.got
           new == g \o page.messages
           d == walk.desc
<1>1. walk \in Walker /\ Walking(walk) /\ ~walk.done
  BY DEF HistoryPage, HistoryInv, Walking
<1>2. \/ walk.cursor = None /\ g = <<>>
      \/ /\ g # <<>> /\ walk.cursor = g[Len(g)] /\ Len(g) \in DOMAIN g
         /\ walk.cursor \in log[walk.conv] /\ walk.cursor # None
  <2>1. CASE walk.cursor = None /\ g = <<>>
    BY <2>1
  <2>2. CASE g # <<>> /\ walk.cursor = g[Len(g)]
    <3>1. g \in Seq(Msg) /\ walk.conv \in Conv
      BY <1>1 DEF Walker
    <3> HIDE DEF g
    <3>2. Len(g) \in DOMAIN g
      BY <2>2, <3>1, LenProperties, EmptySeq
    <3>3. g[Len(g)] \in log[walk.conv] /\ log[walk.conv] \subseteq Msg
      BY <1>1, <3>1, <3>2 DEF HistoryInv, TypeOK, g
    <3> QED BY <2>2, <3>2, <3>3, NoneAssumption
  <2> QED BY <1>1, <2>1, <2>2 DEF HistoryInv
<1>3. Paged(walk)
  <2>1. walk.limit \in PageSize /\ walk.conv \in Conv /\ walk.desc \in BOOLEAN
    BY <1>1 DEF Walker
  <2>2. walk.limit \in Nat \ {0}
    BY <2>1, StorageAssumption
  <2> QED BY <1>2, <2>1, <2>2 DEF Paged
<1>4. /\ PageIn(P, d, page)
      /\ PageFirst(P, d, page)
      /\ ~(d /\ backend = "dynamodb") /\ ~cut => PageCovers(P, d, page)
      /\ P \subseteq log[walk.conv] /\ P \subseteq Msg
  BY <1>3, <1>22, PageSound, PastMsgs
<1>5. walk' = [walk EXCEPT !.got = new, !.cursor = page.next, !.cut = @ \/ cut,
                           !.done = page.next = None]
      /\ log' = log /\ backend' = backend /\ cut \in BOOLEAN
  BY <1>0 DEF HistoryPage, Cut
<1>6. /\ g \in Seq(Msg) /\ page.messages \in Seq(P) /\ walk.base \in SUBSET Msg
      /\ Rises(d, g) /\ \A i \in DOMAIN g : g[i] \in log[walk.conv]
      /\ walk.base \subseteq log[walk.conv]
  BY <1>1, <1>4 DEF Walker, PageIn, HistoryInv
<1> DEFINE msgs == page.messages
           next == page.next
<1>7. msgs \in Seq(P) /\ Rises(d, msgs)
      /\ (next = None \/ (msgs # <<>> /\ next = msgs[Len(msgs)]))
  BY <1>4 DEF PageIn
<1>8. /\ walk'.got = g \o msgs /\ walk'.cursor = next /\ walk'.done = (next = None)
      /\ walk'.kind = walk.kind /\ walk'.conv = walk.conv /\ walk'.desc = d
      /\ walk'.limit = walk.limit /\ walk'.base = walk.base
      /\ walk'.cut = (walk.cut \/ cut) /\ walk.cut \in BOOLEAN
  <2> HIDE DEF page, g, cut
  <2> QED BY <1>1, <1>5 DEF Walker
<1>9. \A x \in P : \A i \in DOMAIN g : InOrder(d, g[i], x)
  <2> SUFFICES ASSUME NEW x \in P, NEW i \in DOMAIN g PROVE InOrder(d, g[i], x)
    OBVIOUS
  <2>1. g # <<>>
    BY <1>6
  <2>2. walk.cursor = g[Len(g)] /\ walk.cursor # None /\ Len(g) \in DOMAIN g
    BY <1>2, <2>1
  <2>3. InOrder(d, walk.cursor, x)
    BY <2>2 DEF Past
  <2>4. CASE i = Len(g)
    BY <2>2, <2>3, <2>4
  <2>5. CASE i # Len(g)
    <3>1. i < Len(g)
      BY <1>6, <2>5, LenProperties
    <3>2. InOrder(d, g[i], walk.cursor)
      BY <1>6, <2>2, <3>1 DEF Rises
    <3>3. g[i] \in Nat /\ walk.cursor \in Nat /\ x \in Nat
      <4>1. \A m \in Msg : m \in Nat
        BY StorageAssumption DEF Msg
      <4> HIDE DEF g
      <4> QED BY <1>4, <1>6, <2>2, <4>1, LenProperties, ElementOfSeq
    <3> QED BY <2>3, <3>2, <3>3 DEF InOrder
  <2> QED BY <2>4, <2>5
<1> HIDE DEF page, g, d, P, msgs, next, cut
<1>10. /\ Len(g) \in Nat /\ Len(msgs) \in Nat /\ DOMAIN g = 1 .. Len(g)
       /\ DOMAIN msgs = 1 .. Len(msgs) /\ \A i \in DOMAIN msgs : msgs[i] \in P
  BY <1>6, <1>7, LenProperties, ElementOfSeq
<1>11. msgs \in Seq(Msg)
  <2>1. msgs \in [1 .. Len(msgs) -> Msg]
    BY <1>4, <1>7, <1>10
  <2> QED BY <1>10, <2>1, SeqDef
<1> DEFINE all == g \o msgs
<1>12. /\ all \in Seq(Msg) /\ Len(all) = Len(g) + Len(msgs)
       /\ \A i \in 1 .. Len(g) : all[i] = g[i]
       /\ \A i \in 1 .. Len(all) : i > Len(g) => all[i] = msgs[i - Len(g)]
  BY <1>6, <1>10, <1>11, ConcatProperties
<1> HIDE DEF all
<1>13. DOMAIN all = 1 .. Len(all) /\ Len(all) \in Nat
  BY <1>12, LenProperties
<1>14. ASSUME NEW i \in DOMAIN all
       PROVE  \/ i \in DOMAIN g /\ all[i] = g[i]
              \/ /\ i > Len(g) /\ i - Len(g) \in DOMAIN msgs
                 /\ all[i] = msgs[i - Len(g)]
  <2>1. i \in Nat /\ 1 <= i /\ i <= Len(g) + Len(msgs)
    BY <1>10, <1>12, <1>13
  <2>2. CASE i <= Len(g)
    BY <1>10, <1>12, <2>1, <2>2
  <2>3. CASE ~(i <= Len(g))
    <3>1. i > Len(g) /\ i - Len(g) \in 1 .. Len(msgs)
      BY <1>10, <2>1, <2>3
    <3> QED BY <1>10, <1>12, <1>13, <3>1
  <2> QED BY <2>2, <2>3
<1>15. Rises(d, all)
  <2> SUFFICES ASSUME NEW i \in DOMAIN all, NEW j \in DOMAIN all, i < j
               PROVE  InOrder(d, all[i], all[j])
    BY DEF Rises
  <2>0. i \in Nat /\ j \in Nat
    BY <1>13
  <2>1. CASE i \in DOMAIN g /\ all[i] = g[i] /\ j \in DOMAIN g /\ all[j] = g[j]
    BY <1>6, <2>1 DEF Rises
  <2>2. CASE i \in DOMAIN g /\ all[i] = g[i] /\ j - Len(g) \in DOMAIN msgs /\ all[j] = msgs[j - Len(g)]
    BY <1>9, <1>10, <2>2
  <2>3. CASE /\ i > Len(g) /\ i - Len(g) \in DOMAIN msgs /\ all[i] = msgs[i - Len(g)]
             /\ j - Len(g) \in DOMAIN msgs /\ all[j] = msgs[j - Len(g)]
    <3>1. i - Len(g) < j - Len(g)
      BY <1>10, <2>0
    <3> QED BY <1>7, <2>3, <3>1 DEF Rises
  <2>4. ~(i > Len(g) /\ j \in DOMAIN g)
    BY <1>10, <2>0
  <2> QED BY <1>14, <2>1, <2>2, <2>3, <2>4
<1>16. \A i \in DOMAIN all : all[i] \in log[walk.conv]
  BY <1>4, <1>6, <1>10, <1>14
<1>17. next # None => all # <<>> /\ next = all[Len(all)] /\ next \in Msg
  <2> SUFFICES ASSUME next # None
               PROVE  all # <<>> /\ next = all[Len(all)] /\ next \in Msg
    OBVIOUS
  <2>1. msgs # <<>> /\ next = msgs[Len(msgs)]
    BY <1>7
  <2>2. Len(msgs) > 0
    BY <1>7, <1>10, <2>1, EmptySeq
  <2>3. Len(all) \in 1 .. Len(all) /\ Len(all) > Len(g) /\ Len(all) - Len(g) = Len(msgs)
    BY <1>10, <1>12, <2>2
  <2>4. next = all[Len(all)]
    BY <1>12, <2>1, <2>3
  <2>5. all # <<>> /\ Len(msgs) \in DOMAIN msgs
    BY <1>10, <2>2, <2>3, EmptySeq
  <2> QED BY <1>4, <1>10, <2>1, <2>4, <2>5
<1>18. /\ \A x : Has(g, x) => Has(all, x)
       /\ \A x : Has(msgs, x) => Has(all, x)
  <2>1. ASSUME NEW x, Has(g, x) PROVE Has(all, x)
    <3>1. PICK i \in DOMAIN g : g[i] = x
      BY <2>1 DEF Has
    <3>2. i \in DOMAIN all /\ all[i] = x
      BY <1>10, <1>12, <1>13, <3>1
    <3> QED BY <3>2 DEF Has
  <2>2. ASSUME NEW x, Has(msgs, x) PROVE Has(all, x)
    <3>1. PICK i \in DOMAIN msgs : msgs[i] = x
      BY <2>2 DEF Has
    <3>2. Len(g) + i \in 1 .. Len(all) /\ Len(g) + i > Len(g) /\ Len(g) + i - Len(g) = i
      BY <1>10, <1>12, <1>13, <3>1
    <3>3. all[Len(g) + i] = msgs[i]
      BY <1>12, <3>2
    <3> QED BY <1>13, <3>1, <3>2, <3>3 DEF Has
  <2> QED BY <2>1, <2>2
<1>23. ASSUME NEW m \in walk.base
       PROVE  Has(all, m) \/ \A i \in DOMAIN all : InOrder(d, all[i], m)
  <2>1. CASE Has(g, m)
    BY <1>18, <2>1
  <2>2. CASE ~Has(g, m)
    <3>1. \A i \in DOMAIN g : InOrder(d, g[i], m)
      BY <1>1, <1>23, <2>2 DEF HistoryInv, g, d
    <3>2. m \in P
      BY <1>2, <1>6, <1>23, <3>1 DEF Past, P, d
    <3>3. Has(msgs, m) \/ \A i \in DOMAIN msgs : InOrder(d, msgs[i], m)
      BY <1>4, <3>2 DEF PageFirst, msgs
    <3> QED BY <1>14, <1>18, <3>1, <3>3
  <2> QED BY <2>1, <2>2
<1>19. ASSUME ~(d /\ backend = "dynamodb"), ~walk.cut, ~cut, NEW m \in walk.base
       PROVE  Has(all, m) \/ (next # None /\ InOrder(d, next, m))
  <2>1. CASE Has(g, m)
    BY <1>18, <2>1
  <2>2. CASE ~Has(g, m)
    <3>1. m \in P
      BY <1>1, <1>6, <1>19, <2>2 DEF HistoryInv, Ahead, Past, P, g, d
    <3> QED BY <1>4, <1>18, <1>19, <3>1 DEF PageCovers, msgs, next
  <2> QED BY <2>1, <2>2
<1>20. walk' \in Walker
  <2>1. next \in Msg \cup {None} /\ (next = None) \in BOOLEAN
    BY <1>17
  <2>2. walk' = [walk EXCEPT !.got = all, !.cursor = next, !.cut = @ \/ cut,
                             !.done = next = None]
    BY <1>5 DEF all, msgs, next
  <2>3. (walk.cut \/ cut) \in BOOLEAN
    BY <1>5, <1>8
  <2> QED BY <1>1, <1>12, <2>1, <2>2, <2>3 DEF Walker
<1>21. HistoryInv'
  <2>1. walk'.got = all
    BY <1>8 DEF all
  <2>2. (~walk.done)' =>
           \/ walk'.cursor = None /\ walk'.got = <<>>
           \/ walk'.got # <<>> /\ walk'.cursor = walk'.got[Len(walk'.got)]
    BY <1>8, <1>17, <2>1
  <2>5. \A m \in walk'.base :
          Has(walk'.got, m) \/ \A i \in DOMAIN walk'.got : InOrder(walk'.desc, walk'.got[i], m)
    BY <1>8, <1>23, <2>1
  <2>3. ~(walk'.desc /\ backend' = "dynamodb") /\ ~walk'.cut =>
          \A m \in walk'.base : Has(walk'.got, m) \/ (~walk'.done /\ (walk'.cursor = None \/ InOrder(walk'.desc, walk'.cursor, m)))
    BY <1>5, <1>8, <1>19, <2>1
  <2>4. /\ walk'.base \subseteq log'[walk'.conv] /\ Rises(walk'.desc, walk'.got)
        /\ \A i \in DOMAIN walk'.got : walk'.got[i] \in log'[walk'.conv]
    BY <1>5, <1>6, <1>8, <1>15, <1>16, <2>1
  <2> QED BY <1>20, <2>2, <2>3, <2>4, <2>5 DEF HistoryInv, Ahead, Has, Rises, InOrder
<1> QED BY <1>21

-----------------------------------------------------------------------------
(* Storage: the sidebar.                                                   *)

Pager == [kind : {"sidebar"}, search : BOOLEAN, limit : PageSize,
          after : Listing \cup {None}, listed : (SUBSET Listing) \cup {None},
          got : Seq(Conv), touched : SUBSET RowId, base : SUBSET Conv,
          cut : BOOLEAN, done : BOOLEAN]
Paging == walk # None /\ walk.kind = "sidebar"

\* A conversation the walk began with and nothing wrote since is still shown, and
\* was returned or is ahead of the position, in the listing if one was taken.
Kept(c) ==
  /\ Exists(c) /\ Shown(walk.search, c, row[c].name)
  /\ \/ Has(walk.got, c)
     \/ /\ ~walk.done /\ admits_position(walk.after, ListedRow(c))
        /\ walk.listed # None => ListedRow(c) \in walk.listed
NoneSkipped ==
  /\ ~walk.cut => \A c \in walk.base \ walk.touched : Kept(c)
  /\ walk.listed # None => \A a, b \in walk.listed : a.id = b.id => a = b

\* In memory a row only moves up: a conversation that was returned is behind the
\* position for good, as it is in any listing.
Behind(e) == walk.after # None /\ ~precedes(walk.after, e)
NoneTwice ==
  /\ Distinct(walk.got)
  /\ ~walk.done =>
       /\ \A c \in Conv : Has(walk.got, c) => Exists(c) /\ Behind(ListedRow(c))
       /\ walk.listed # None =>
            \A e \in walk.listed : /\ Exists(e.id) /\ e.updated <= row[e.id].updated
                                   /\ Has(walk.got, e.id) => Behind(e)

\* The inductive invariant behind HistoryWalk and SidebarWalk.
WalkInv ==
  /\ walk = None \/ walk \in Walker \/ walk \in Pager
  /\ HistoryInv
  /\ Paging => NoneSkipped
  /\ Paging /\ backend = "memory" => NoneTwice
  /\ backend = "memory" => \A c \in Conv : Exists(c) => row[c].updated <= now

\* A listing has one row of each conversation, so newest first is a total order.
LEMMA NewestOrder ==
  ASSUME NEW S, S \subseteq Listing, \A a, b \in S : a.id = b.id => a = b
  PROVE  LET R == {p \in S \X S : precedes(p[1], p[2])}
         IN  /\ IsFiniteSet(S)
             /\ \A a, b \in S : <<a, b>> \in R <=> precedes(a, b)
             /\ \A a \in S : <<a, a>> \notin R
             /\ \A a, b, c \in S : <<a, b>> \in R /\ <<b, c>> \in R => <<a, c>> \in R
             /\ \A a, b \in S : a = b \/ <<a, b>> \in R \/ <<b, a>> \in R
<1> DEFINE R == {p \in S \X S : precedes(p[1], p[2])}
           f == [e \in S |-> e.id]
<1>1. \A a \in S : a.id \in Nat /\ a.updated \in Nat /\ a.id \in Conv
  BY StorageAssumption DEF Listing, Conv
<1>2. \A a, b \in S : <<a, b>> \in R <=> precedes(a, b)
  OBVIOUS
<1>3. IsFiniteSet(S)
  <2>1. f \in Injection(S, Conv)
    BY <1>1 DEF Injection, IsInjective
  <2>2. MaxConv \in Int /\ 1 \in Int
    BY StorageAssumption
  <2>3. IsFiniteSet(Conv)
    BY <2>2, FS_Interval DEF Conv
  <2> HIDE DEF f
  <2> QED BY <2>1, <2>3, FS_Injection
<1> HIDE DEF R
<1>4. \A a \in S : <<a, a>> \notin R
  BY <1>1, <1>2 DEF precedes
<1>5. \A a, b, c \in S : <<a, b>> \in R /\ <<b, c>> \in R => <<a, c>> \in R
  BY <1>1, <1>2 DEF precedes
<1>6. ASSUME NEW a \in S, NEW b \in S PROVE a = b \/ <<a, b>> \in R \/ <<b, a>> \in R
  <2>1. a = b \/ a.id < b.id \/ b.id < a.id
    BY <1>1
  <2>2. a = b \/ precedes(a, b) \/ precedes(b, a)
    BY <1>1, <2>1 DEF precedes
  <2> QED BY <1>2, <2>2
<1> QED BY <1>2, <1>3, <1>4, <1>5, <1>6 DEF R

\* A page of the sidebar: rows of the set, newest first; the rows it leaves out are
\* past its last one, which is then the position.
LEMMA SidebarRows ==
  ASSUME NEW S, S \subseteq Listing, \A a, b \in S : a.id = b.id => a = b,
         NEW limit \in Nat \ {0}
  PROVE  LET rs == Take(NewestFirst(S), limit + 1)
             page == Take(rs, limit)
             more == Len(rs) > limit
         IN  /\ page \in Seq(S) /\ Len(page) \in Nat /\ DOMAIN page = 1 .. Len(page)
             /\ \A i, j \in DOMAIN page : i < j => precedes(page[i], page[j])
             /\ more => Len(page) \in DOMAIN page
             /\ \A e \in S : Has(page, e) \/ (more /\ precedes(page[Len(page)], e))
<1> DEFINE R == {p \in S \X S : precedes(p[1], p[2])}
           rs == Take(Sorted(S, R), limit + 1)
           page == Take(rs, limit)
           more == Len(rs) > limit
           k == IF limit < Len(rs) THEN limit ELSE Len(rs)
<1>1. /\ IsFiniteSet(S)
      /\ \A a, b \in S : <<a, b>> \in R <=> precedes(a, b)
      /\ \A a \in S : <<a, a>> \notin R
      /\ \A a, b, c \in S : <<a, b>> \in R /\ <<b, c>> \in R => <<a, c>> \in R
      /\ \A a, b \in S : a = b \/ <<a, b>> \in R \/ <<b, a>> \in R
  BY NewestOrder
<1>2. NewestFirst(S) = Sorted(S, R)
  BY DEF NewestFirst
<1>3. limit + 1 \in Nat /\ limit \in Nat /\ limit >= 1
  OBVIOUS
<1> HIDE DEF R
<1>4. /\ rs \in Seq(S) /\ Len(rs) \in Nat /\ DOMAIN rs = 1 .. Len(rs)
      /\ \A i, j \in DOMAIN rs : i < j => <<rs[i], rs[j]>> \in R
      /\ \A x \in S : \/ Has(rs, x)
                      \/ /\ Len(rs) = limit + 1
                         /\ \A i \in DOMAIN rs : <<rs[i], x>> \in R
  BY <1>1, <1>3, FirstSorted
<1> HIDE DEF rs
<1>12. Len(rs) \in Nat /\ DOMAIN rs = 1 .. Len(rs)
  BY <1>4
<1>5. /\ page \in Seq(S) /\ Len(page) = k /\ \A i \in 1 .. Len(page) : page[i] = rs[i]
  BY <1>3, <1>4, TakeFirst
<1>6. k \in Nat /\ k <= Len(rs) /\ (more => k = limit) /\ (~more => k = Len(rs))
  <2> DEFINE a == Len(rs)
  <2>1. a \in Nat
    BY <1>4
  <2> HIDE DEF a
  <2> QED BY <1>3, <2>1 DEF a
<1> HIDE DEF page, k
<1>7. DOMAIN page = 1 .. Len(page) /\ Len(page) \in Nat
  BY <1>5, LenProperties
<1>8. \A i \in DOMAIN page : i \in DOMAIN rs /\ page[i] = rs[i] /\ page[i] \in S
  <2> SUFFICES ASSUME NEW i \in DOMAIN page
               PROVE  i \in DOMAIN rs /\ page[i] = rs[i] /\ page[i] \in S
    OBVIOUS
  <2>1. i \in 1 .. Len(page) /\ Len(page) <= Len(rs) /\ Len(rs) \in Nat
    BY <1>4, <1>5, <1>6, <1>7
  <2>2. i \in DOMAIN rs
    BY <1>12, <2>1
  <2>3. page[i] \in S
    BY <1>5, <2>1, ElementOfSeq
  <2> QED BY <1>5, <2>1, <2>2, <2>3
<1>9. \A i, j \in DOMAIN page : i < j => precedes(page[i], page[j])
  BY <1>1, <1>4, <1>8
<1>10. more => Len(page) \in DOMAIN page
  BY <1>3, <1>5, <1>6, <1>7
<1>11. ASSUME NEW e \in S
       PROVE  Has(page, e) \/ (more /\ precedes(page[Len(page)], e))
  <2>1. CASE Has(rs, e)
    <3>1. PICK i \in DOMAIN rs : rs[i] = e
      BY <2>1 DEF Has
    <3>2. i \in Nat /\ 1 <= i /\ i <= Len(rs)
      BY <1>12, <3>1
    <3>3. CASE i <= Len(page)
      <4>1. i \in DOMAIN page
        BY <1>7, <3>2, <3>3
      <4> QED BY <1>8, <3>1, <4>1 DEF Has
    <3>4. CASE ~(i <= Len(page))
      <4>1. k < i /\ k \in Nat
        BY <1>5, <1>6, <3>2, <3>4
      <4>2. more
        <5>0. Len(rs) \in Nat
          BY <1>12
        <5>1. k # Len(rs)
          <6> DEFINE a == Len(rs)
          <6> HIDE DEF a
          <6>1. a \in Nat /\ i \in Nat /\ k \in Nat /\ k < i /\ i <= a
            BY <3>2, <4>1, <5>0 DEF a
          <6>2. k # a
            BY <6>1
          <6> QED BY <6>2 DEF a
        <5> QED BY <1>6, <5>1
      <4>3. Len(page) \in DOMAIN page /\ Len(page) < i
        BY <1>5, <1>10, <4>1, <4>2
      <4>4. <<page[Len(page)], e>> \in R /\ page[Len(page)] \in S
        BY <1>4, <1>8, <3>1, <4>3
      <4> QED BY <1>1, <4>2, <4>4
    <3> QED BY <3>3, <3>4
  <2>2. CASE ~Has(rs, e)
    <3>3. Len(rs) = limit + 1 /\ \A i \in DOMAIN rs : <<rs[i], e>> \in R
      BY <1>4, <2>2
    <3>1. more /\ \A i \in DOMAIN rs : <<rs[i], e>> \in R
      BY <1>3, <3>3
    <3> HIDE DEF more
    <3>2. <<page[Len(page)], e>> \in R /\ page[Len(page)] \in S
      BY <1>8, <1>10, <3>1
    <3> QED BY <1>1, <3>1, <3>2
  <2> QED BY <2>1, <2>2
<1> QED BY <1>2, <1>5, <1>7, <1>9, <1>10, <1>11 DEF page, rs

\* What a write does to the reader: it is told of the rows that may have changed.
\* Messages and owners only come, and in memory a row takes the time of the clock.
Wrote(ids) ==
  /\ backend' = backend /\ owned \subseteq owned'
  /\ \A c \in Conv : log[c] \subseteq log'[c] /\ (Exists(c) => row'[c] # None)
  /\ \A c \in Conv \ ids : row'[c] = row[c] /\ log'[c] = log[c]
  /\ walk' = IF Paging THEN [walk EXCEPT !.touched = @ \cup ids] ELSE walk
  /\ backend = "memory" =>
       \A c \in Conv : /\ row'[c] # None => row'[c].updated <= now'
                       /\ Exists(c) => row[c].updated <= row'[c].updated

\* Every step that is not the reader's is such a write.
LEMMA WriteSteps ==
  ASSUME RowsInv, WalkInv, Next, ~Reads
  PROVE  \E ids \in SUBSET RowId : Wrote(ids)
<1> USE StorageAssumption
<1>1. /\ TypeOK /\ CallsFit
      /\ backend = "memory" => \A c \in Conv : Exists(c) => row[c].updated <= now
      /\ \A c \in Conv : Exists(c) => row[c] \in Row /\ row[c].updated \in Nat
      /\ now \in Nat /\ Conv \subseteq RowId /\ Sess \in RowId /\ Sess \notin Conv
  <2>1. \A c \in Conv : Exists(c) => row[c] \in Row /\ row[c].updated \in Nat
    BY DEF RowsInv, TypeOK, Exists, RowId, Row
  <2> QED BY <2>1 DEF RowsInv, WalkInv, TypeOK, RowId, Sess, Conv
<1>2. Paging => walk = [walk EXCEPT !.touched = @ \cup {}]
  BY DEF WalkInv, Paging, Pager, Walker
<1>3. ASSUME row' = row, log' = log, owned \subseteq owned', backend' = backend,
             now' >= now, now' \in Nat, walk' = walk
      PROVE  Wrote({})
  BY <1>1, <1>2, <1>3 DEF Wrote, Exists
<1>4. ASSUME NEW id, Touch(id)
      PROVE  walk' = IF Paging THEN [walk EXCEPT !.touched = @ \cup {id}] ELSE walk
  BY <1>4 DEF Touch, Paging
<1>5. \A k \in Client : op[k] # None => backend # "memory" /\ op[k] \in Call
  BY <1>1 DEF CallsFit, Fits, TypeOK, OrNone
<1>6. CASE Tick
  <2>1. Wrote({})
    BY <1>1, <1>3, <1>6 DEF Tick
  <2> QED BY <2>1
<1>7. ASSUME NEW id \in Conv, NEW key \in Key, CreateLocked(id, key) \/ CreateRow(id, key)
      PROVE  Wrote({id})
  <2>1. row' = row \/ row' = [row EXCEPT ![id] = NewRow(key)]
    BY <1>7 DEF CreateLocked, CreateRow, StoreOnce
  <2>2. NewRow(key) \in Row /\ NewRow(key) # None /\ NewRow(key).updated = now
    BY <1>1, NewRowTyped DEF NewRow
  <2>3. backend' = backend /\ owned' = owned /\ log' = log /\ now' = now /\ Touch(id)
    BY <1>7 DEF CreateLocked, CreateRow
  <2>4. \A c \in Conv : row'[c] = row[c] \/ (c = id /\ row'[c] = NewRow(key))
    BY <1>1, <2>1 DEF TypeOK
  <2>5. backend = "memory" => \A c \in Conv : /\ row'[c] # None => row'[c].updated <= now'
                                              /\ Exists(c) => row[c].updated <= row'[c].updated
    BY <1>1, <2>2, <2>3, <2>4 DEF Exists
  <2> QED BY <1>4, <2>2, <2>3, <2>4, <2>5 DEF Wrote, Exists
<1>8. ASSUME NewSession PROVE Wrote({})
  <2>1. \A c \in Conv : row'[c] = row[c]
    BY <1>1, <1>8 DEF NewSession, TypeOK
  <2>2. backend' = backend /\ owned' = owned /\ log' = log /\ now' = now /\ walk' = walk
    BY <1>8 DEF NewSession
  <2> QED BY <1>1, <1>2, <2>1, <2>2 DEF Wrote, Exists
<1>9. ASSUME NEW id \in RowId, NEW f \in Field, UpdateInPlace(id, f) PROVE Wrote({id})
  <2>1. row' = [row EXCEPT ![id] = Patched(row[id], f, now)] /\ Exists(id)
    BY <1>9 DEF UpdateInPlace
  <2>2. row[id] \in Row
    BY <1>1, <2>1 DEF TypeOK, Exists
  <2>3. Patched(row[id], f, now) \in Row /\ Patched(row[id], f, now).updated = now
    <3>1. now \in 0 .. MaxTime
      BY <1>1 DEF TypeOK
    <3>2. Patched(row[id], f, now) \in Row
      BY <2>2, <3>1, PatchedRow
    <3> QED BY <2>2, <3>2 DEF Patched, Row, Field
  <2>4. backend' = backend /\ owned' = owned /\ log' = log /\ now' = now /\ Touch(id)
    BY <1>9 DEF UpdateInPlace
  <2>5. \A c \in Conv : row'[c] = row[c] \/ (c = id /\ row'[c] = Patched(row[id], f, now))
    BY <1>1, <2>1 DEF TypeOK
  <2>6. backend = "memory" => \A c \in Conv : /\ row'[c] # None => row'[c].updated <= now'
                                              /\ Exists(c) => row[c].updated <= row'[c].updated
    BY <1>1, <2>3, <2>4, <2>5 DEF Exists
  <2>7. Patched(row[id], f, now) # None
    BY <2>3, NoneAssumption
  <2> QED BY <1>4, <2>4, <2>5, <2>6, <2>7 DEF Wrote, Exists
<1>10. ASSUME NEW c \in Conv, NewOwner(c) PROVE Wrote({})
  BY <1>1, <1>3, <1>10 DEF NewOwner
<1>11. ASSUME NEW c \in Conv, NEW m, log' = [log EXCEPT ![c] = @ \cup {m}], Touch(c),
              backend' = backend, owned' = owned, row' = row, now' = now
       PROVE  Wrote({c})
  <2>1. \A d \in Conv : log[d] \subseteq log'[d] /\ (d # c => log'[d] = log[d])
    BY <1>1, <1>11 DEF TypeOK
  <2> QED BY <1>1, <1>4, <1>11, <2>1 DEF Wrote, Exists
<1>12. ASSUME NEW id \in RowId, NEW r \in Row, backend # "memory", Touch(id),
              row' = [row EXCEPT ![id] = r],
              backend' = backend, owned' = owned, log' = log
       PROVE  Wrote({id})
  <2>1. \A c \in Conv : row'[c] = row[c] \/ (c = id /\ row'[c] = r)
    BY <1>1, <1>12 DEF TypeOK
  <2>2. r # None
    BY NoneAssumption
  <2> QED BY <1>1, <1>4, <1>12, <2>1, <2>2 DEF Wrote, Exists
<1>13. ASSUME NEW k \in Client, PutItem(k) PROVE \E ids \in SUBSET RowId : Wrote(ids)
  <2>1. op[k] # None /\ op[k].id \in Conv /\ op[k].row \in Row
    BY <1>5, <1>13 DEF PutItem, Goes, Call
  <2>2. CASE row' = [row EXCEPT ![op[k].id] = op[k].row] /\ Touch(op[k].id)
    <3>1. Wrote({op[k].id})
      BY <1>1, <1>5, <1>12, <1>13, <2>1, <2>2 DEF PutItem
    <3> QED BY <1>1, <2>1, <3>1
  <2>3. CASE UNCHANGED <<row, answered, walk>>
    <3>1. Wrote({})
      BY <1>1, <1>3, <1>13, <2>3 DEF PutItem
    <3> QED BY <3>1
  <2> QED BY <1>13, <2>2, <2>3 DEF PutItem
<1>14. ASSUME NEW k \in Client, ApplyUpdate(k) PROVE \E ids \in SUBSET RowId : Wrote(ids)
  <2> DEFINE o == op[k]
  <2>1. o # None /\ o.id \in RowId /\ o.field \in Field /\ o.at \in 0 .. MaxTime /\ Exists(o.id)
    BY <1>1, <1>5, <1>14 DEF ApplyUpdate, Goes, Call, CallsFit, Fits
  <2>2. Patched(row[o.id], o.field, o.at) \in Row
    BY <1>1, <2>1, PatchedRow DEF TypeOK, Exists
  <2>3. CASE row' = [row EXCEPT ![o.id] = Patched(row[o.id], o.field, o.at)] /\ Touch(o.id)
    <3>1. Wrote({o.id})
      BY <1>5, <1>12, <1>14, <2>1, <2>2, <2>3 DEF ApplyUpdate
    <3> QED BY <2>1, <3>1
  <2>4. CASE UNCHANGED <<row, acked, walk>>
    <3>1. Wrote({})
      BY <1>1, <1>3, <1>14, <2>4 DEF ApplyUpdate
    <3> QED BY <3>1
  <2> QED BY <1>14, <2>3, <2>4 DEF ApplyUpdate
<1>15. ASSUME NEW k \in Client, PutRow(k) PROVE \E ids \in SUBSET RowId : Wrote(ids)
  <2>1. op[k] # None /\ op[k].id \in RowId /\ op[k].row \in Row
    BY <1>5, <1>15 DEF PutRow, Goes, Call
  <2>2. CASE row' = [row EXCEPT ![op[k].id] = op[k].row] /\ Touch(op[k].id)
    <3>1. Wrote({op[k].id})
      BY <1>5, <1>12, <1>15, <2>1, <2>2 DEF PutRow
    <3> QED BY <2>1, <3>1
  <2>3. CASE UNCHANGED <<row, acked, walk>>
    <3>1. Wrote({})
      BY <1>1, <1>3, <1>15, <2>3 DEF PutRow
    <3> QED BY <3>1
  <2> QED BY <1>15, <2>2, <2>3 DEF PutRow
<1>16. ASSUME NEW k \in Client, Lands(k) PROVE \E ids \in SUBSET RowId : Wrote(ids)
  <2>1. op[k] # None /\ op[k].id \in Conv
    BY <1>5, <1>16 DEF Lands, Goes, Call
  <2>2. CASE log' = [log EXCEPT ![op[k].id] = @ \cup {op[k].seq}] /\ Touch(op[k].id)
    <3>1. Wrote({op[k].id})
      BY <1>11, <1>16, <2>1, <2>2 DEF Lands
    <3> QED BY <1>1, <2>1, <3>1
  <2>3. CASE UNCHANGED <<log, walk>>
    <3>1. Wrote({})
      BY <1>1, <1>3, <1>16, <2>3 DEF Lands
    <3> QED BY <3>1
  <2> QED BY <1>16, <2>2, <2>3 DEF Lands
<1>17. ASSUME UNCHANGED <<backend, now, row, owned, log, walk>> PROVE Wrote({})
  BY <1>1, <1>3, <1>17
<1>18. CASE Locked
  <2>1. ASSUME NEW id \in Conv, NEW key \in Key, CreateLocked(id, key) \/ CreateRow(id, key)
        PROVE  \E ids \in SUBSET RowId : Wrote(ids)
    BY <1>1, <1>7, <2>1
  <2>2. ASSUME NewSession PROVE \E ids \in SUBSET RowId : Wrote(ids)
    BY <1>8, <2>2
  <2>3. ASSUME NEW id \in RowId, NEW f \in Field, UpdateInPlace(id, f)
        PROVE  \E ids \in SUBSET RowId : Wrote(ids)
    BY <1>9, <2>3
  <2>4. ASSUME NEW c \in Conv, NewOwner(c) PROVE \E ids \in SUBSET RowId : Wrote(ids)
    BY <1>10, <2>4
  <2>5. ASSUME NEW c \in Conv, AppendLocked(c) PROVE \E ids \in SUBSET RowId : Wrote(ids)
    <3>1. Wrote({c})
      BY <1>11, <2>5 DEF AppendLocked
    <3> QED BY <1>1, <3>1
  <2> QED BY <1>1, <1>18, <2>1, <2>2, <2>3, <2>4, <2>5
             DEF Locked, CreateSession, InsertSession, PutSession, UpdateSession,
                 UpdateConversation, AddOwner, InsertOwner, PutOwner
<1>19. ASSUME NEW k \in Client, Step(k) PROVE \E ids \in SUBSET RowId : Wrote(ids)
  <2>1. ASSUME UNCHANGED <<backend, now, row, owned, log, walk>>
        PROVE  \E ids \in SUBSET RowId : Wrote(ids)
    BY <1>17, <2>1
  <2>2. ASSUME NEW id \in Conv, NEW key \in Key, ClaimKey(k, id, key)
        PROVE  UNCHANGED <<backend, now, row, owned, log, walk>>
    BY <2>2 DEF ClaimKey
  <2>3. ASSUME NEW id \in RowId, NEW f \in Field, Stamp(k, id, f) \/ ReadRow(k, id, f)
        PROVE  UNCHANGED <<backend, now, row, owned, log, walk>>
    BY <2>3 DEF Stamp, ReadRow
  <2>4. ASSUME NEW c \in Conv, next_message_seq(k, c)
        PROVE  UNCHANGED <<backend, now, row, owned, log, walk>>
    BY <2>4 DEF next_message_seq
  <2>5. ASSUME SyncClaim(k) PROVE UNCHANGED <<backend, now, row, owned, log, walk>>
    BY <2>5 DEF SyncClaim
  <2> QED BY <1>13, <1>14, <1>15, <1>16, <1>19, <2>1, <2>2, <2>3, <2>4, <2>5
             DEF Step, CommitMessage, PutMessage
<1> QED BY <1>6, <1>18, <1>19 DEF Next

\* A row that gains time stays behind a position.
LEMMA BehindStays ==
  ASSUME NEW p, p.updated \in Nat, p.id \in Nat, NEW e, e.updated \in Nat, e.id \in Nat,
         NEW f, f.updated \in Nat, f.id = e.id, e.updated <= f.updated, ~precedes(p, e)
  PROVE  ~precedes(p, f)
BY DEF precedes

\* The listed row of a stored conversation.
LEMMA ListedTyped ==
  ASSUME TypeOK, NEW c \in Conv, Exists(c)
  PROVE  /\ ListedRow(c) \in Listing /\ ListedRow(c).id = c /\ c \in Nat
         /\ ListedRow(c).updated = row[c].updated /\ row[c].updated \in Nat
<1>1. row[c] \in Row
  BY DEF TypeOK, Exists, RowId
<1> QED BY <1>1, StorageAssumption DEF ListedRow, Listing, Row, Conv

\* A write does not disturb the reader's walk.
LEMMA WroteKeeps ==
  ASSUME TypeOK, TypeOK', WalkInv, NEW ids \in SUBSET RowId, Wrote(ids)
  PROVE  WalkInv'
<1> USE DEF Wrote
<1>1. CASE ~Paging
  <2>1. walk' = walk
    BY <1>1
  <2>2. ~Paging'
    BY <1>1, <2>1 DEF Paging
  <2>3. HistoryInv'
    <3> SUFFICES ASSUME Walking(walk') PROVE HistoryInv'
      BY DEF HistoryInv
    <3>1. Walking(walk) /\ walk \in Walker /\ log[walk.conv] \subseteq log'[walk.conv]
      BY <2>1 DEF WalkInv, HistoryInv, Walker
    <3> QED BY <2>1, <3>1 DEF WalkInv, HistoryInv, Rises, Has, Ahead, InOrder, Walking
  <2>4. (backend = "memory" => \A c \in Conv : Exists(c) => row[c].updated <= now)'
    BY DEF Exists
  <2> QED BY <2>1, <2>2, <2>3, <2>4 DEF WalkInv
<1>2. CASE Paging
  <2>1. walk \in Pager /\ ~Walking(walk)
    BY <1>2 DEF WalkInv, Paging, Walker, Pager, Walking
  <2>2. walk' = [walk EXCEPT !.touched = @ \cup ids]
    BY <1>2
  <2>3. /\ walk' \in Pager /\ walk'.kind = "sidebar" /\ walk'.touched = walk.touched \cup ids
        /\ walk'.search = walk.search /\ walk'.limit = walk.limit /\ walk'.after = walk.after
        /\ walk'.listed = walk.listed /\ walk'.got = walk.got /\ walk'.base = walk.base
        /\ walk'.done = walk.done /\ walk'.cut = walk.cut
    BY <2>1, <2>2 DEF Pager
  <2>4. HistoryInv'
    BY <2>3 DEF HistoryInv, Walking
  <2>5. NoneSkipped'
    <3>1. ASSUME ~walk.cut, NEW c \in walk.base, c \notin walk.touched, c \notin ids
          PROVE  Kept(c)'
      <4>1. c \in Conv /\ row'[c] = row[c] /\ log'[c] = log[c] /\ owned \subseteq owned'
        BY <2>1, <3>1 DEF Pager
      <4>2. Kept(c)
        BY <1>2, <3>1 DEF WalkInv, NoneSkipped
      <4>3. Shown(walk.search, c, row[c].name)'
        BY <2>3, <4>1, <4>2 DEF Kept, Shown
      <4>4. ListedRow(c)' = ListedRow(c)
        BY <4>1 DEF ListedRow
      <4>5. Exists(c)'
        BY <4>1, <4>2 DEF Kept, Exists
      <4>6. \/ Has(walk'.got, c)
            \/ /\ ~walk'.done /\ admits_position(walk'.after, ListedRow(c)')
               /\ walk'.listed # None => ListedRow(c)' \in walk'.listed
        BY <2>3, <4>2, <4>4 DEF Kept
      <4> QED BY <4>3, <4>5, <4>6 DEF Kept, Has, admits_position, precedes
    <3>2. (~walk.cut => \A c \in walk.base \ walk.touched : Kept(c))'
      BY <2>3, <3>1
    <3>3. (walk.listed # None => \A a, b \in walk.listed : a.id = b.id => a = b)'
      BY <1>2, <2>3 DEF WalkInv, NoneSkipped
    <3> QED BY <3>2, <3>3 DEF NoneSkipped
  <2>6. ASSUME backend = "memory" PROVE NoneTwice'
    <3>1. NoneTwice
      BY <1>2, <2>6 DEF WalkInv
    <3>2. \A c \in Conv : Exists(c) => Exists(c)' /\ row[c].updated <= row'[c].updated
      BY <2>6 DEF Exists
    <3>3. Distinct(walk.got)'
      BY <2>3, <3>1 DEF NoneTwice, Distinct
    <3>4. ASSUME ~walk.done, NEW c \in Conv, Has(walk.got, c)
          PROVE  Exists(c)' /\ Behind(ListedRow(c))'
      <4>1. Exists(c) /\ Behind(ListedRow(c))
        BY <3>1, <3>4 DEF NoneTwice
      <4>2. Exists(c)' /\ row[c].updated <= row'[c].updated
        BY <3>2, <4>1
      <4>3. /\ ListedRow(c).id = c /\ c \in Nat /\ ListedRow(c).updated = row[c].updated
            /\ row[c].updated \in Nat
        BY <4>1, ListedTyped
      <4>4. /\ ListedRow(c)'.id = c /\ ListedRow(c)'.updated = row'[c].updated
            /\ row'[c].updated \in Nat
        <5>1. row'[c] \in Row
          BY <4>2 DEF TypeOK, Exists, RowId
        <5> QED BY <5>1, StorageAssumption DEF ListedRow, Row
      <4>5. walk.after.updated \in Nat /\ walk.after.id \in Nat
        BY <2>1, <4>1, StorageAssumption DEF Pager, Behind, Listing, Conv
      <4>6. ~precedes(walk.after, ListedRow(c)')
        BY <4>1, <4>2, <4>3, <4>4, <4>5, BehindStays DEF Behind
      <4> QED BY <2>3, <4>1, <4>2, <4>6 DEF Behind, precedes
    <3>5. ASSUME ~walk.done, walk.listed # None, NEW e \in walk.listed
          PROVE  /\ Exists(e.id)' /\ e.updated <= row'[e.id].updated
                 /\ Has(walk'.got, e.id) => Behind(e)'
      <4>1. e \in Listing
        BY <2>1, <3>5 DEF Pager
      <4>2. Exists(e.id) /\ e.updated <= row[e.id].updated /\ (Has(walk.got, e.id) => Behind(e))
        BY <3>1, <3>5 DEF NoneTwice
      <4>3. e.id \in Conv /\ e.updated \in Nat
        BY <4>1 DEF Listing
      <4>4. Exists(e.id)' /\ row[e.id].updated <= row'[e.id].updated
        BY <3>2, <4>2, <4>3
      <4>5. row[e.id].updated \in Nat
        BY <4>2, <4>3, ListedTyped
      <4>6. row'[e.id].updated \in Nat
        <5>1. row'[e.id] \in Row
          BY <4>3, <4>4 DEF TypeOK, Exists, RowId
        <5> QED BY <5>1 DEF Row
      <4>7. e.updated <= row'[e.id].updated
        BY <4>2, <4>3, <4>4, <4>5, <4>6
      <4> QED BY <2>3, <4>2, <4>4, <4>7 DEF Behind
    <3> QED BY <2>3, <3>3, <3>4, <3>5 DEF NoneTwice, Has
  <2>7. (backend = "memory" => \A c \in Conv : Exists(c) => row[c].updated <= now)'
    BY DEF Exists
  <2> QED BY <2>3, <2>4, <2>5, <2>6, <2>7 DEF WalkInv
<1> QED BY <1>1, <1>2

\* A read leaves the rows, so only what it says of the walk matters.
LEMMA ReadKeeps ==
  ASSUME WalkInv, walk' \in Pager, UNCHANGED <<backend, now, row, owned, log>>,
         NoneSkipped', backend = "memory" => NoneTwice'
  PROVE  WalkInv'
<1>1. HistoryInv'
  BY DEF HistoryInv, Walking, Pager
<1>2. (backend = "memory" => \A c \in Conv : Exists(c) => row[c].updated <= now)'
  BY DEF WalkInv, Exists
<1> QED BY <1>1, <1>2 DEF WalkInv

\* A walk of the sidebar begins with what it would show.
LEMMA StartSidebarKeeps ==
  ASSUME TypeOK, WalkInv, NEW search \in BOOLEAN, NEW limit \in PageSize,
         StartSidebar(search, limit)
  PROVE  WalkInv'
<1> DEFINE shown == {c.id : c \in {d \in Listed : Shown(search, d.id, d.name)}}
<1>1. \A c \in shown : /\ c \in Conv /\ Exists(c) /\ Shown(search, c, row[c].name)
  <2> SUFFICES ASSUME NEW c \in shown
               PROVE  c \in Conv /\ Exists(c) /\ Shown(search, c, row[c].name)
    OBVIOUS
  <2>1. PICK d \in Listed : d.id = c /\ Shown(search, d.id, d.name)
    OBVIOUS
  <2>2. PICK b \in Conv : Exists(b) /\ d = ListedRow(b)
    BY <2>1 DEF Listed
  <2>3. d.id = b /\ d.name = row[b].name
    BY <2>2 DEF ListedRow
  <2> QED BY <2>1, <2>2, <2>3
<1>2. walk' = [kind |-> "sidebar", search |-> search, limit |-> limit,
               after |-> None, listed |-> None, got |-> <<>>, touched |-> {},
               base |-> shown, cut |-> FALSE, done |-> FALSE]
      /\ UNCHANGED <<backend, now, row, owned, log>>
  BY DEF StartSidebar
<1>3. shown \in SUBSET Conv
  BY <1>1
<1> HIDE DEF shown
<1>4. <<>> \in Seq(Conv)
  BY EmptySeq
<1>5. walk' \in Pager
  BY <1>2, <1>3, <1>4 DEF Pager
<1>6. NoneSkipped'
  <2>1. ASSUME NEW c \in shown PROVE Kept(c)'
    <3>1. (Exists(c) /\ Shown(walk.search, c, row[c].name))'
      BY <1>1, <1>2 DEF Exists, Shown
    <3> QED BY <1>2, <3>1 DEF Kept, admits_position
  <2> QED BY <1>2, <2>1 DEF NoneSkipped
<1>7. NoneTwice'
  BY <1>2 DEF NoneTwice, Distinct, Has
<1> QED BY <1>2, <1>5, <1>6, <1>7, ReadKeeps

\* The rows are listed as they are.
LEMMA ListRowsKeeps ==
  ASSUME TypeOK, WalkInv, ListRows
  PROVE  WalkInv'
<1>1. Paging /\ walk \in Pager /\ ~walk.done /\ NoneSkipped
  BY DEF ListRows, InSidebar, Paging, WalkInv, Walker
<1>0. PICK fits \in Fitting(MaxConv) :
        walk' = [walk EXCEPT !.listed = list_conversations_by_org(fits),
                             !.cut = @ \/ list_conversations_by_org(fits) # Listed]
  BY DEF ListRows
<1> DEFINE L == list_conversations_by_org(fits)
<1>2. /\ walk' = [walk EXCEPT !.listed = L, !.cut = @ \/ L # Listed]
      /\ UNCHANGED <<backend, now, row, owned, log>>
  BY <1>0 DEF ListRows
<1>9. L \subseteq Listed /\ (L # Listed) \in BOOLEAN
  BY DEF list_conversations_by_org
<1> HIDE DEF L
<1>3. \A e \in Listed : \E c \in Conv : Exists(c) /\ e = ListedRow(c)
  BY DEF Listed
<1>4. \A e \in Listed : /\ e \in Listing /\ e.id \in Conv /\ Exists(e.id) /\ e = ListedRow(e.id)
                        /\ e.updated = row[e.id].updated /\ e.updated \in Nat
  <2> SUFFICES ASSUME NEW e \in Listed
               PROVE  /\ e \in Listing /\ e.id \in Conv /\ Exists(e.id) /\ e = ListedRow(e.id)
                      /\ e.updated = row[e.id].updated /\ e.updated \in Nat
    OBVIOUS
  <2>1. PICK c \in Conv : Exists(c) /\ e = ListedRow(c)
    BY <1>3
  <2> QED BY <2>1, ListedTyped
<1>5. /\ walk'.got = walk.got /\ walk'.done = walk.done /\ walk'.after = walk.after
      /\ walk'.base = walk.base /\ walk'.touched = walk.touched
      /\ walk'.search = walk.search /\ walk'.listed = L
      /\ walk'.cut = (walk.cut \/ L # Listed) /\ walk.cut \in BOOLEAN
  BY <1>1, <1>2 DEF Pager
<1>6. walk' \in Pager
  <2>1. L \in SUBSET Listing
    BY <1>4, <1>9
  <2>2. (walk.cut \/ L # Listed) \in BOOLEAN
    BY <1>5
  <2> HIDE DEF Listed
  <2> QED BY <1>1, <1>2, <2>1, <2>2 DEF Pager
<1>7. NoneSkipped'
  <2>1. ASSUME ~walk.cut, L = Listed, NEW c \in walk.base, c \notin walk.touched
        PROVE  Kept(c)'
    <3>1. Kept(c) /\ c \in Conv
      BY <1>1, <2>1 DEF NoneSkipped, Pager
    <3>2. ListedRow(c) \in Listed
      BY <3>1 DEF Kept, Listed
    <3>3. ListedRow(c)' = ListedRow(c)
      BY <1>2 DEF ListedRow
    <3>4. (Exists(c) /\ Shown(walk.search, c, row[c].name))'
      BY <1>2, <1>5, <3>1 DEF Kept, Exists, Shown
    <3> QED BY <1>5, <2>1, <3>1, <3>2, <3>3, <3>4 DEF Kept, Has, admits_position, precedes
  <2>2. \A a, b \in L : a.id = b.id => a = b
    BY <1>4, <1>9
  <2> QED BY <1>5, <2>1, <2>2 DEF NoneSkipped
<1>8. ASSUME backend = "memory" PROVE NoneTwice'
  <2>1. NoneTwice
    BY <1>1, <1>8 DEF WalkInv
  <2>2. ASSUME NEW c \in Conv, Has(walk.got, c) PROVE Exists(c) /\ Behind(ListedRow(c))
    BY <1>1, <2>1, <2>2 DEF NoneTwice
  <2>3. ASSUME NEW c \in Conv, Has(walk'.got, c) PROVE (Exists(c) /\ Behind(ListedRow(c)))'
    BY <1>2, <1>5, <2>2, <2>3 DEF Exists, Behind, ListedRow, precedes
  <2>4. ASSUME NEW e \in L
        PROVE  /\ Exists(e.id)' /\ e.updated <= row'[e.id].updated
               /\ Has(walk'.got, e.id) => Behind(e)'
    <3>1. Exists(e.id)' /\ e.updated <= row'[e.id].updated
      BY <1>2, <1>4, <1>9, <2>4 DEF Exists
    <3>2. ASSUME Has(walk'.got, e.id) PROVE Behind(e)'
      <4>1. Behind(ListedRow(e.id)) /\ e = ListedRow(e.id)
        BY <1>4, <1>5, <1>9, <2>2, <2>4, <3>2
      <4>2. walk.after # None /\ ~precedes(walk.after, e)
        BY <4>1 DEF Behind
      <4> QED BY <1>5, <4>2 DEF Behind
    <3> QED BY <3>1, <3>2
  <2>5. Distinct(walk.got)'
    BY <1>5, <2>1 DEF NoneTwice, Distinct
  <2> QED BY <1>5, <2>3, <2>4, <2>5 DEF NoneTwice, Has
<1> QED BY <1>2, <1>6, <1>7, <1>8, ReadKeeps

\* A page of the sidebar is returned.
LEMMA SidebarPageKeeps ==
  ASSUME TypeOK, WalkInv, SidebarPage
  PROVE  WalkInv'
<1> DEFINE S == {c \in walk.listed : /\ admits_position(walk.after, c)
                                     /\ Shown(walk.search, c.id, c.name)}
           limit == walk.limit
           rs == Take(NewestFirst(S), limit + 1)
           page == Take(rs, limit)
           more == Len(rs) > limit
           g == walk.got
           names == [i \in DOMAIN page |-> page[i].id]
           all == g \o names
           after == IF more THEN Last(page) ELSE None
<1>1. Paging /\ walk \in Pager /\ ~walk.done /\ NoneSkipped /\ walk.listed # None
  BY DEF SidebarPage, InSidebar, Paging, WalkInv, Walker
<1>2. /\ walk' = [walk EXCEPT !.got = all, !.after = after, !.listed = None, !.done = ~more]
      /\ UNCHANGED <<backend, now, row, owned, log>>
  BY DEF SidebarPage
<1>3. /\ walk.listed \subseteq Listing /\ S \subseteq Listing /\ limit \in Nat \ {0}
      /\ \A a, b \in S : a.id = b.id => a = b
      /\ g \in Seq(Conv) /\ walk.base \subseteq Conv
  <2>1. limit \in PageSize /\ walk.listed \subseteq Listing
        /\ g \in Seq(Conv) /\ walk.base \subseteq Conv
    BY <1>1 DEF Pager
  <2>2. limit \in Nat \ {0}
    BY <2>1, StorageAssumption
  <2> QED BY <1>1, <2>1, <2>2 DEF NoneSkipped
<1>4. \A e \in S : e \in Listing /\ e.id \in Conv /\ e.updated \in Nat /\ e.id \in Nat /\ e # None
  BY <1>3, StorageAssumption, NoneAssumption DEF Listing, Conv
<1> HIDE DEF S, limit
<1>5. /\ page \in Seq(S) /\ Len(page) \in Nat /\ DOMAIN page = 1 .. Len(page)
      /\ \A i, j \in DOMAIN page : i < j => precedes(page[i], page[j])
      /\ more => Len(page) \in DOMAIN page
      /\ \A e \in S : Has(page, e) \/ (more /\ precedes(page[Len(page)], e))
  BY <1>3, SidebarRows
<1>6. after = IF more THEN page[Len(page)] ELSE None
  BY DEF Last
<1> HIDE DEF page, more, after
<1>7. \A i \in DOMAIN page : page[i] \in S
  BY <1>5, ElementOfSeq
<1>8. /\ names \in Seq(Conv) /\ Len(names) = Len(page) /\ DOMAIN names = DOMAIN page
      /\ \A i \in DOMAIN page : names[i] = page[i].id
  <2>1. names \in [1 .. Len(page) -> Conv]
    BY <1>4, <1>5, <1>7
  <2>2. names \in Seq(Conv)
    BY <1>5, <2>1, SeqDef
  <2>3. DOMAIN names = 1 .. Len(page)
    BY <1>5
  <2>4. Len(names) = Len(page)
    <3> HIDE DEF names
    <3> QED BY <1>5, <2>2, <2>3, LenProperties
  <2> QED BY <1>5, <2>2, <2>3, <2>4
<1> HIDE DEF names, g
<1>9. Len(g) \in Nat /\ DOMAIN g = 1 .. Len(g)
  BY <1>3, LenProperties
<1>10. /\ all \in Seq(Conv) /\ Len(all) = Len(g) + Len(page)
       /\ \A i \in 1 .. Len(g) : all[i] = g[i]
       /\ \A i \in 1 .. Len(all) : i > Len(g) => all[i] = names[i - Len(g)]
  <2>1. g \in Seq(Conv) /\ names \in Seq(Conv)
    BY <1>3, <1>8
  <2>2. /\ all \in Seq(Conv) /\ Len(all) = Len(g) + Len(names)
        /\ \A i \in 1 .. Len(all) :
             all[i] = IF i <= Len(g) THEN g[i] ELSE names[i - Len(g)]
    BY <2>1, ConcatProperties
  <2> HIDE DEF all
  <2>3. Len(all) = Len(g) + Len(page) /\ Len(page) \in Nat
    BY <1>5, <1>8, <2>2
  <2>4. \A i \in 1 .. Len(g) : i \in 1 .. Len(all) /\ i <= Len(g)
    BY <1>9, <2>3
  <2>5. \A i \in 1 .. Len(all) : i > Len(g) => ~(i <= Len(g))
    BY <1>9
  <2> QED BY <2>2, <2>3, <2>4, <2>5
<1> HIDE DEF all
<1>11. DOMAIN all = 1 .. Len(all) /\ Len(all) \in Nat
  BY <1>10, LenProperties
<1>12. ASSUME NEW i \in DOMAIN all
       PROVE  \/ i \in DOMAIN g /\ all[i] = g[i]
              \/ i > Len(g) /\ i - Len(g) \in DOMAIN page /\ all[i] = page[i - Len(g)].id
  <2>1. i \in Nat /\ 1 <= i /\ i <= Len(g) + Len(page)
    BY <1>10, <1>11
  <2>2. CASE i <= Len(g)
    BY <1>9, <1>10, <2>1, <2>2
  <2>3. CASE ~(i <= Len(g))
    <3>1. i > Len(g) /\ i - Len(g) \in 1 .. Len(page)
      BY <1>5, <1>9, <2>1, <2>3
    <3>2. all[i] = names[i - Len(g)]
      BY <1>10, <1>11, <3>1
    <3> QED BY <1>5, <1>8, <3>1, <3>2
  <2> QED BY <2>2, <2>3
<1>13. /\ \A x : Has(g, x) => Has(all, x)
       /\ \A e : Has(page, e) => Has(all, e.id)
  <2>1. ASSUME NEW x, Has(g, x) PROVE Has(all, x)
    <3>1. PICK i \in DOMAIN g : g[i] = x
      BY <2>1 DEF Has
    <3>2. i \in 1 .. Len(g) /\ i \in 1 .. Len(all)
      BY <1>5, <1>9, <1>10, <3>1
    <3>3. all[i] = x
      BY <1>10, <3>1, <3>2
    <3> QED BY <1>11, <3>2, <3>3 DEF Has
  <2>2. ASSUME NEW e, Has(page, e) PROVE Has(all, e.id)
    <3>1. PICK i \in DOMAIN page : page[i] = e
      BY <2>2 DEF Has
    <3>2. Len(g) + i \in 1 .. Len(all) /\ Len(g) + i > Len(g) /\ Len(g) + i - Len(g) = i
      BY <1>5, <1>9, <1>10, <3>1
    <3>3. all[Len(g) + i] = names[i]
      BY <1>10, <3>2
    <3>4. names[i] = e.id
      BY <1>8, <3>1
    <3> QED BY <1>11, <3>2, <3>3, <3>4 DEF Has
  <2> QED BY <2>1, <2>2
<1>14. ASSUME NEW x, Has(all, x)
       PROVE  Has(g, x) \/ \E i \in DOMAIN page : page[i].id = x
  BY <1>12, <1>14 DEF Has
<1>15. more => /\ after = page[Len(page)] /\ after \in S /\ after # None
               /\ after.id \in Nat /\ after.updated \in Nat
  BY <1>4, <1>5, <1>6, <1>7
<1>16. /\ walk'.got = all /\ walk'.after = after /\ walk'.listed = None /\ walk'.done = ~more
       /\ walk'.base = walk.base /\ walk'.touched = walk.touched /\ walk'.search = walk.search
       /\ walk'.cut = walk.cut
  BY <1>1, <1>2 DEF Pager
<1>17. walk' \in Pager
  <2>1. after \in Listing \cup {None}
    BY <1>4, <1>6, <1>15
  <2>2. (~more) \in BOOLEAN
    BY DEF more
  <2> QED BY <1>1, <1>2, <1>10, <2>1, <2>2 DEF Pager
<1>18. NoneSkipped'
  <2>1. ASSUME ~walk.cut, NEW c \in walk.base, c \notin walk.touched PROVE Kept(c)'
    <3>1. Kept(c) /\ c \in Conv
      BY <1>1, <1>3, <2>1 DEF NoneSkipped
    <3>2. ListedRow(c)' = ListedRow(c) /\ ListedRow(c).id = c /\ ListedRow(c).name = row[c].name
      BY <1>2 DEF ListedRow
    <3>3. (Exists(c) /\ Shown(walk.search, c, row[c].name))'
      BY <1>2, <1>16, <3>1 DEF Kept, Exists, Shown
    <3>4. Has(all, c) \/ (more /\ precedes(after, ListedRow(c)))
      <4>1. CASE Has(g, c)
        BY <1>13, <4>1
      <4>2. CASE ~Has(g, c)
        <5>1. ListedRow(c) \in S
          BY <1>1, <3>1, <3>2, <4>2 DEF Kept, S, g
        <5>2. Has(page, ListedRow(c)) \/ (more /\ precedes(page[Len(page)], ListedRow(c)))
          BY <1>5, <5>1
        <5> QED BY <1>13, <1>15, <3>2, <5>2
      <4> QED BY <4>1, <4>2
    <3>5. \/ Has(walk'.got, c)
          \/ ~walk'.done /\ admits_position(walk'.after, ListedRow(c)') /\ walk'.listed = None
      BY <1>16, <3>2, <3>4 DEF admits_position
    <3> QED BY <3>3, <3>5 DEF Kept, Has, admits_position, precedes
  <2> QED BY <1>16, <2>1 DEF NoneSkipped
<1>19. ASSUME backend = "memory" PROVE NoneTwice'
  <2>1. NoneTwice
    BY <1>1, <1>19 DEF WalkInv
  <2>2. /\ Distinct(g)
        /\ \A c \in Conv : Has(g, c) => Exists(c) /\ Behind(ListedRow(c))
        /\ \A e \in walk.listed : /\ Exists(e.id) /\ e.updated <= row[e.id].updated
                                  /\ Has(g, e.id) => Behind(e)
    BY <1>1, <2>1 DEF NoneTwice, g
  <2>3. \A e \in S : ~Has(g, e.id)
    BY <2>2 DEF S, admits_position, Behind
  <2>4. Distinct(all)
    <3> SUFFICES ASSUME NEW i \in DOMAIN all, NEW j \in DOMAIN all, i # j, all[i] = all[j]
                 PROVE  FALSE
      BY DEF Distinct
    <3>0. i \in Nat /\ j \in Nat
      BY <1>11
    <3>1. CASE i \in DOMAIN g /\ all[i] = g[i] /\ j \in DOMAIN g /\ all[j] = g[j]
      BY <2>2, <3>1 DEF Distinct
    <3>2. CASE i \in DOMAIN g /\ all[i] = g[i] /\ j - Len(g) \in DOMAIN page /\ all[j] = page[j - Len(g)].id
      BY <1>7, <2>3, <3>2 DEF Has
    <3>3. CASE j \in DOMAIN g /\ all[j] = g[j] /\ i - Len(g) \in DOMAIN page /\ all[i] = page[i - Len(g)].id
      BY <1>7, <2>3, <3>3 DEF Has
    <3>4. CASE /\ i - Len(g) \in DOMAIN page /\ all[i] = page[i - Len(g)].id
               /\ j - Len(g) \in DOMAIN page /\ all[j] = page[j - Len(g)].id
      <4> DEFINE a == i - Len(g)
                 b == j - Len(g)
      <4>1. a \in Nat /\ b \in Nat /\ (a < b \/ b < a)
        BY <1>5, <1>9, <3>0, <3>4
      <4>2. page[a] = page[b] /\ page[a] \in S
        BY <1>3, <1>7, <3>4
      <4> HIDE DEF a, b
      <4>3. precedes(page[a], page[b]) \/ precedes(page[b], page[a])
        BY <1>5, <3>4, <4>1 DEF a, b
      <4> QED BY <1>4, <4>2, <4>3 DEF precedes
    <3> QED BY <1>12, <3>1, <3>2, <3>3, <3>4
  <2>5. ASSUME more, NEW c \in Conv, Has(all, c)
        PROVE  Exists(c) /\ ~precedes(after, ListedRow(c))
    <3>1. CASE Has(g, c)
      <4>1. Exists(c) /\ walk.after # None /\ ~precedes(walk.after, ListedRow(c))
        BY <2>2, <3>1 DEF Behind
      <4>2. precedes(walk.after, after)
        BY <1>15, <2>5, <4>1 DEF S, admits_position
      <4>3. /\ ListedRow(c).id \in Nat /\ ListedRow(c).updated \in Nat
            /\ walk.after.id \in Nat /\ walk.after.updated \in Nat
        BY <1>1, <4>1, ListedTyped, StorageAssumption DEF Pager, Listing, Conv
      <4>4. ~precedes(after, ListedRow(c))
        BY <1>15, <2>5, <4>1, <4>2, <4>3 DEF precedes
      <4> QED BY <4>1, <4>4
    <3>2. CASE ~Has(g, c)
      <4>1. PICK i \in DOMAIN page : page[i].id = c
        BY <1>14, <2>5, <3>2
      <4>2. page[i] \in S /\ page[i] \in walk.listed
        BY <1>7 DEF S
      <4>3. Exists(c) /\ page[i].updated <= row[c].updated
        BY <2>2, <4>1, <4>2
      <4>4. ~precedes(after, page[i])
        <5>1. i = Len(page) \/ i < Len(page)
          BY <1>5
        <5>2. CASE i = Len(page)
          BY <1>4, <1>15, <2>5, <5>2 DEF precedes
        <5>3. CASE i < Len(page)
          <6>1. precedes(page[i], after)
            BY <1>5, <1>15, <2>5, <5>3
          <6> QED BY <1>4, <1>15, <2>5, <4>2, <6>1 DEF precedes
        <5> QED BY <5>1, <5>2, <5>3
      <4>5. /\ ListedRow(c).id = c /\ ListedRow(c).updated = row[c].updated
            /\ row[c].updated \in Nat
        BY <4>3, ListedTyped
      <4>6. ~precedes(after, ListedRow(c))
        BY <1>4, <1>15, <2>5, <4>1, <4>2, <4>3, <4>4, <4>5, BehindStays
      <4> QED BY <4>3, <4>6
    <3> QED BY <3>1, <3>2
  <2>6. ASSUME ~walk'.done, NEW c \in Conv, Has(walk'.got, c)
        PROVE  Exists(c)' /\ Behind(ListedRow(c))'
    <3>1. more /\ Exists(c) /\ ~precedes(after, ListedRow(c))
      BY <1>16, <2>5, <2>6
    <3>2. ListedRow(c)' = ListedRow(c) /\ Exists(c)'
      BY <1>2, <3>1 DEF ListedRow, Exists
    <3>3. walk'.after # None /\ ~precedes(walk'.after, ListedRow(c)')
      BY <1>15, <1>16, <3>1, <3>2
    <3> QED BY <3>2, <3>3 DEF Behind, precedes
  <2> QED BY <1>16, <2>4, <2>6 DEF NoneTwice, Distinct, Has
<1> QED BY <1>2, <1>17, <1>18, <1>19, ReadKeeps

\* A walk through a conversation begins.
LEMMA StartHistoryKeeps ==
  ASSUME TypeOK, WalkInv, NEW c \in Conv, NEW desc \in BOOLEAN, NEW limit \in PageSize,
         StartHistory(c, desc, limit)
  PROVE  WalkInv'
<1>1. walk' = [kind |-> "history", conv |-> c, desc |-> desc, limit |-> limit,
               cursor |-> None, got |-> <<>>, base |-> log[c], cut |-> FALSE,
               done |-> FALSE]
      /\ UNCHANGED <<backend, now, row, owned, log>>
  BY DEF StartHistory
<1>2. <<>> \in Seq(Msg) /\ log[c] \in SUBSET Msg
  BY EmptySeq DEF TypeOK
<1>3. walk' \in Walker /\ ~Paging'
  BY <1>1, <1>2 DEF Walker, Paging
<1>4. HistoryInv'
  <2>1. DOMAIN walk'.got = {} /\ walk'.got = <<>> /\ walk'.base = log'[walk'.conv]
        /\ walk'.cursor = None /\ ~walk'.done
    BY <1>1
  <2> QED BY <1>3, <2>1 DEF HistoryInv, Rises, Ahead
<1>5. (backend = "memory" => \A d \in Conv : Exists(d) => row[d].updated <= now)'
  BY <1>1 DEF WalkInv, Exists
<1> QED BY <1>3, <1>4, <1>5 DEF WalkInv

\* Every step of the reader keeps the invariant.
LEMMA ReadsKeep ==
  ASSUME TypeOK, WalkInv, Reads
  PROVE  WalkInv'
<1>1. CASE HistoryPage
  <2>1. HistoryInv'
    BY <1>1, HistoryStep DEF WalkInv
  <2>2. walk \in Walker /\ UNCHANGED <<backend, now, row>>
    BY <1>1 DEF HistoryPage, WalkInv, HistoryInv, Walking
  <2>3. walk'.kind = "history"
    BY <1>1, <2>2 DEF HistoryPage, Walker
  <2>4. ~Paging' /\ (walk' = None \/ walk' \in Walker)
    BY <2>1, <2>3 DEF Paging, HistoryInv, Walking
  <2>5. (backend = "memory" => \A d \in Conv : Exists(d) => row[d].updated <= now)'
    BY <2>2 DEF WalkInv, Exists
  <2> QED BY <2>1, <2>4, <2>5 DEF WalkInv
<1> QED BY <1>1, StartHistoryKeeps, StartSidebarKeeps, ListRowsKeeps, SidebarPageKeeps DEF Reads

\* The reader has not begun.
LEMMA WalkInit == Init => WalkInv
BY DEF Init, WalkInv, HistoryInv, Walking, Paging, Exists, RowId

\* Every step keeps the invariant.
LEMMA WalkStep == RowsInv /\ RowsInv' /\ WalkInv /\ [Next]_vars => WalkInv'
<1> SUFFICES ASSUME RowsInv, RowsInv', WalkInv, [Next]_vars PROVE WalkInv'
  OBVIOUS
<1>1. TypeOK /\ TypeOK'
  BY DEF RowsInv
<1>2. CASE Reads
  BY <1>1, <1>2, ReadsKeep
<1>3. CASE Next /\ ~Reads
  <2>1. PICK ids \in SUBSET RowId : Wrote(ids)
    BY <1>3, WriteSteps
  <2> QED BY <1>1, <2>1, WroteKeeps
<1>4. CASE UNCHANGED vars
  <2>1. UNCHANGED <<backend, now, row, owned, log, walk>>
    BY <1>4 DEF vars
  <2>2. HistoryInv'
    BY <2>1 DEF WalkInv, HistoryInv, Rises, Has, Ahead, InOrder, Walking
  <2>3. Paging => NoneSkipped'
    BY <2>1 DEF WalkInv, NoneSkipped, Kept, Exists, Shown, ListedRow, Has, admits_position,
                precedes
  <2>4. Paging /\ backend = "memory" => NoneTwice'
    BY <2>1 DEF WalkInv, NoneTwice, Exists, Behind, ListedRow, Has, Distinct, precedes
  <2> QED BY <2>1, <2>2, <2>3, <2>4 DEF WalkInv, Paging, Exists
<1> QED BY <1>2, <1>3, <1>4

\* A walk through a conversation's messages returns them in order, none twice and none
\* ahead of one it left out, and when it ends has returned every message stored when
\* it began, whatever is appended meanwhile; all three list_messages_by_conversation,
\* DynamoDB's newest first (HistoryEnds says why) and a Query that was cut excepted.
THEOREM HistoryComplete == Spec => []HistoryWalk
<1>1. ASSUME WalkInv, walk # None, walk.kind = "history" PROVE HistoryWalk
  <2>1. walk \in Walker /\ Walking(walk)
    BY <1>1 DEF WalkInv, HistoryInv, Walking
  <2>2. /\ walk.base \subseteq Msg /\ \A m \in Msg : m \in Nat
        /\ \A i \in DOMAIN walk.got : walk.got[i] \in Msg
    <3>1. walk.got \in Seq(Msg) /\ walk.base \subseteq Msg
      BY <2>1 DEF Walker
    <3>2. \A m \in Msg : m \in Nat
      BY StorageAssumption DEF Msg
    <3> QED BY <3>1, <3>2, LenProperties, ElementOfSeq
  <2>3. \A m \in walk.base, i \in DOMAIN walk.got :
          InOrder(walk.desc, m, walk.got[i]) => Has(walk.got, m)
    BY <1>1, <2>1, <2>2 DEF WalkInv, HistoryInv, InOrder
  <2> QED BY <1>1, <2>1, <2>3 DEF WalkInv, HistoryInv, HistoryWalk, Rises, Ahead
<1>2. WalkInv => HistoryWalk
  BY <1>1 DEF HistoryWalk
<1> QED BY <1>2, RowsBegin, RowsStep, WalkInit, WalkStep, PTL DEF Spec

\* A conversation that nothing writes while its owner pages through the sidebar is
\* never skipped as long as the organization's rows fit into one DynamoDB Query, and in
\* memory none is shown twice (handle_list_conversations,
\* list_owned_conversation_summaries_page).
THEOREM SidebarComplete == Spec => []SidebarWalk
<1>1. WalkInv => SidebarWalk
  BY DEF WalkInv, SidebarWalk, Paging, NoneSkipped, Kept, NoneTwice
<1> QED BY <1>1, RowsBegin, RowsStep, WalkInit, WalkStep, PTL DEF Spec
-----------------------------------------------------------------------------
(* Knowledge: what a search is answered with.                              *)

\* Of a finite set those with fewer than n ahead of them are n, or all of it: the
\* first that is left out has n ahead of it, and all of those are in.
LEMMA TopSize ==
  ASSUME NEW S, IsFiniteSet(S), NEW n \in Nat, NEW A \in [S -> SUBSET S],
         \A d \in S : \A e \in A[d] : A[e] \subseteq A[d] /\ e \notin A[e],
         NEW T, T = {d \in S : Cardinality(A[d]) < n}
  PROVE  T = S \/ Cardinality(T) >= n
<1> SUFFICES ASSUME T # S PROVE Cardinality(T) >= n
  OBVIOUS
<1>1. \A d \in S : IsFiniteSet(A[d]) /\ Cardinality(A[d]) \in Nat
  BY FS_Subset, FS_CardinalityType
<1> DEFINE J == {Cardinality(A[d]) : d \in S \ T}
<1>2. J \subseteq Nat /\ J # {}
  BY <1>1
<1>3. PICK x \in J : \A y \in J : x <= y
  <2> HIDE DEF J
  <2> QED BY <1>2, LeastIn
<1>4. PICK d \in S \ T : Cardinality(A[d]) = x
  BY <1>3
<1>5. \A e \in S \ T : Cardinality(A[d]) <= Cardinality(A[e])
  BY <1>3, <1>4
<1>6. Cardinality(A[d]) >= n
  BY <1>1, <1>4
<1>7. ASSUME NEW e \in A[d] PROVE e \in T
  <2>1. e \in S /\ A[e] \subseteq A[d] /\ A[e] # A[d]
    BY <1>4, <1>7
  <2>2. IsFiniteSet(A[d]) /\ A[e] \in SUBSET A[d]
    BY <1>1, <1>4, <2>1
  <2>3. Cardinality(A[e]) <= Cardinality(A[d]) /\ Cardinality(A[e]) # Cardinality(A[d])
    BY <2>1, <2>2, FS_Subset
  <2>4. Cardinality(A[e]) \in Nat /\ Cardinality(A[d]) \in Nat
    BY <1>1, <1>4, <2>1
  <2>5. e \notin S \ T
    BY <1>5, <2>3, <2>4
  <2> QED BY <2>1, <2>5
<1>8. T \in SUBSET S /\ IsFiniteSet(T) /\ Cardinality(T) \in Nat
  <2>1. T \in SUBSET S
    OBVIOUS
  <2> QED BY <2>1, FS_Subset, FS_CardinalityType
<1>9. A[d] \in SUBSET T
  BY <1>7
<1>10. Cardinality(A[d]) <= Cardinality(T)
  BY <1>8, <1>9, FS_Subset
<1> QED BY <1>1, <1>4, <1>6, <1>8, <1>10

\* The n of a finite set of documents that score highest.
LEMMA TopOfSize ==
  ASSUME NEW S, S \subseteq Doc, NEW n \in Nat
  PROVE  /\ TopOf(n, S) \subseteq S /\ IsFiniteSet(S) /\ IsFiniteSet(TopOf(n, S))
         /\ Cardinality(S) \in Nat /\ Cardinality(TopOf(n, S)) \in Nat
         /\ Cardinality(TopOf(n, S)) >= Smaller(n, Cardinality(S))
         /\ TopOf(n, S) = S \/ Cardinality(TopOf(n, S)) >= n
<1>0. S \in SUBSET Doc /\ IsFiniteSet(Doc) /\ S \subseteq Nat
  <2>1. 1 \in Int /\ MaxDoc \in Int
    BY KnowledgeAssumption
  <2>2. IsFiniteSet(1 .. MaxDoc)
    BY <2>1, FS_Interval
  <2> QED BY <2>2, KnowledgeAssumption DEF Doc
<1>1. IsFiniteSet(S) /\ TopOf(n, S) \subseteq S
  BY <1>0, FS_Subset DEF TopOf
<1>2. /\ IsFiniteSet(TopOf(n, S)) /\ Cardinality(S) \in Nat
      /\ Cardinality(TopOf(n, S)) \in Nat
  BY <1>1, FS_Subset, FS_CardinalityType
<1> DEFINE A == [d \in S |-> {e \in S : e < d}]
<1>3. A \in [S -> SUBSET S]
  OBVIOUS
<1>4. ASSUME NEW d \in S, NEW e \in A[d] PROVE A[e] \subseteq A[d] /\ e \notin A[e]
  <2>1. e \in S /\ e < d /\ d \in Nat /\ e \in Nat /\ \A f \in S : f \in Nat
    BY <1>0, <1>4
  <2>2. A[e] = {f \in S : f < e} /\ A[d] = {f \in S : f < d}
    BY <2>1
  <2>3. \A f \in S : f < e => f < d
    BY <2>1
  <2>4. ~(e < e)
    BY <2>1
  <2> HIDE DEF A
  <2>5. A[e] \subseteq A[d]
    BY <2>2, <2>3
  <2>6. e \notin A[e]
    BY <2>2, <2>4
  <2> QED BY <2>5, <2>6
<1>5. TopOf(n, S) = {d \in S : Cardinality(A[d]) < n}
  BY DEF TopOf
<1> HIDE DEF A
<1>6. TopOf(n, S) = S \/ Cardinality(TopOf(n, S)) >= n
  BY <1>1, <1>3, <1>4, <1>5, TopSize
<1> QED BY <1>1, <1>2, <1>6 DEF Smaller

\* The curated reader's order: the n that score highest when boosted.
Boosted(n, S, score) ==
  {d \in S : Cardinality({e \in S : score[e] > score[d] \/ (score[e] = score[d] /\ e < d)}) < n}

\* The curated reader answers with documents of S, n of them if there are.
LEMMA BoostedSize ==
  ASSUME NEW S, S \subseteq Doc, NEW n \in Nat, NEW score \in [S -> Int], NEW T,
         T = Boosted(n, S, score)
  PROVE  T \subseteq S /\ Cardinality(T) \in Nat /\ Cardinality(T) >= Smaller(n, Cardinality(S))
<1>1. IsFiniteSet(S) /\ Cardinality(S) \in Nat /\ T \in SUBSET S
  BY TopOfSize DEF Boosted
<1>2. Cardinality(T) \in Nat
  BY <1>1, FS_Subset, FS_CardinalityType
<1>3. \A f \in S : f \in Nat /\ score[f] \in Int
  BY KnowledgeAssumption DEF Doc
<1> DEFINE Before(e, d) == score[e] > score[d] \/ (score[e] = score[d] /\ e < d)
           A == [d \in S |-> {e \in S : Before(e, d)}]
<1>4. A \in [S -> SUBSET S]
  OBVIOUS
<1>5. ASSUME NEW d \in S, NEW e \in A[d] PROVE A[e] \subseteq A[d] /\ e \notin A[e]
  <2>1. e \in S /\ Before(e, d)
    BY <1>5
  <2>2. A[e] = {f \in S : Before(f, e)} /\ A[d] = {f \in S : Before(f, d)}
    BY <2>1
  <2>3. \A f \in S : Before(f, e) => Before(f, d)
    BY <1>3, <2>1
  <2>4. ~Before(e, e)
    BY <1>3, <2>1
  <2> HIDE DEF A, Before
  <2> QED BY <2>1, <2>2, <2>3, <2>4
<1>6. T = {d \in S : Cardinality(A[d]) < n}
  BY DEF Boosted
<1> HIDE DEF A
<1>7. T = S \/ Cardinality(T) >= n
  BY <1>1, <1>4, <1>5, <1>6, TopSize
<1> QED BY <1>1, <1>2, <1>7 DEF Smaller

\* What the stores know of a document is how it was ingested.
TruthKept ==
  /\ \A d \in Doc : rows[d] # None \/ writing[d] # None \/ entry[d] # None => truth[d] # None
  /\ kind \in {"postgres", "dynamodb"} => \A d \in Doc :
       /\ writing[d] = None
       /\ rows[d] # None => rows[d].org = truth[d].org /\ rows[d].acl = truth[d].acl
  /\ kind = "acl" => \A d \in Doc : truth[d] # None =>
       /\ Some(entry[d], NoEntry).org = truth[d].org
       /\ Some(entry[d], NoEntry).acl = truth[d].acl
  /\ kind = "curated" => \A d \in Doc : truth[d] # None =>
       entry[d] # None /\ entry[d].acl = truth[d].acl /\ entry[d].set = truth[d].set

\* What the first half of a query found of the documents stored when it began.
Fetched ==
  reader # None =>
    /\ reader.base \subseteq Stored /\ reader.limit = Fetch(reader.wanted, reader.rerank)
    /\ reader.sets => kind = "curated"
    /\ kind = "postgres" =>
         reader.found = TopOf(Pool(reader.limit), {d \in reader.base \cap reader.scan : RowAllowed(reader.ctx, d)})
    /\ kind = "dynamodb" =>
         reader.found = {d \in reader.base \cap reader.scan : RowAllowed(reader.ctx, d)}
    /\ kind \notin {"postgres", "dynamodb"} => reader.found = TopOf(Pool(reader.limit), reader.base)

\* The inductive invariant behind RetrievalExact.
KnowInv == KTypeOK /\ TruthKept /\ Fetched

\* Whose a row is: the document's organization, the handle's or the adapter's.
LEMMA OrgTyped ==
  ASSUME KTypeOK, NEW doc \in Document, NEW bound \in {ctx.org : ctx \in Context}
  PROVE  recorded_org(doc, bound) \in OrNone(Org) /\ ingest_org(doc, bound) \in OrNone(Org)
         /\ doc \in Entry
BY DocumentAssumption DEF KTypeOK, recorded_org, ingest_org, Some, Entry, OrNone

\* Limits are positive, a reranker is given no fewer than are wanted, and the pool
\* is no smaller than the limit.
LEMMA LimitsGrow ==
  ASSUME NEW wanted \in Limit, NEW rerank
  PROVE  /\ wanted \in Nat /\ Fetch(wanted, rerank) \in Nat /\ wanted <= Fetch(wanted, rerank)
         /\ Pool(Fetch(wanted, rerank)) \in Nat
         /\ Fetch(wanted, rerank) <= Pool(Fetch(wanted, rerank))
<1>1. wanted \in Nat /\ Fetch(wanted, rerank) \in Nat /\ wanted <= Fetch(wanted, rerank)
  BY KnowledgeAssumption DEF Fetch, RERANK_OVERFETCH
<1>2. ASSUME NEW a \in Nat, NEW b \in Nat \ {0} PROVE a * b \in Nat /\ a <= a * b
  BY <1>2
<1>3. ASSUME NEW a \in Nat PROVE Pool(a) \in Nat /\ a <= Pool(a)
  <2>1. a * OVERFETCH_FACTOR \in Nat /\ a <= a * OVERFETCH_FACTOR /\ OVERFETCH_FLOOR \in Nat
    BY <1>2, KnowledgeAssumption
  <2> QED BY <2>1 DEF Pool
<1> QED BY <1>1, <1>3

\* No document is stored yet.
LEMMA KnowInit == KInit => KnowInv
BY DEF KInit, KnowInv, KTypeOK, TruthKept, Fetched, OrNone, Stored

\* What the stores know keeps its shape.
LEMMA KnowTypes ==
  ASSUME KnowInv, KNext
  PROVE  KTypeOK'
<1>0. KTypeOK /\ TruthKept /\ Fetched
  BY DEF KnowInv
<1>1. ASSUME NEW d \in Doc, NEW doc \in Document, NEW bound \in {ctx.org : ctx \in Context},
             RecordIngest(d, doc, bound)
      PROVE  KTypeOK'
  <2>1. recorded_org(doc, bound) \in OrNone(Org) /\ doc \in Entry
    BY <1>0, OrgTyped
  <2>2. [org |-> recorded_org(doc, bound), acl |-> doc.acl, set |-> doc.set] \in Origin
    BY <2>1 DEF Origin, Entry
  <2>3. [org |-> recorded_org(doc, bound), acl |-> doc.acl, set |-> FALSE, boost |-> 1] \in Entry
    BY <2>1 DEF Entry
  <2>4. [org |-> None, acl |-> doc.acl, set |-> doc.set, boost |-> doc.boost] \in Entry
    BY <2>1 DEF Entry, OrNone
  <2>5. entry' \in [Doc -> OrNone(Entry)]
    <3>1. CASE kind = "acl"
      BY <1>0, <1>1, <2>3, <3>1 DEF RecordIngest, record_document, KTypeOK, OrNone
    <3>2. CASE kind = "curated"
      BY <1>0, <1>1, <2>4, <3>2 DEF RecordIngest, record_ingest_metadata, KTypeOK, OrNone
    <3>3. CASE kind \notin {"acl", "curated"}
      BY <1>0, <1>1, <3>3 DEF RecordIngest, KTypeOK
    <3> QED BY <3>1, <3>2, <3>3
  <2>6. truth' \in [Doc -> OrNone(Origin)] /\ writing' \in [Doc -> OrNone(Document)]
    BY <1>0, <1>1, <2>2 DEF RecordIngest, KTypeOK, OrNone
  <2> QED BY <1>0, <1>1, <2>5, <2>6 DEF RecordIngest, KTypeOK
<1>2. ASSUME NEW d \in Doc, StoreIngest(d) PROVE KTypeOK'
  <2>1. [org |-> None, acl |-> None] \in Columns
    BY DEF Columns, OrNone
  <2>2. rows' \in [Doc -> OrNone(Columns)] /\ writing' \in [Doc -> OrNone(Document)]
    BY <1>0, <1>2, <2>1 DEF StoreIngest, KTypeOK, OrNone
  <2> QED BY <1>0, <1>2, <2>2 DEF StoreIngest, KTypeOK
<1>3. ASSUME NEW d \in Doc, NEW doc \in Document, NEW bound \in {ctx.org : ctx \in Context},
             NewDocument(d, doc, bound)
      PROVE  KTypeOK'
  <2>1. ingest_org(doc, bound) \in OrNone(Org) /\ doc \in Entry
    BY <1>0, OrgTyped
  <2>2. /\ [org |-> ingest_org(doc, bound), acl |-> doc.acl] \in Columns
        /\ [org |-> ingest_org(doc, bound), acl |-> doc.acl, set |-> doc.set] \in Origin
    BY <2>1 DEF Columns, Origin, Entry
  <2>3. /\ rows' = [rows EXCEPT ![d] = [org |-> ingest_org(doc, bound), acl |-> doc.acl]]
        /\ truth' = [truth EXCEPT ![d] = [org |-> ingest_org(doc, bound), acl |-> doc.acl,
                                          set |-> doc.set]]
    BY <1>3 DEF NewDocument
  <2>4. rows' \in [Doc -> OrNone(Columns)] /\ truth' \in [Doc -> OrNone(Origin)]
    BY <1>0, <2>2, <2>3 DEF KTypeOK, OrNone
  <2> QED BY <1>0, <1>3, <2>4 DEF NewDocument, KTypeOK
<1>4. ASSUME NEW d \in Doc, NEW acl \in {doc.acl : doc \in Document} \ {None}, record_acl(d, acl)
      PROVE  KTypeOK'
  <2>1. acl \in OrNone(Acl)
    BY DocumentAssumption DEF Entry
  <2>2. truth[d] \in Origin /\ [truth[d] EXCEPT !.acl = acl] \in Origin
    BY <1>0, <1>4, <2>1 DEF record_acl, KTypeOK, OrNone, Origin
  <2>3. [org |-> None, acl |-> acl, set |-> FALSE, boost |-> 1] \in Entry
    BY <2>1 DEF Entry, OrNone
  <2>4. entry[d] # None => [entry[d] EXCEPT !.acl = acl] \in Entry
    BY <1>0, <2>1 DEF KTypeOK, OrNone, Entry
  <2>5. entry' \in [Doc -> OrNone(Entry)]
    BY <1>0, <1>4, <2>3, <2>4 DEF record_acl, KTypeOK, OrNone
  <2>6. truth' \in [Doc -> OrNone(Origin)]
    BY <1>0, <1>4, <2>2 DEF record_acl, KTypeOK, OrNone
  <2> QED BY <1>0, <1>4, <2>5, <2>6 DEF record_acl, KTypeOK
<1>5. ASSUME NEW ctx \in Context, NEW n \in Limit, NEW rerank \in BOOLEAN, NEW sets \in BOOLEAN,
             NEW scan \in SUBSET Doc, Query(ctx, n, rerank, sets, scan)
      PROVE  KTypeOK'
  <2>1. Fetch(n, rerank) \in Nat
    BY LimitsGrow
  <2> DEFINE f == CASE kind = "postgres" ->
                         TopOf(Pool(Fetch(n, rerank)), {d \in Stored \cap scan : RowAllowed(ctx, d)})
                    [] kind = "dynamodb" -> {d \in Stored \cap scan : RowAllowed(ctx, d)}
                    [] OTHER -> TopOf(Pool(Fetch(n, rerank)), Stored)
  <2>2. f \in SUBSET Doc
    <3>1. \A a, S : TopOf(a, S) \subseteq S
      BY DEF TopOf
    <3>2. Stored \subseteq Doc
      BY DEF Stored
    <3> QED BY <3>1, <3>2
  <2>3. reader' = [ctx |-> ctx, wanted |-> n, rerank |-> rerank, limit |-> Fetch(n, rerank),
                   sets |-> sets, scan |-> scan, base |-> Stored, answer |-> None, found |-> f]
    BY <1>5 DEF Query
  <2> HIDE DEF f
  <2>4. reader' \in Reader
    BY <2>1, <2>2, <2>3 DEF Reader, Stored, OrNone
  <2> QED BY <1>0, <1>5, <2>4 DEF Query, KTypeOK, OrNone
<1>6. CASE Answer
  <2>1. reader \in Reader
    BY <1>0, <1>6 DEF Answer, KTypeOK, OrNone
  <2>2. PICK S \in Outcomes(reader) : \E T \in apply_optional_rerank(S, reader) :
          reader' = [reader EXCEPT !.answer = T]
    BY <1>6 DEF Answer
  <2>3. PICK T \in apply_optional_rerank(S, reader) : reader' = [reader EXCEPT !.answer = T]
    BY <2>2
  <2>4. T \subseteq S
    BY <2>3 DEF apply_optional_rerank, TopOf
  <2>5. S \subseteq Doc
    <3>1. reader.found \subseteq Doc /\ Stored \subseteq Doc
      BY <2>1 DEF Reader, Stored
    <3>2. CASE kind = "postgres"
      BY <2>2, <3>1, <3>2 DEF Outcomes, FusedTops, TopOf
    <3>3. CASE kind = "dynamodb"
      BY <2>2, <3>1, <3>3 DEF Outcomes, TopOf
    <3>4. CASE kind = "curated"
      BY <2>2, <3>1, <3>4 DEF Outcomes, curated_filter
    <3>5. CASE kind \notin {"postgres", "dynamodb", "curated"}
      BY <2>2, <3>1, <3>5 DEF Outcomes, acl_filter, TopOf
    <3> QED BY <3>2, <3>3, <3>4, <3>5
  <2>6. T \in SUBSET Doc
    BY <2>4, <2>5
  <2>7. reader' \in Reader
    BY <2>1, <2>3, <2>6 DEF Reader, OrNone
  <2> QED BY <1>0, <1>6, <2>7 DEF Answer, KTypeOK, OrNone
<1> QED BY <1>1, <1>2, <1>3, <1>4, <1>5, <1>6 DEF KNext, InsertDocument, PutDocument

\* Every step keeps what the stores know true.
LEMMA TruthStep ==
  ASSUME KnowInv, KNext
  PROVE  /\ TruthKept' /\ kind' = kind /\ home' = home
         /\ \A d \in Doc : rows[d] # None =>
              rows'[d] # None /\ (kind \in {"postgres", "dynamodb"} => rows'[d] = rows[d])
<1>0. KTypeOK /\ TruthKept
  BY DEF KnowInv
<1> DEFINE Goal == /\ TruthKept' /\ kind' = kind /\ home' = home
                   /\ \A d \in Doc : rows[d] # None =>
                        /\ rows'[d] # None
                        /\ kind \in {"postgres", "dynamodb"} => rows'[d] = rows[d]
<1>1. ASSUME NEW d \in Doc, NEW doc \in Document, NEW bound \in {ctx.org : ctx \in Context},
             RecordIngest(d, doc, bound)
      PROVE  Goal
  <2>1. recorded_org(doc, bound) \in OrNone(Org) /\ doc \in Entry
    BY <1>0, OrgTyped
  <2> DEFINE o == [org |-> recorded_org(doc, bound), acl |-> doc.acl, set |-> doc.set]
  <2>2. o \in Origin
    BY <2>1 DEF Origin, Entry
  <2>3. /\ truth'[d] = o /\ \A e \in Doc \ {d} : truth'[e] = truth[e] /\ writing'[e] = writing[e]
        /\ truth[d] = None /\ rows' = rows /\ kind' = kind /\ home' = home
        /\ kind \in {"acl", "curated", "default"}
    BY <1>0, <1>1 DEF RecordIngest, KTypeOK, Unused
  <2>4. truth'[d] # None /\ rows[d] = None /\ entry[d] = None
    BY <1>0, <2>2, <2>3, DocumentAssumption DEF TruthKept
  <2>5. \A e \in Doc \ {d} : entry'[e] = entry[e]
    BY <1>0, <1>1 DEF RecordIngest, record_document, record_ingest_metadata, KTypeOK
  <2>6. kind = "acl" => /\ Some(entry'[d], NoEntry).org = truth'[d].org
                        /\ Some(entry'[d], NoEntry).acl = truth'[d].acl
    <3>1. CASE kind = "acl" /\ recorded_org(doc, bound) = None /\ doc.acl = None
      <4>1. entry'[d] = None
        BY <1>1, <2>4, <3>1 DEF RecordIngest, record_document
      <4> QED BY <2>3, <3>1, <4>1 DEF Some, NoEntry
    <3>2. CASE kind = "acl" /\ ~(recorded_org(doc, bound) = None /\ doc.acl = None)
      <4>1. entry'[d] = [org |-> recorded_org(doc, bound), acl |-> doc.acl,
                         set |-> FALSE, boost |-> 1]
        BY <1>0, <1>1, <3>2 DEF RecordIngest, record_document, KTypeOK
      <4>2. entry'[d] \in Entry
        BY <2>1, <4>1 DEF Entry
      <4>3. entry'[d] # None
        BY <4>2, DocumentAssumption
      <4> QED BY <2>3, <4>1, <4>3 DEF Some
    <3> QED BY <3>1, <3>2
  <2>7. kind = "curated" => /\ entry'[d] # None /\ entry'[d].acl = truth'[d].acl
                            /\ entry'[d].set = truth'[d].set
    <3> SUFFICES ASSUME kind = "curated"
                 PROVE  entry'[d] # None /\ entry'[d].acl = truth'[d].acl /\ entry'[d].set = truth'[d].set
      OBVIOUS
    <3>1. entry'[d] = [org |-> None, acl |-> doc.acl, set |-> doc.set, boost |-> doc.boost]
      BY <1>0, <1>1 DEF RecordIngest, record_ingest_metadata, KTypeOK
    <3>2. entry'[d] \in Entry
      BY <2>1, <3>1 DEF Entry, OrNone
    <3> QED BY <2>3, <3>1, <3>2, DocumentAssumption
  <2> HIDE DEF o
  <2>8. TruthKept'
    BY <1>0, <2>3, <2>4, <2>5, <2>6, <2>7 DEF TruthKept
  <2> QED BY <2>3, <2>8
<1>2. ASSUME NEW d \in Doc, StoreIngest(d) PROVE Goal
  <2>1. kind \notin {"postgres", "dynamodb"} /\ truth[d] # None
    BY <1>0, <1>2 DEF StoreIngest, TruthKept
  <2>2. /\ kind' = kind /\ home' = home /\ entry' = entry /\ truth' = truth
        /\ \A e \in Doc : (writing'[e] # None => writing[e] # None)
        /\ \A e \in Doc \ {d} : rows'[e] = rows[e]
    BY <1>0, <1>2 DEF StoreIngest, KTypeOK
  <2>3. [org |-> None, acl |-> None] # None
    BY DocumentAssumption DEF Columns, OrNone
  <2>4. rows[d] # None => rows'[d] # None
    BY <1>0, <1>2, <2>3 DEF StoreIngest, KTypeOK
  <2>5. TruthKept'
    BY <1>0, <2>1, <2>2 DEF TruthKept
  <2> QED BY <2>1, <2>2, <2>4, <2>5
<1>3. ASSUME NEW d \in Doc, NEW doc \in Document, NEW bound \in {ctx.org : ctx \in Context},
             NewDocument(d, doc, bound), kind \in {"postgres", "dynamodb"}
      PROVE  Goal
  <2>1. ingest_org(doc, bound) \in OrNone(Org) /\ doc \in Entry
    BY <1>0, OrgTyped
  <2>2. /\ [org |-> ingest_org(doc, bound), acl |-> doc.acl] \in Columns
        /\ [org |-> ingest_org(doc, bound), acl |-> doc.acl, set |-> doc.set] \in Origin
    BY <2>1 DEF Columns, Origin, Entry
  <2>3. /\ rows' = [rows EXCEPT ![d] = [org |-> ingest_org(doc, bound), acl |-> doc.acl]]
        /\ truth' = [truth EXCEPT ![d] = [org |-> ingest_org(doc, bound), acl |-> doc.acl,
                                          set |-> doc.set]]
        /\ truth[d] = None /\ UNCHANGED <<kind, home, entry, writing>>
    BY <1>3 DEF NewDocument, Unused
  <2>4. rows[d] = None
    BY <1>0, <2>3 DEF TruthKept
  <2>5. /\ truth'[d] # None /\ rows'[d] # None
        /\ rows'[d].org = truth'[d].org /\ rows'[d].acl = truth'[d].acl
        /\ \A e \in Doc \ {d} : rows'[e] = rows[e] /\ truth'[e] = truth[e]
    BY <1>0, <2>2, <2>3, DocumentAssumption DEF KTypeOK
  <2>6. TruthKept'
    BY <1>0, <1>3, <2>3, <2>5 DEF TruthKept
  <2> QED BY <2>3, <2>4, <2>5, <2>6
<1>4. ASSUME NEW d \in Doc, NEW acl \in {doc.acl : doc \in Document} \ {None}, record_acl(d, acl)
      PROVE  Goal
  <2>1. acl \in OrNone(Acl)
    BY DocumentAssumption DEF Entry
  <2>2. kind = "acl" /\ truth[d] # None /\ UNCHANGED <<kind, home, rows, writing>>
    BY <1>4 DEF record_acl
  <2>3. truth[d] \in Origin
    BY <1>0, <2>2 DEF KTypeOK, OrNone
  <2>4. truth'[d] = [truth[d] EXCEPT !.acl = acl] /\ \A e \in Doc \ {d} : truth'[e] = truth[e]
    BY <1>0, <1>4 DEF record_acl, KTypeOK
  <2>5. truth'[d] \in Origin /\ truth'[d].acl = acl /\ truth'[d].org = truth[d].org
    BY <2>1, <2>3, <2>4 DEF Origin
  <2>6. \A e \in Doc \ {d} : entry'[e] = entry[e]
    BY <1>0, <1>4 DEF record_acl, KTypeOK
  <2>7. Some(entry'[d], NoEntry).org = truth[d].org /\ Some(entry'[d], NoEntry).acl = acl
    <3>1. CASE entry[d] = None
      <4>1. entry'[d] = [org |-> None, acl |-> acl, set |-> FALSE, boost |-> 1]
        BY <1>0, <1>4, <3>1 DEF record_acl, KTypeOK
      <4>2. entry'[d] \in Entry
        BY <2>1, <4>1 DEF Entry, OrNone
      <4>3. truth[d].org = None
        BY <1>0, <2>2, <3>1 DEF TruthKept, Some, NoEntry
      <4>4. entry'[d] # None
        BY <4>2, DocumentAssumption
      <4>5. entry'[d].org = None /\ entry'[d].acl = acl
        BY <4>1
      <4> QED BY <4>3, <4>4, <4>5 DEF Some
    <3>2. CASE entry[d] # None
      <4>1. entry[d] \in Entry /\ entry'[d] = [entry[d] EXCEPT !.acl = acl]
        BY <1>0, <1>4, <3>2 DEF record_acl, KTypeOK, OrNone
      <4>2. entry'[d] \in Entry /\ entry'[d].org = entry[d].org /\ entry'[d].acl = acl
        BY <2>1, <4>1 DEF Entry
      <4>3. entry[d].org = truth[d].org
        BY <1>0, <2>2, <3>2 DEF TruthKept, Some
      <4> QED BY <4>2, <4>3, DocumentAssumption DEF Some
    <3> QED BY <3>1, <3>2
  <2>8. truth'[d] # None
    BY <2>5, DocumentAssumption
  <2>9. TruthKept'
    <3>1. \A e \in Doc : truth[e] # None => truth'[e] # None
      BY <2>4, <2>8
    <3>2. \A e \in Doc : rows[e] # None \/ writing[e] # None \/ entry'[e] # None => truth'[e] # None
      BY <1>0, <2>6, <2>8, <3>1 DEF TruthKept
    <3>3. ASSUME NEW e \in Doc, truth'[e] # None
          PROVE  /\ Some(entry'[e], NoEntry).org = truth'[e].org
                 /\ Some(entry'[e], NoEntry).acl = truth'[e].acl
      <4>1. CASE e = d
        BY <2>5, <2>7, <4>1
      <4>2. CASE e # d
        BY <1>0, <2>2, <2>4, <2>6, <3>3, <4>2 DEF TruthKept
      <4> QED BY <4>1, <4>2
    <3> QED BY <2>2, <3>2, <3>3 DEF TruthKept
  <2> QED BY <2>2, <2>9
<1>5. ASSUME UNCHANGED <<kind, home, entry, rows, truth, writing>> PROVE Goal
  BY <1>0, <1>5 DEF TruthKept
<1> HIDE DEF Goal
<1>6. Goal
  BY <1>1, <1>2, <1>3, <1>4, <1>5
     DEF KNext, InsertDocument, PutDocument, Query, Answer
<1> QED BY <1>6 DEF Goal

\* Every step keeps what a query found.
LEMMA FetchedStep ==
  ASSUME KnowInv, KNext
  PROVE  Fetched'
<1>0. KTypeOK /\ TruthKept /\ Fetched
  BY DEF KnowInv
<1>1. /\ kind' = kind /\ home' = home
      /\ \A d \in Doc : rows[d] # None =>
           rows'[d] # None /\ (kind \in {"postgres", "dynamodb"} => rows'[d] = rows[d])
  BY TruthStep
<1>2. ASSUME NEW ctx, NEW d \in Stored, kind \in {"postgres", "dynamodb"}
      PROVE  RowAllowed(ctx, d)' <=> RowAllowed(ctx, d)
  BY <1>1, <1>2 DEF Stored, RowAllowed, query_org
<1>3. ASSUME reader # None, reader' # None, reader'.ctx = reader.ctx,
             reader'.wanted = reader.wanted, reader'.rerank = reader.rerank,
             reader'.limit = reader.limit, reader'.sets = reader.sets,
             reader'.scan = reader.scan, reader'.base = reader.base, reader'.found = reader.found
      PROVE  Fetched'
  <2>1. reader.base \subseteq Stored /\ Stored \subseteq Stored'
    BY <1>0, <1>1, <1>3 DEF Fetched, Stored
  <2>2. ASSUME kind \in {"postgres", "dynamodb"}, NEW d \in reader.base
        PROVE  RowAllowed(reader.ctx, d)' <=> RowAllowed(reader.ctx, d)
    <3>1. ASSUME NEW ctx, ctx = reader.ctx
          PROVE RowAllowed(ctx, d)' <=> RowAllowed(ctx, d)
      BY <1>2, <2>1, <2>2
    <3> QED BY <1>3, <3>1 DEF RowAllowed, query_org
  <2>3. kind = "postgres" =>
          reader'.found = TopOf(Pool(reader'.limit),
                                {d \in reader'.base \cap reader'.scan : RowAllowed(reader.ctx, d)'})
    <3> SUFFICES ASSUME kind = "postgres"
                 PROVE  reader.found = TopOf(Pool(reader.limit),
                                {d \in reader.base \cap reader.scan : RowAllowed(reader.ctx, d)'})
      BY <1>3
    <3>1. {d \in reader.base \cap reader.scan : RowAllowed(reader.ctx, d)'}
            = {d \in reader.base \cap reader.scan : RowAllowed(reader.ctx, d)}
      BY <2>2
    <3> QED BY <1>0, <1>3, <3>1 DEF Fetched
  <2>4. kind = "dynamodb" =>
          reader'.found = {d \in reader'.base \cap reader'.scan : RowAllowed(reader.ctx, d)'}
    BY <1>0, <1>3, <2>2 DEF Fetched
  <2> QED BY <1>0, <1>1, <1>3, <2>1, <2>3, <2>4 DEF Fetched
<1>4. CASE reader' = reader
  BY <1>3, <1>4 DEF Fetched
<1>5. ASSUME NEW ctx \in Context, NEW n \in Limit, NEW rerank \in BOOLEAN, NEW sets \in BOOLEAN,
             NEW scan \in SUBSET Doc, Query(ctx, n, rerank, sets, scan)
      PROVE  Fetched'
  <2>1. UNCHANGED <<kind, home, entry, rows, truth, writing>> /\ (sets => kind = "curated")
    BY <1>5 DEF Query
  <2>2. /\ reader'.ctx = ctx /\ reader'.wanted = n /\ reader'.rerank = rerank
        /\ reader'.limit = Fetch(n, rerank) /\ reader'.sets = sets /\ reader'.scan = scan
        /\ reader'.base = Stored
        /\ reader'.found = CASE kind = "postgres" ->
                                TopOf(Pool(Fetch(n, rerank)), {d \in Stored \cap scan : RowAllowed(ctx, d)})
                             [] kind = "dynamodb" ->
                                {d \in Stored \cap scan : RowAllowed(ctx, d)}
                             [] OTHER -> TopOf(Pool(Fetch(n, rerank)), Stored)
    BY <1>5 DEF Query
  <2>3. Stored' = Stored
    BY <2>1 DEF Stored
  <2>4. \A d : RowAllowed(reader.ctx, d)' <=> RowAllowed(ctx, d)
    BY <2>1, <2>2 DEF RowAllowed, query_org
  <2>5. CASE kind = "postgres"
    BY <2>1, <2>2, <2>3, <2>4, <2>5 DEF Fetched
  <2>6. CASE kind = "dynamodb"
    BY <2>1, <2>2, <2>3, <2>4, <2>6 DEF Fetched
  <2>7. CASE kind \notin {"postgres", "dynamodb"}
    BY <2>1, <2>2, <2>3, <2>7 DEF Fetched
  <2> QED BY <2>5, <2>6, <2>7
<1>6. CASE Answer
  <2>1. reader \in Reader /\ reader # None
    BY <1>0, <1>6 DEF Answer, KTypeOK, OrNone
  <2>2. \E T : reader' = [reader EXCEPT !.answer = T]
    BY <1>6 DEF Answer
  <2>3. /\ reader'.ctx = reader.ctx /\ reader'.wanted = reader.wanted
        /\ reader'.rerank = reader.rerank /\ reader'.limit = reader.limit
        /\ reader'.sets = reader.sets /\ reader'.scan = reader.scan
        /\ reader'.base = reader.base /\ reader'.found = reader.found
    BY <2>1, <2>2 DEF Reader
  <2>4. CASE reader' = None
    BY <2>4 DEF Fetched
  <2> QED BY <1>3, <2>1, <2>3, <2>4
<1> QED BY <1>4, <1>5, <1>6
        DEF KNext, RecordIngest, StoreIngest, NewDocument, InsertDocument, PutDocument, record_acl

\* Every step keeps the invariant.
LEMMA KnowStep == KnowInv /\ [KNext]_kvars => KnowInv'
<1> SUFFICES ASSUME KnowInv, [KNext]_kvars PROVE KnowInv'
  OBVIOUS
<1>1. CASE KNext
  BY <1>1, KnowTypes, TruthStep, FetchedStep DEF KnowInv
<1>2. CASE UNCHANGED kvars
  <2>1. KTypeOK' /\ TruthKept'
    BY <1>2 DEF KnowInv, KTypeOK, TruthKept, kvars
  <2>2. Fetched'
    BY <1>2 DEF KnowInv, Fetched, Stored, RowAllowed, query_org, kvars
  <2> QED BY <2>1, <2>2 DEF KnowInv
<1> QED BY <1>1, <1>2

\* The stores' ACL test is the requester's right.
LEMMA AclRight ==
  ASSUME NEW ctx \in Context, NEW acl \in OrNone(Acl)
  PROVE  AclAllows(ctx, acl) <=>
           (acl # None /\ ~acl.public => ctx.user \in acl.users \/ ctx.groups \cap acl.groups # {})
<1>1. acl # None => acl \in Acl
  BY DEF OrNone
<1>2. acl # None => None \notin acl.users
  BY <1>1, DocumentAssumption DEF Acl
<1> QED BY <1>2 DEF AclAllows, can_access

\* Wanted documents that reach the filter pass it, and nothing else does.
LEMMA FilterExact ==
  ASSUME KnowInv, reader # None, NEW d \in Stored
  PROVE  /\ truth[d] # None
         /\ kind = "acl" =>
              (Wanted(reader, d) <=> /\ SameTenant(reader.ctx, Some(entry[d], NoEntry).org)
                                     /\ AclAllows(reader.ctx, Some(entry[d], NoEntry).acl))
         /\ kind = "curated" =>
              (Wanted(reader, d) <=> /\ AclAllows(reader.ctx, Some(entry[d], DefaultMeta).acl)
                                     /\ matches(reader.sets, Some(entry[d], DefaultMeta)))
         /\ kind \in {"postgres", "dynamodb"} =>
              (RowAllowed(reader.ctx, d) <=>
                 Wanted(reader, d) /\ query_org(reader.ctx) \in {None, truth[d].org})
<1>0. d \in Doc /\ rows[d] # None /\ truth[d] # None /\ truth[d] \in Origin /\ reader.ctx \in Context
  BY DEF KnowInv, TruthKept, Stored, KTypeOK, OrNone, Reader
<1>1. AclAllows(reader.ctx, truth[d].acl) <=>
        (truth[d].acl # None /\ ~truth[d].acl.public =>
           reader.ctx.user \in truth[d].acl.users \/ reader.ctx.groups \cap truth[d].acl.groups # {})
  BY <1>0, AclRight DEF Origin
<1>2. Wanted(reader, d) <=> /\ kind = "curated" \/ reader.ctx.org \in {None, truth[d].org}
                            /\ AclAllows(reader.ctx, truth[d].acl)
                            /\ reader.sets => truth[d].set
  BY <1>0, <1>1 DEF Wanted, Entitled
<1>3. reader.sets => kind = "curated"
  BY DEF KnowInv, Fetched
<1>4. CASE kind = "acl"
  <2>1. Some(entry[d], NoEntry).org = truth[d].org /\ Some(entry[d], NoEntry).acl = truth[d].acl
    BY <1>0, <1>4 DEF KnowInv, TruthKept
  <2> QED BY <1>0, <1>2, <1>3, <1>4, <2>1 DEF SameTenant
<1>5. CASE kind = "curated"
  <2>1. /\ Some(entry[d], DefaultMeta).acl = truth[d].acl
        /\ Some(entry[d], DefaultMeta).set = truth[d].set
    BY <1>0, <1>5 DEF KnowInv, TruthKept, Some
  <2> QED BY <1>0, <1>2, <1>5, <2>1 DEF matches
<1>6. CASE kind \in {"postgres", "dynamodb"}
  <2>1. rows[d].org = truth[d].org /\ rows[d].acl = truth[d].acl
    BY <1>0, <1>6 DEF KnowInv, TruthKept
  <2>2. query_org(reader.ctx) \in {None, truth[d].org} => reader.ctx.org \in {None, truth[d].org}
    BY DEF query_org, Some
  <2>3. RowAllowed(reader.ctx, d) <=> /\ query_org(reader.ctx) \in {None, truth[d].org}
                                      /\ AclAllows(reader.ctx, truth[d].acl)
    BY <1>0, <2>1 DEF RowAllowed
  <2> QED BY <1>0, <1>2, <1>3, <1>6, <2>2, <2>3
<1> QED BY <1>0, <1>4, <1>5, <1>6

\* A finite set of documents, and its subsets.
LEMMA DocsFinite ==
  ASSUME NEW S, S \subseteq Doc, NEW T, T \subseteq S
  PROVE  /\ Cardinality(S) \in Nat /\ Cardinality(T) \in Nat
         /\ Cardinality(T) <= Cardinality(S)
<1>1. IsFiniteSet(S)
  BY 0 \in Nat, TopOfSize
<1> QED BY <1>1, FS_Subset, FS_CardinalityType

\* Reranking keeps as many as are wanted of what it is given.
LEMMA RerankSize ==
  ASSUME NEW S, S \subseteq Doc, NEW r, r.wanted \in Nat, NEW T \in apply_optional_rerank(S, r)
  PROVE  /\ T \subseteq S /\ Cardinality(T) \in Nat /\ Cardinality(S) \in Nat
         /\ Cardinality(T) >= Smaller(r.wanted, Cardinality(S))
<1>1. CASE r.rerank
  <2>1. T \subseteq S /\ Cardinality(T) = IF r.wanted < Cardinality(S) THEN r.wanted ELSE Cardinality(S)
    BY <1>1 DEF apply_optional_rerank
  <2> QED BY <2>1, DocsFinite DEF Smaller
<1>2. CASE ~r.rerank
  <2>1. T = TopOf(r.wanted, S)
    BY <1>2 DEF apply_optional_rerank
  <2> QED BY <2>1, TopOfSize
<1> QED BY <1>1, <1>2

\* What the second half comes to, before reranking: what the requester may be
\* shown, as much of it as there is room for.
Enough(r, S) ==
  /\ S \subseteq Doc
  /\ Blind(r) \/ \A d \in S : Wanted(r, d)
  /\ Cardinality(S) >= Smaller(r.wanted, Cardinality({d \in Reach(r) : Wanted(r, d)}))

\* Whichever store the reader asked, what acl_filter leaves has that outcome.
LEMMA OutcomeExact ==
  ASSUME KnowInv, reader # None, NEW S \in Outcomes(reader)
  PROVE  Enough(reader, S)
<1> DEFINE W == {d \in Reach(reader) : Wanted(reader, d)}
           r == reader
<1>0. /\ r \in Reader /\ r.base \subseteq Stored /\ Stored \subseteq Doc
      /\ r.ctx \in Context /\ r.wanted \in Limit
  BY DEF KnowInv, KTypeOK, OrNone, Fetched, Stored, Reader
<1>1. /\ r.limit \in Nat /\ r.wanted \in Nat /\ r.wanted <= r.limit
      /\ Pool(r.limit) \in Nat /\ r.limit <= Pool(r.limit)
  BY <1>0, LimitsGrow DEF KnowInv, Fetched
<1>2. ASSUME NEW K, K \subseteq Doc, W \subseteq K, S \subseteq Doc, NEW n \in Nat, r.wanted <= n,
             Cardinality(S) \in Nat, Cardinality(S) >= Smaller(n, Cardinality(K)) 
      PROVE  Cardinality(S) >= Smaller(r.wanted, Cardinality(W))
  <2>1. Cardinality(K) \in Nat /\ Cardinality(W) \in Nat /\ Cardinality(W) <= Cardinality(K)
    BY <1>2, DocsFinite
  <2> HIDE DEF W
  <2> QED BY <1>1, <1>2, <2>1 DEF Smaller
<1>3. CASE kind = "acl"
  <2> DEFINE K == {d \in r.found : /\ SameTenant(r.ctx, Some(entry[d], NoEntry).org)
                                   /\ AclAllows(r.ctx, Some(entry[d], NoEntry).acl)}
  <2>1. S = TopOf(r.limit, K)
    BY <1>3 DEF Outcomes, acl_filter
  <2>2. r.found = TopOf(Pool(r.limit), r.base) /\ Reach(r) = r.found
    BY <1>3 DEF KnowInv, Fetched, Reach, Sided
  <2>3. r.found \subseteq Stored
    BY <1>0, <2>2 DEF TopOf
  <2>4. \A d \in r.found : d \in K <=> Wanted(r, d)
    BY <1>3, <2>3, FilterExact
  <2>5. K \subseteq Doc /\ \A d \in K : Wanted(r, d)
    BY <1>0, <2>3, <2>4
  <2>6. W \subseteq K
    BY <2>2, <2>4
  <2> HIDE DEF K, W
  <2>7. S \subseteq K /\ Cardinality(S) \in Nat /\ Cardinality(S) >= Smaller(r.limit, Cardinality(K))
    BY <1>1, <2>1, <2>5, TopOfSize
  <2>8. Cardinality(S) >= Smaller(r.wanted, Cardinality(W))
    BY <1>1, <1>2, <2>5, <2>6, <2>7
  <2> QED BY <2>5, <2>7, <2>8 DEF Enough, W
<1>4. CASE kind = "curated"
  <2> DEFINE known(d) == Some(entry[d], DefaultMeta)
             K == {d \in r.found : AclAllows(r.ctx, known(d).acl) /\ matches(r.sets, known(d))}
             score == [d \in K |-> (MaxDoc + 1 - d) * known(d).boost]
  <2>1. r.found = TopOf(Pool(r.limit), r.base) /\ Reach(r) = r.found
    BY <1>4 DEF KnowInv, Fetched, Reach, Sided
  <2>2. r.found \subseteq Stored
    BY <1>0, <2>1 DEF TopOf
  <2>3. \A d \in r.found : d \in K <=> Wanted(r, d)
    BY <1>4, <2>2, FilterExact
  <2>4. K \subseteq Doc /\ \A d \in K : Wanted(r, d)
    BY <1>0, <2>2, <2>3
  <2>5. W \subseteq K
    BY <2>1, <2>3
  <2>6. score \in [K -> Int]
    <3>1. ASSUME NEW d \in K PROVE (MaxDoc + 1 - d) * known(d).boost \in Int
      <4>1. d \in Nat /\ MaxDoc \in Nat
        BY <2>4, KnowledgeAssumption DEF Doc
      <4>2. known(d).boost \in Nat
        <5>1. d \in Doc
          BY <2>4
        <5>2. entry[d] # None => entry[d].boost \in Nat
          BY <5>1 DEF KnowInv, KTypeOK, OrNone, Entry
        <5> QED BY <5>2 DEF Some, DefaultMeta
      <4> HIDE DEF known
      <4> QED BY <4>1, <4>2
    <3> QED BY <3>1
  <2>7. S = Boosted(r.limit, K, score)
    <3>1. S = curated_filter(r)
      BY <1>4 DEF Outcomes
    <3>2. \A e, d \in K : score[e] = (MaxDoc + 1 - e) * known(e).boost
      OBVIOUS
    <3> QED BY <3>1, <3>2 DEF curated_filter, Boosted
  <2> HIDE DEF K, W, score
  <2>8. S \subseteq K /\ Cardinality(S) \in Nat /\ Cardinality(S) >= Smaller(r.limit, Cardinality(K))
    BY <1>1, <2>4, <2>6, <2>7, BoostedSize
  <2>9. Cardinality(S) >= Smaller(r.wanted, Cardinality(W))
    BY <1>1, <1>2, <2>4, <2>5, <2>8
  <2> QED BY <2>4, <2>8, <2>9 DEF Enough, W
<1>5. CASE kind = "default"
  <2> DEFINE K == {d \in r.found : SameTenant(r.ctx, NoEntry.org) /\ AclAllows(r.ctx, NoEntry.acl)}
  <2>1. S = TopOf(r.limit, K)
    BY <1>5 DEF Outcomes, acl_filter, Some
  <2>2. r.found \subseteq Doc /\ Reach(r) = {}
    BY <1>0, <1>5 DEF Reader, Reach, Sided
  <2>3. ~Blind(r) => K = {}
    BY <1>5 DEF Blind, SameTenant, NoEntry
  <2>4. K \subseteq Doc
    BY <2>2
  <2> HIDE DEF K
  <2>5. S \subseteq K /\ Cardinality(S) \in Nat
    BY <1>1, <2>1, <2>4, TopOfSize
  <2>6. W = {} /\ Cardinality(W) = 0
    BY <2>2, FS_EmptySet
  <2> HIDE DEF W
  <2>7. Cardinality(S) >= Smaller(r.wanted, Cardinality(W))
    BY <1>1, <2>5, <2>6 DEF Smaller
  <2> QED BY <2>3, <2>4, <2>5, <2>7 DEF Enough, W
<1>6. ASSUME kind \in {"postgres", "dynamodb"}
      PROVE  /\ W = {d \in r.base : /\ RowAllowed(r.ctx, d)
                                    /\ kind = "postgres" => d \in r.scan \cup Worded}
             /\ \A d \in Stored : RowAllowed(r.ctx, d) => Wanted(r, d)
  <2>1. Reach(r) = {d \in r.base : /\ query_org(r.ctx) \in {None, truth[d].org}
                                   /\ kind = "postgres" => d \in r.scan \cup Worded}
    BY <1>6 DEF Reach, Sided
  <2>2. \A d \in Stored : RowAllowed(r.ctx, d) <=>
          Wanted(r, d) /\ query_org(r.ctx) \in {None, truth[d].org}
    BY <1>6, FilterExact
  <2> QED BY <1>0, <2>1, <2>2
<1>7. CASE kind = "postgres"
  <2> DEFINE D == {d \in r.base \cap r.scan : RowAllowed(r.ctx, d)}
             E == {d \in Stored \cap Worded : RowAllowed(r.ctx, d)}
             sparse == TopOf(Pool(r.limit), E)
             hits == r.found \cup sparse
  <2>1. r.found = TopOf(Pool(r.limit), D)
    BY <1>7 DEF KnowInv, Fetched
  <2>2. /\ S \subseteq hits
        /\ Cardinality(S) = IF r.limit < Cardinality(hits) THEN r.limit ELSE Cardinality(hits)
    BY <1>7 DEF Outcomes, FusedTops
  <2>3. /\ D \subseteq Doc /\ E \subseteq Doc /\ W \subseteq D \cup E
        /\ \A d \in D \cup E : Wanted(r, d)
    BY <1>0, <1>6, <1>7
  <2> HIDE DEF W, D, E
  <2>4. /\ r.found \subseteq D /\ sparse \subseteq E
        /\ r.found = D \/ Cardinality(r.found) >= Pool(r.limit)
        /\ sparse = E \/ Cardinality(sparse) >= Pool(r.limit)
    BY <1>1, <2>1, <2>3, TopOfSize
  <2> HIDE DEF sparse
  <2>5. hits \subseteq Doc /\ \A d \in hits : Wanted(r, d)
    BY <2>3, <2>4
  <2>11. r.found \subseteq hits /\ sparse \subseteq hits
    OBVIOUS
  <2>6. /\ Cardinality(hits) \in Nat
        /\ Cardinality(r.found) \in Nat /\ Cardinality(r.found) <= Cardinality(hits)
        /\ Cardinality(sparse) \in Nat /\ Cardinality(sparse) <= Cardinality(hits)
    <3> HIDE DEF hits, r
    <3> QED BY <2>5, <2>11, DocsFinite
  <2>7. Cardinality(hits) >= r.limit \/ W \subseteq hits
    BY <1>1, <2>3, <2>4, <2>6
  <2> HIDE DEF hits
  <2>8. W \subseteq Doc /\ Cardinality(W) \in Nat
    <3>1. W \subseteq Doc
      BY <2>3
    <3> QED BY <3>1, DocsFinite
  <2>9. W \subseteq hits => Cardinality(W) <= Cardinality(hits)
    BY <2>5, DocsFinite
  <2>10. Cardinality(S) >= Smaller(r.wanted, Cardinality(W))
    BY <1>1, <2>2, <2>6, <2>7, <2>8, <2>9 DEF Smaller
  <2> QED BY <2>2, <2>5, <2>10 DEF Enough, W
<1>8. CASE kind = "dynamodb"
  <2> DEFINE K == r.found \cup {d \in Stored \ r.scan : RowAllowed(r.ctx, d)}
  <2>1. S = TopOf(r.limit, K)
    BY <1>8 DEF Outcomes
  <2>2. r.found = {d \in r.base \cap r.scan : RowAllowed(r.ctx, d)}
    BY <1>8 DEF KnowInv, Fetched
  <2>3. K \subseteq Stored /\ \A d \in K : Wanted(r, d)
    BY <1>0, <1>6, <1>8, <2>2
  <2>4. W \subseteq K
    BY <1>0, <1>6, <1>8, <2>2
  <2>5. K \subseteq Doc
    BY <1>0, <2>3
  <2> HIDE DEF K, W
  <2>6. S \subseteq K /\ Cardinality(S) \in Nat /\ Cardinality(S) >= Smaller(r.limit, Cardinality(K))
    BY <1>1, <2>1, <2>5, TopOfSize
  <2>7. Cardinality(S) >= Smaller(r.wanted, Cardinality(W))
    BY <1>1, <1>2, <2>4, <2>5, <2>6
  <2> QED BY <2>3, <2>5, <2>6, <2>7 DEF Enough, W
<1>9. kind \in {"acl", "curated", "default", "postgres", "dynamodb"}
  BY KnowledgeAssumption DEF KnowInv, KTypeOK
<1> QED BY <1>3, <1>4, <1>5, <1>7, <1>8, <1>9

\* What RetrievalExact says of a step.
Exact == Answered => /\ Blind(reader) \/ \A d \in reader'.answer : Wanted(reader, d)
                     /\ Full(reader, Reach(reader))

\* Every step that answers a search does so exactly.
LEMMA AnswerExact == KnowInv /\ [KNext]_kvars => Exact
<1> SUFFICES ASSUME KnowInv, [KNext]_kvars, Answered PROVE Exact
  BY DEF Exact
<1>1. reader # None /\ reader' # reader /\ reader \in Reader
  BY DEF Answered, KnowInv, KTypeOK, OrNone
<1>2. Answer
  BY <1>1 DEF KNext, kvars, RecordIngest, StoreIngest, NewDocument, InsertDocument, PutDocument,
              record_acl, Query
<1>3. PICK S \in Outcomes(reader) : \E T \in apply_optional_rerank(S, reader) :
        reader' = [reader EXCEPT !.answer = T]
  BY <1>2 DEF Answer
<1>4. PICK T \in apply_optional_rerank(S, reader) : reader' = [reader EXCEPT !.answer = T]
  BY <1>3
<1>5. reader'.answer = T
  BY <1>1, <1>4 DEF Reader
<1>6. Enough(reader, S)
  BY <1>1, <1>3, OutcomeExact
<1>7. reader.wanted \in Nat
  BY <1>1, KnowledgeAssumption DEF Reader
<1> DEFINE W == {d \in Reach(reader) : Wanted(reader, d)}
<1>8. /\ T \subseteq S /\ Cardinality(T) \in Nat /\ Cardinality(S) \in Nat
      /\ Cardinality(T) >= Smaller(reader.wanted, Cardinality(S))
  <2>1. S \subseteq Doc
    BY <1>6 DEF Enough
  <2> QED BY <1>4, <1>7, <2>1, RerankSize
<1>9. Cardinality(W) \in Nat
  <2>1. Reach(reader) \subseteq Doc
    BY <1>1 DEF Reach, TopOf, Reader
  <2> QED BY <2>1, DocsFinite
<1>10. Cardinality(S) >= Smaller(reader.wanted, Cardinality(W))
  BY <1>6 DEF Enough
<1> HIDE DEF W
<1>11. Cardinality(T) >= Smaller(reader.wanted, Cardinality(W))
  BY <1>7, <1>8, <1>9, <1>10 DEF Smaller
<1> QED BY <1>5, <1>6, <1>8, <1>11 DEF Exact, Enough, Full, W

\* What the knowledge stores keep of documents and queries keeps its shape.
THEOREM KnowledgeTyped == KSpec => []KTypeOK
<1>1. KnowInv => KTypeOK
  BY DEF KnowInv
<1> QED BY <1>1, KnowInit, KnowStep, PTL DEF KSpec

\* On every store, however ingests and ACL changes fall between the halves of a
\* search, it is answered with documents its requester may read then, and with as
\* many of those it reached as there is room for (AclReader, CuratedReader,
\* PgKnowledgeBase and the DynamoDB knowledge base).
THEOREM SearchesExact == KSpec => RetrievalExact
<1>1. KnowInv /\ [KNext]_kvars => [Exact]_kvars
  BY AnswerExact
<1>2. KSpec => [][Exact]_kvars
  BY <1>1, KnowInit, KnowStep, PTL DEF KSpec
<1> QED BY <1>2 DEF RetrievalExact, Exact
-----------------------------------------------------------------------------
(* Ingestion: the cursor.                                                  *)

\* The pieces of a document as it was at a time.
Pieces(s, d, h) == {<<s, d, h, t>> : t \in ToSet(Chunks[d])}

\* A cursor ahead of the source's clock: the server's time, by its own clock.
Future(k, cur) == \E q \in runs : /\ q.key = k /\ q.ok /\ q.byClock /\ q.cursor = cur
                                  /\ cur <= clock + Skew

\* Time passes: nothing is dated in the future but by the server's clock, and
\* only GitHub dates.
TimesPast ==
  /\ \A s \in Source, d \in Item : head[s][d] # None => head[s][d] <= clock
  /\ \A s \in Source, d \in Item \cap Dated : head[s][d] # None => Describe[s].kind = "github"
  /\ \A r \in runs : r.cursor # None => r.cursor <= clock \/ Future(r.key, r.cursor)
  /\ \A w \in Worker : job[w] # None =>
       job[w].started <= clock + Skew /\ \A x \in job[w].seen : x[2] <= clock

\* A request starts from a cursor that a successful run of its key left.
SinceLeft ==
  \A w \in Worker : job[w] # None /\ job[w].since # None =>
    \E r \in runs : r.key = job[w].key /\ r.ok /\ r.cursor = job[w].since

\* What was pulled is stored or still to be stored.
Owes(j) == {c.piece : c \in j.todo}
PulledKept ==
  \A w \in Worker : job[w] # None =>
    /\ job[w].kept \subseteq base[job[w].key[1]]
    /\ job[w].pulled /\ job[w].whole => \A x \in job[w].seen :
         Pieces(job[w].src, x[1], x[2]) \subseteq base[job[w].key[1]] \cup Owes(job[w])

\* A complete pull left out only what its start had passed, and what has
\* changed since is no earlier than the cursor it will leave, or than the server's
\* clock may be ahead by.
Missed(j, d, h) ==
  \/ <<d, h>> \in j.seen
  \/ j.since # None /\ h < j.since
  \/ NextCursor(j) = None
  \/ NextCursor(j) <= h
  \/ Undated(j) /\ NextCursor(j) <= h + Skew
PulledAll ==
  \A w \in Worker : job[w] # None /\ job[w].pulled /\ job[w].whole =>
    \A d \in Item \cap Dated : head[job[w].src][d] # None => Missed(job[w], d, head[job[w].src][d])

\* The cursor of a key whose runs all got the whole of one source has passed
\* only what is stored, and what the clocks cannot order.
FaithfulTo(k, s) == \A r \in runs : r.key = k /\ r.ok => r.src = s /\ r.whole
Doubt(R, k, h) == \E r \in R : /\ r.key = k /\ r.ok /\ r.byClock
                               /\ h < r.cursor /\ r.cursor <= h + Skew
PassedStored(k, s) ==
  \A r \in runs, d \in Item \cap Dated :
    (/\ r.key = k /\ r.ok /\ r.cursor # None /\ head[s][d] # None /\ head[s][d] < r.cursor
     /\ ~Doubt(runs, k, head[s][d]))
      => Pieces(s, d, head[s][d]) \subseteq base[k[1]]
CoverInv == \A k \in ScopedKey, s \in Source : FaithfulTo(k, s) => PassedStored(k, s)

\* The inductive invariant behind CursorCovers.
IngestInv == /\ ITypeOK /\ TimesPast /\ SinceLeft
             /\ ~SharedLedger => PulledKept /\ PulledAll /\ CoverInv

\* The next cursor is no later than now, unless it is the server's time or the old
\* cursor of a request that pulled nothing.
Bounded(j) == \/ NextCursor(j) <= clock
              \/ Undated(j) /\ NextCursor(j) <= clock + Skew
              \/ NextCursor(j) = j.since /\ Future(j.key, NextCursor(j))
LEMMA NextCursorPast ==
  ASSUME ITypeOK, TimesPast, SinceLeft, NEW w \in Worker, job[w] # None
  PROVE  /\ NextCursor(job[w]) \in OrNone(Time)
         /\ NextCursor(job[w]) # None => Bounded(job[w])
<1> DEFINE j == job[w]
           S == {x[2] : x \in {y \in j.seen : y[1] \in Dated}}
<1>0. j \in Job /\ clock \in Nat /\ MaxClock \in Nat
  BY IngestionAssumption DEF ITypeOK, OrNone, Time
<1>1. S \subseteq Time /\ \A t \in S : t <= clock
  BY <1>0 DEF Job, TimesPast
<1>2. CASE j.seen = {}
  <2>1. NextCursor(j) = j.since
    BY <1>2 DEF NextCursor
  <2>2. j.since # None => j.since <= clock \/ Future(j.key, j.since)
    BY DEF SinceLeft, TimesPast
  <2> QED BY <1>0, <2>1, <2>2 DEF Job, Bounded
<1>3. CASE j.seen # {} /\ S = {}
  <2>1. NextCursor(j) = j.started
    BY <1>3 DEF NextCursor, Highest, Some
  <2>2. Undated(j)
    BY <1>3 DEF Undated
  <2> QED BY <1>0, <2>1, <2>2 DEF Job, TimesPast, OrNone, Bounded
<1>4. CASE j.seen # {} /\ S # {}
  <2>1. Highest(S) \in S
    BY <1>0, <1>1, <1>4, HighestIn DEF Time
  <2>2. Highest(S) # None
    BY <1>1, <2>1, IngestionAssumption DEF Time
  <2>3. NextCursor(j) = Highest(S)
    BY <1>4, <2>2 DEF NextCursor, Some
  <2> QED BY <1>1, <2>1, <2>3 DEF OrNone, Bounded
<1> QED BY <1>2, <1>3, <1>4

\* The cursor a request starts from is one of the runs' cursors.
LEMMA LatestLeft ==
  ASSUME ITypeOK, NEW k
  PROVE  /\ latest_cursor(k) # None =>
              \E r \in runs : r.key = k /\ r.ok /\ r.cursor = latest_cursor(k)
         /\ \A r \in runs : r.key = k /\ r.ok /\ r.cursor # None =>
              latest_cursor(k) # None /\ r.cursor <= latest_cursor(k)
<1> DEFINE Q == {q \in runs : q.key = k /\ q.ok /\ q.cursor # None}
           I == {r.cursor : r \in Q}
<1>1. I \subseteq 0 .. MaxClock /\ MaxClock \in Nat
  BY IngestionAssumption DEF ITypeOK, Run, OrNone, Time
<1>2. latest_cursor(k) = Highest(I)
  BY DEF latest_cursor
<1>3. CASE I = {}
  BY <1>2, <1>3 DEF Highest
<1>4. CASE I # {}
  <2>1. Highest(I) \in I /\ \A y \in I : y <= Highest(I)
    BY <1>1, <1>4, HighestIn
  <2>2. Highest(I) # None
    BY <1>1, <2>1, IngestionAssumption
  <2>3. \E r \in Q : r.cursor = Highest(I)
    BY <2>1
  <2> QED BY <1>2, <2>1, <2>2, <2>3
<1> QED BY <1>3, <1>4

\* Nothing is pulled yet.
LEMMA IngestInit == IInit => IngestInv
<1> SUFFICES ASSUME IInit PROVE IngestInv
  OBVIOUS
<1>1. ITypeOK
  BY IngestionAssumption DEF IInit, ITypeOK, OrNone, Time
<1>2. TimesPast /\ SinceLeft /\ PulledKept /\ PulledAll /\ CoverInv
  BY DEF IInit, TimesPast, SinceLeft, PulledKept, PulledAll, CoverInv, FaithfulTo, PassedStored
<1> QED BY <1>1, <1>2 DEF IngestInv

\* What a chunk of a document is.
LEMMA ChunksTyped ==
  ASSUME ITypeOK, NEW s \in Source, NEW docs \in SUBSET Item,
         NEW bare \in SUBSET {d \in docs \cap Dated : Len(Chunks[d]) > 1},
         \A d \in docs : head[s][d] # None
  PROVE  /\ ChunksOf(s, docs, bare) \subseteq Pending
         /\ bare = {} => \A d \in docs : Pieces(s, d, head[s][d]) \subseteq
                                           {c.piece : c \in ChunksOf(s, docs, bare)}
<1>1. \A d \in Item : Chunks[d] \in Seq(Nat)
  BY IngestionAssumption DEF Item
<1>2. ASSUME NEW d \in docs, NEW i \in DOMAIN issue_to_doc(d, bare)
      PROVE  [doc |-> d, at |-> i, piece |-> <<s, d, head[s][d], issue_to_doc(d, bare)[i]>>]
               \in Pending
  <2>1. issue_to_doc(d, bare) \in Seq(Nat)
    <3>1. CASE d \in bare
      <4>1. issue_to_doc(d, bare) = SubSeq(Chunks[d], 1, 1)
        BY <3>1 DEF issue_to_doc
      <4>2. Chunks[d] \in Seq(Nat) /\ Len(Chunks[d]) > 1
        BY <1>1, <3>1
      <4> QED BY <4>1, <4>2, SubSeqProperties
    <3>2. CASE d \notin bare
      BY <1>1, <3>2 DEF issue_to_doc
    <3> QED BY <3>1, <3>2
  <2>2. i \in Nat /\ issue_to_doc(d, bare)[i] \in Nat
    BY <1>2, <2>1
  <2>3. head[s][d] \in Time
    BY DEF ITypeOK, OrNone
  <2> QED BY <2>2, <2>3 DEF Pending, Piece
<1>3. ChunksOf(s, docs, bare) \subseteq Pending
  BY <1>2 DEF ChunksOf
<1>4. ASSUME bare = {}, NEW d \in docs, NEW t \in ToSet(Chunks[d])
      PROVE  <<s, d, head[s][d], t>> \in {c.piece : c \in ChunksOf(s, docs, bare)}
  <2>1. issue_to_doc(d, bare) = Chunks[d]
    BY <1>4 DEF issue_to_doc
  <2>2. PICK i \in DOMAIN Chunks[d] : Chunks[d][i] = t
    BY DEF ToSet
  <2> DEFINE c == [doc |-> d, at |-> i, piece |-> <<s, d, head[s][d], issue_to_doc(d, bare)[i]>>]
  <2>3. c \in ChunksOf(s, docs, bare)
    BY <2>1, <2>2 DEF ChunksOf
  <2>4. c.piece = <<s, d, head[s][d], t>>
    BY <2>1, <2>2
  <2> QED BY <2>3, <2>4
<1> QED BY <1>3, <1>4 DEF Pieces

\* What a pull may bring exists.
LEMMA PulledExist ==
  ASSUME ITypeOK, NEW s \in Source, NEW since
  PROVE  /\ Pulled(s, since) \in SUBSET Item
         /\ \A d \in Pulled(s, since) : head[s][d] # None
<1>1. Describe[s].kind \in {"github", "web", "file"}
  BY IngestionAssumption
<1>2. /\ pull_files(s) \cup pull_issues(s, since) \subseteq Item
      /\ \A d \in pull_files(s) \cup pull_issues(s, since) : head[s][d] # None
  BY DEF pull_files, pull_issues, Changed
<1>3. /\ pull_directory(s) \subseteq Item
      /\ \A d \in pull_directory(s) : head[s][d] # None
  BY DEF pull_directory
<1>4. /\ pull_page(s) \subseteq Item
      /\ \A d \in pull_page(s) : head[s][d] # None
  BY DEF pull_page
<1> QED BY <1>1, <1>2, <1>3, <1>4 DEF Pulled

\* The job of a worker after a complete or incomplete pull.
PulledJob(j, docs, bare) ==
  [j EXCEPT !.pulled = TRUE, !.todo = ChunksOf(j.src, docs, bare),
            !.seen = {<<d, head[j.src][d]>> : d \in docs},
            !.whole = bare = {} /\ Due(j.src, j.since) \subseteq docs]

\* A pull leaves a well-typed job.
LEMMA PulledJobTyped ==
  ASSUME ITypeOK, NEW j \in Job, NEW docs, docs = Pulled(j.src, j.since),
         NEW bare \in SUBSET {d \in docs \cap Dated : Len(Chunks[d]) > 1}
  PROVE  PulledJob(j, docs, bare) \in Job
<1>1. j.src \in Source
  BY DEF Job
<1>2. docs \in SUBSET Item /\ \A d \in docs : head[j.src][d] # None
  BY <1>1, PulledExist
<1>3. ChunksOf(j.src, docs, bare) \in SUBSET Pending
  BY <1>1, <1>2, ChunksTyped
<1>4. {<<d, head[j.src][d]>> : d \in docs} \in SUBSET (Item \X Time)
  BY <1>1, <1>2 DEF ITypeOK, OrNone
<1>5. (bare = {} /\ Due(j.src, j.since) \subseteq docs) \in BOOLEAN
  OBVIOUS
<1> HIDE DEF Job
<1>6. ASSUME NEW T \in SUBSET Pending, NEW S \in SUBSET (Item \X Time), NEW b \in BOOLEAN
      PROVE  [j EXCEPT !.pulled = TRUE, !.todo = T, !.seen = S, !.whole = b] \in Job
  BY DEF Job
<1> QED BY <1>3, <1>4, <1>5, <1>6 DEF PulledJob

\* Recording a run keeps the runs runs.
LEMMA RunTyped ==
  ASSUME ITypeOK, NEW j \in Job, NEW ok \in BOOLEAN, NEW cursor \in OrNone(Time),
         record_run(j, ok, cursor)
  PROVE  runs' \subseteq Run
<1>1. (ok /\ Undated(j)) \in BOOLEAN
  OBVIOUS
<1>2. ASSUME NEW b \in BOOLEAN
      PROVE  [key |-> j.key, src |-> j.src, ok |-> ok, cursor |-> cursor, whole |-> j.whole,
              byClock |-> b] \in Run
  BY DEF Job, Run
<1> QED BY <1>1, <1>2 DEF record_run, ITypeOK

\* Every step keeps the types.
LEMMA IngestTypes ==
  ASSUME ITypeOK, TimesPast, SinceLeft, INext
  PROVE  ITypeOK'
<1> USE IngestionAssumption
<1>0. \A w \in Worker : job[w] # None => job[w] \in Job
  BY DEF ITypeOK, OrNone
<1>1. CASE Pass
  BY <1>1 DEF Pass, ITypeOK, Time
<1>2. CASE Restart
  <2>1. job' \in [Worker -> OrNone(Job)] /\ listed' \in [Tenant -> SUBSET ConnName]
    BY <1>2 DEF Restart, OrNone
  <2> QED BY <1>2, <2>1 DEF Restart, ITypeOK
<1>3. ASSUME NEW s \in Source, NEW d \in Item, Write(s, d) PROVE ITypeOK'
  <2>1. head' \in [Source -> [Item -> OrNone(Time)]]
    BY <1>3 DEF Write, ITypeOK, OrNone
  <2> QED BY <1>3, <2>1 DEF Write, ITypeOK
<1>4. ASSUME NEW o \in Tenant, NEW id \in ConnId, delete_connector(o, id) PROVE ITypeOK'
  <2>1. config' \in [Tenant \X ConnId -> OrNone(Config)]
    BY <1>4 DEF delete_connector, ITypeOK, OrNone
  <2> QED BY <1>4, <2>1 DEF delete_connector, ITypeOK
<1>5. ASSUME NEW o \in Tenant, NEW id \in ConnId, NEW name \in ConnName, NEW s \in Source,
             create_connector(o, id, name, s) \/ update_connector(o, id, name, s)
      PROVE  ITypeOK'
  <2>1. [name |-> name, src |-> s] \in Config /\ <<o, id>> \in Tenant \X ConnId
    BY DEF Config
  <2>2. upsert(<<o, id>>, [name |-> name, src |-> s]) /\ record_connector(o, name)
    BY <1>5 DEF create_connector, update_connector
  <2>3. config' \in [Tenant \X ConnId -> OrNone(Config)]
    BY <2>1, <2>2 DEF upsert, ITypeOK, OrNone
  <2>4. listed' \in [Tenant -> SUBSET ConnName]
    BY <2>2 DEF record_connector, ITypeOK
  <2> QED BY <1>5, <2>3, <2>4 DEF create_connector, update_connector, ITypeOK
<1>6. ASSUME NEW o \in Tenant, NEW id \in ConnId, NEW w \in Worker, index_connector(w, o, id)
      PROVE  ITypeOK'
  <2>1. config[<<o, id>>] \in Config
    BY <1>6 DEF index_connector, ITypeOK, OrNone
  <2> DEFINE c == config[<<o, id>>]
  <2>2. PICK since \in Since(<<o, c.name>>), t \in ServerTime :
          job' = [job EXCEPT ![w] = [key |-> <<o, c.name>>, src |-> c.src, started |-> t,
                                     since |-> since, pulled |-> FALSE, seen |-> {},
                                     todo |-> {}, kept |-> {}, whole |-> FALSE]]
    BY <1>6 DEF index_connector
  <2>3. since \in OrNone(Time)
    <3>1. latest_cursor(<<o, c.name>>) \in OrNone(Time)
      BY LatestLeft DEF ITypeOK, Run, OrNone
    <3> QED BY <3>1 DEF Since, OrNone
  <2>4. [key |-> <<o, c.name>>, src |-> c.src, started |-> t, since |-> since,
         pulled |-> FALSE, seen |-> {}, todo |-> {}, kept |-> {}, whole |-> FALSE] \in Job
    BY <2>1, <2>2, <2>3 DEF Job, Config, ScopedKey, ServerTime
  <2>5. job' \in [Worker -> OrNone(Job)]
    BY <2>2, <2>4 DEF ITypeOK, OrNone
  <2> QED BY <1>6, <2>5 DEF index_connector, ITypeOK
<1>7. ASSUME NEW w \in Worker, pull(w) PROVE ITypeOK'
  <2> DEFINE docs == Pulled(job[w].src, job[w].since)
  <2>1. PICK bare \in SUBSET {d \in docs \cap Dated : Len(Chunks[d]) > 1} :
          job' = [job EXCEPT ![w] = PulledJob(job[w], docs, bare)]
    BY <1>7 DEF pull, PulledJob
  <2>2. PulledJob(job[w], docs, bare) \in Job
    BY <1>0, <1>7, <2>1, PulledJobTyped DEF pull
  <2>3. job' \in [Worker -> OrNone(Job)]
    BY <2>1, <2>2 DEF ITypeOK, OrNone
  <2> QED BY <1>7, <2>3 DEF pull, ITypeOK
<1>8. ASSUME NEW w \in Worker, job[w] # None, End(w),
             NEW ok \in BOOLEAN, NEW cursor \in OrNone(Time), record_run(job[w], ok, cursor),
             ledger' \subseteq Tenant \X Piece, UNCHANGED <<clock, head, config, base>>
      PROVE  ITypeOK'
  <2>1. job[w] \in Job /\ job[w].key[1] \in Tenant /\ job[w].key[2] \in ConnName
    BY <1>0, <1>8 DEF Job, ScopedKey
  <2>2. job' \in [Worker -> OrNone(Job)]
    BY <1>8 DEF End, ITypeOK, OrNone
  <2>3. listed' \in [Tenant -> SUBSET ConnName]
    BY <1>8, <2>1 DEF End, record_connector, ITypeOK
  <2>4. runs' \subseteq Run
    BY <1>8, <2>1, RunTyped
  <2> QED BY <1>8, <2>2, <2>3, <2>4 DEF ITypeOK
<1>9. ASSUME NEW w \in Worker, PullFails(w) PROVE ITypeOK'
  BY <1>8, <1>9 DEF PullFails, record_failed, OrNone, ITypeOK
<1>10. ASSUME NEW w \in Worker, RunSucceeds(w) PROVE ITypeOK'
  BY <1>8, <1>10, NextCursorPast DEF RunSucceeds, ITypeOK
<1>11. ASSUME NEW w \in Worker, Abandon(w) PROVE ITypeOK'
  <2>1. job' \in [Worker -> OrNone(Job)]
    BY <1>11 DEF Abandon, ITypeOK, OrNone
  <2> QED BY <1>11, <2>1 DEF Abandon, ITypeOK
<1>12. ASSUME NEW w \in Worker, job[w] # None, NEW c \in job[w].todo,
              SkipChunk(w, c) \/ store_chunk(w, c) \/ IngestFails(w, c)
       PROVE  ITypeOK'
  <2>1. job[w] \in Job /\ job[w].key[1] \in Tenant /\ c.piece \in Piece
    BY <1>0, <1>12 DEF Job, ScopedKey, Pending
  <2>2. Record(w, c) => ledger' \subseteq Tenant \X Piece
    BY <2>1 DEF Record, ITypeOK
  <2>3. CASE SkipChunk(w, c)
    <3>1. job' \in [Worker -> OrNone(Job)]
      BY <2>1, <2>3 DEF SkipChunk, ITypeOK, OrNone, Job
    <3> QED BY <2>3, <3>1 DEF SkipChunk, ITypeOK
  <2>4. CASE store_chunk(w, c)
    <3>1. job' \in [Worker -> OrNone(Job)]
      BY <2>1, <2>4 DEF store_chunk, ITypeOK, OrNone, Job
    <3>2. base' \in [Tenant -> SUBSET Piece]
      BY <2>1, <2>4 DEF store_chunk, ITypeOK
    <3> QED BY <2>2, <2>4, <3>1, <3>2 DEF store_chunk, ITypeOK
  <2>5. CASE IngestFails(w, c)
    BY <1>8, <1>12, <2>2, <2>5 DEF IngestFails, record_failed, OrNone, ITypeOK
  <2> QED BY <1>12, <2>3, <2>4, <2>5
<1> QED BY <1>1, <1>2, <1>3, <1>4, <1>5, <1>6, <1>7, <1>9, <1>10, <1>11, <1>12 DEF INext

\* Time passes, documents and runs only get later, and requests keep what they
\* started from.
LEMMA TimesStep ==
  ASSUME ITypeOK, TimesPast, SinceLeft, INext
  PROVE  TimesPast' /\ SinceLeft'
<1> USE IngestionAssumption
<1>0. /\ clock \in Nat /\ \A w \in Worker : job[w] # None => job[w] \in Job
      /\ \A s \in Source, d \in Item : head[s][d] # None => head[s][d] \in Nat
      /\ \A r \in runs : r.cursor # None => r.cursor \in Nat
      /\ Skew \in Nat
      /\ \A w \in Worker : job[w] # None => job[w].started \in Nat /\ \A x \in job[w].seen : x[2] \in Nat
  BY DEF ITypeOK, OrNone, Job, Time, Run
<1>1. ASSUME head' = head, clock' \in Nat, clock <= clock', runs \subseteq runs',
             \A r \in runs' \ runs : r.cursor # None =>
               r.cursor <= clock' \/ Future(r.key, r.cursor)',
             \A w \in Worker : job'[w] # None =>
               /\ job[w] # None /\ job'[w].started = job[w].started
               /\ job'[w].seen \subseteq job[w].seen
               /\ job'[w].since = job[w].since /\ job'[w].key = job[w].key
      PROVE  TimesPast' /\ SinceLeft'
  <2>1. \A r \in runs : r.cursor # None /\ Future(r.key, r.cursor) => Future(r.key, r.cursor)'
    BY <1>0, <1>1 DEF Future
  <2>2. \A r \in runs' : r.cursor # None => r.cursor <= clock' \/ Future(r.key, r.cursor)'
    BY <1>0, <1>1, <2>1 DEF TimesPast
  <2>3. /\ \A s \in Source, d \in Item : head'[s][d] # None => head'[s][d] <= clock'
        /\ \A s \in Source, d \in Item \cap Dated : head'[s][d] # None => Describe[s].kind = "github"
    BY <1>0, <1>1 DEF TimesPast
  <2>4. \A w \in Worker : job'[w] # None =>
          job'[w].started <= clock' + Skew /\ \A x \in job'[w].seen : x[2] <= clock'
    BY <1>0, <1>1 DEF TimesPast
  <2>5. TimesPast'
    BY <2>2, <2>3, <2>4 DEF TimesPast
  <2>6. SinceLeft'
    BY <1>1 DEF SinceLeft
  <2> QED BY <2>5, <2>6
<1>2. CASE Pass
  BY <1>0, <1>1, <1>2 DEF Pass
<1>3. CASE Restart
  BY <1>0, <1>1, <1>3 DEF Restart
<1>4. ASSUME NEW s \in Source, NEW d \in Item, Write(s, d) PROVE TimesPast' /\ SinceLeft'
  <2>1. \A t \in Source, e \in Item : head'[t][e] = head[t][e] \/ (t = s /\ e = d /\ head'[t][e] = clock)
    BY <1>4 DEF Write, ITypeOK
  <2>2. TimesPast'
    BY <1>0, <1>4, <2>1 DEF TimesPast, Write, Future
  <2>3. SinceLeft'
    BY <1>4 DEF SinceLeft, Write
  <2> QED BY <2>2, <2>3
<1>5. ASSUME NEW o \in Tenant, NEW id \in ConnId,
             \/ delete_connector(o, id)
             \/ \E name \in ConnName, s \in Source :
                  create_connector(o, id, name, s) \/ update_connector(o, id, name, s)
      PROVE  TimesPast' /\ SinceLeft'
  <2>1. head' = head /\ clock' = clock /\ runs' = runs /\ job' = job
    BY <1>5 DEF delete_connector, create_connector, update_connector
  <2> QED BY <1>0, <1>1, <2>1
<1>6. ASSUME NEW o \in Tenant, NEW id \in ConnId, NEW w \in Worker, index_connector(w, o, id)
      PROVE  TimesPast' /\ SinceLeft'
  <2> DEFINE k == <<o, config[<<o, id>>].name>>
  <2>1. PICK since \in Since(k), t \in ServerTime :
          job' = [job EXCEPT ![w] = [key |-> k, src |-> config[<<o, id>>].src, started |-> t,
                                     since |-> since, pulled |-> FALSE, seen |-> {},
                                     todo |-> {}, kept |-> {}, whole |-> FALSE]]
    BY <1>6 DEF index_connector
  <2>2. /\ \A v \in Worker \ {w} : job'[v] = job[v]
        /\ job'[w].key = k /\ job'[w].started <= clock + Skew /\ job'[w].since = since
        /\ job'[w].seen = {}
    BY <2>1 DEF ITypeOK, ServerTime
  <2>3. since # None => \E r \in runs : r.key = k /\ r.ok /\ r.cursor = since
    BY <2>1, LatestLeft DEF Since
  <2> HIDE DEF k
  <2>4. TimesPast'
    BY <1>0, <1>6, <2>2 DEF TimesPast, index_connector, Future
  <2>5. ASSUME NEW v \in Worker, job'[v] # None, job'[v].since # None
        PROVE  \E r \in runs' : r.key = job'[v].key /\ r.ok /\ r.cursor = job'[v].since
    <3>1. runs' = runs
      BY <1>6 DEF index_connector
    <3>2. CASE v = w
      BY <2>2, <2>3, <2>5, <3>1, <3>2
    <3>3. CASE v # w
      BY <2>2, <2>5, <3>1, <3>3 DEF SinceLeft
    <3> QED BY <3>2, <3>3
  <2> QED BY <2>4, <2>5 DEF SinceLeft
<1>7. ASSUME NEW w \in Worker, pull(w) PROVE TimesPast' /\ SinceLeft'
  <2> DEFINE docs == Pulled(job[w].src, job[w].since)
  <2>1. PICK bare \in SUBSET {d \in docs \cap Dated : Len(Chunks[d]) > 1} :
          job' = [job EXCEPT ![w] = PulledJob(job[w], docs, bare)]
    BY <1>7 DEF pull, PulledJob
  <2>2. job[w] \in Job
    BY <1>0, <1>7 DEF pull
  <2>3. /\ \A v \in Worker \ {w} : job'[v] = job[v]
        /\ job'[w].key = job[w].key /\ job'[w].started = job[w].started
        /\ job'[w].since = job[w].since
        /\ job'[w].seen = {<<d, head[job[w].src][d]>> : d \in docs}
    BY <2>1, <2>2 DEF ITypeOK, PulledJob, Job
  <2>4. job[w].src \in Source
    BY <2>2 DEF Job
  <2>5. \A d \in docs : d \in Item /\ head[job[w].src][d] # None
    BY <2>4, PulledExist
  <2>6. \A x \in job'[w].seen : x[2] <= clock
    BY <2>3, <2>4, <2>5 DEF TimesPast
  <2>7. TimesPast'
    BY <1>0, <1>7, <2>3, <2>6 DEF TimesPast, pull, Future
  <2>8. SinceLeft'
    BY <1>7, <2>3 DEF SinceLeft, pull
  <2> QED BY <2>7, <2>8
<1>8. ASSUME NEW w \in Worker, PullFails(w) \/ RunSucceeds(w) \/ Abandon(w)
      PROVE  TimesPast' /\ SinceLeft'
  <2>1. \A v \in Worker : job'[v] # None => job'[v] = job[v]
    BY <1>8 DEF PullFails, RunSucceeds, Abandon, End, record_failed, ITypeOK
  <2>2. CASE PullFails(w)
    BY <1>0, <1>1, <2>1, <2>2 DEF PullFails, record_failed, record_run
  <2>3. CASE RunSucceeds(w)
    <3>1. NextCursor(job[w]) # None => Bounded(job[w])
      BY <2>3, NextCursorPast DEF RunSucceeds
    <3>2. ASSUME NEW r \in runs' \ runs, r.cursor # None
          PROVE  r.cursor <= clock' \/ Future(r.key, r.cursor)'
      <4>1. /\ r.key = job[w].key /\ r.ok /\ r.cursor = NextCursor(job[w])
            /\ Undated(job[w]) => r.byClock
        <5> DEFINE q == [key |-> job[w].key, src |-> job[w].src, ok |-> TRUE,
                         cursor |-> NextCursor(job[w]), whole |-> job[w].whole,
                         byClock |-> TRUE /\ Undated(job[w])]
        <5>1. r = q
          BY <2>3, <3>2 DEF RunSucceeds, record_run
        <5>2. /\ q.key = job[w].key /\ q.ok /\ q.cursor = NextCursor(job[w])
              /\ Undated(job[w]) => q.byClock
          OBVIOUS
        <5> QED BY <5>1, <5>2
      <4>2. clock' = clock /\ runs \subseteq runs'
        BY <2>3 DEF RunSucceeds, record_run
      <4>3. CASE NextCursor(job[w]) <= clock
        BY <4>1, <4>2, <4>3
      <4>4. CASE Undated(job[w]) /\ NextCursor(job[w]) <= clock + Skew
        BY <3>2, <4>1, <4>2, <4>4 DEF Future
      <4>5. CASE Future(job[w].key, NextCursor(job[w]))
        BY <4>1, <4>2, <4>5 DEF Future
      <4> QED BY <3>1, <3>2, <4>1, <4>3, <4>4, <4>5 DEF Bounded
    <3> QED BY <1>0, <1>1, <2>1, <2>3, <3>2 DEF RunSucceeds, record_run
  <2>4. CASE Abandon(w)
    BY <1>0, <1>1, <2>1, <2>4 DEF Abandon
  <2> QED BY <1>8, <2>2, <2>3, <2>4
<1>9. ASSUME NEW w \in Worker, job[w] # None, NEW c \in job[w].todo,
             SkipChunk(w, c) \/ store_chunk(w, c) \/ IngestFails(w, c)
      PROVE  TimesPast' /\ SinceLeft'
  <2>0. job[w] \in Job
    BY <1>0, <1>9
  <2>1. CASE SkipChunk(w, c) \/ store_chunk(w, c)
    <3>1. \A v \in Worker : /\ job'[v].started = job[v].started /\ job'[v].seen = job[v].seen
                            /\ job'[v].since = job[v].since /\ job'[v].key = job[v].key
                            /\ v # w => job'[v] = job[v]
      BY <2>0, <2>1 DEF SkipChunk, store_chunk, ITypeOK, Job
    <3>2. /\ head' = head /\ clock' = clock /\ runs' = runs
      BY <2>1 DEF SkipChunk, store_chunk
    <3> QED BY <1>0, <1>1, <1>9, <3>1, <3>2
  <2>2. CASE IngestFails(w, c)
    <3>1. \A v \in Worker : job'[v] # None => job'[v] = job[v]
      BY <2>2 DEF IngestFails, End, record_failed, ITypeOK
    <3> QED BY <1>0, <1>1, <2>2, <3>1 DEF IngestFails, record_failed, record_run
  <2> QED BY <1>9, <2>1, <2>2
<1> QED BY <1>2, <1>3, <1>4, <1>5, <1>6, <1>7, <1>8, <1>9 DEF INext

\* A pull that got everything that was due missed only what its start had passed.
LEMMA WholePull ==
  ASSUME ITypeOK, TimesPast, NEW w \in Worker, job[w] # None,
         NEW docs, docs = Pulled(job[w].src, job[w].since),
         NEW j, j.src = job[w].src, j.since = job[w].since,
         j.seen = {<<d, head[j.src][d]>> : d \in docs},
         Due(j.src, j.since) \subseteq docs,
         NEW d \in Item \cap Dated, head[j.src][d] # None
  PROVE  Missed(j, d, head[j.src][d])
<1>1. j.src \in Source /\ j.since \in OrNone(Time)
  BY DEF ITypeOK, OrNone, Job
<1>2. Describe[j.src].kind = "github"
  BY <1>1 DEF TimesPast
<1>3. CASE j.since = None \/ head[j.src][d] >= j.since
  <2>1. d \in Due(j.src, j.since)
    BY <1>2, <1>3 DEF Due, Changed
  <2>2. d \in docs
    BY <2>1
  <2> QED BY <2>2 DEF Missed
<1>4. CASE j.since # None /\ ~(head[j.src][d] >= j.since)
  <2>1. head[j.src][d] \in Nat /\ j.since \in Nat
    BY <1>1, <1>4, IngestionAssumption DEF ITypeOK, OrNone, Time
  <2> QED BY <1>4, <2>1 DEF Missed
<1> QED BY <1>3, <1>4

\* Every step keeps what was pulled stored or owed.
LEMMA PulledStep ==
  ASSUME ITypeOK, TimesPast, SinceLeft, PulledKept, PulledAll, ~SharedLedger, INext
  PROVE  PulledKept' /\ PulledAll'
<1>0. \A w \in Worker : job[w] # None => job[w] \in Job /\ job[w].key[1] \in Tenant
  BY DEF ITypeOK, OrNone, Job, ScopedKey
<1>1. ASSUME head' = head, \A o \in Tenant : base[o] \subseteq base'[o],
             NEW v \in Worker, job'[v] # None, job'[v] = job[v]
      PROVE  /\ job'[v].kept \subseteq base'[job'[v].key[1]]
             /\ job'[v].pulled /\ job'[v].whole => \A x \in job'[v].seen :
                  Pieces(job'[v].src, x[1], x[2]) \subseteq base'[job'[v].key[1]] \cup Owes(job'[v])
             /\ job'[v].pulled /\ job'[v].whole =>
                  \A d \in Item \cap Dated : head'[job'[v].src][d] # None => Missed(job'[v], d, head'[job'[v].src][d])
  <2>1. base[job[v].key[1]] \subseteq base'[job[v].key[1]]
    BY <1>0, <1>1
  <2>2. /\ job[v].kept \subseteq base'[job[v].key[1]]
        /\ job[v].pulled /\ job[v].whole => \A x \in job[v].seen :
             Pieces(job[v].src, x[1], x[2]) \subseteq base'[job[v].key[1]] \cup Owes(job[v])
    BY <1>1, <2>1 DEF PulledKept
  <2>3. job[v].pulled /\ job[v].whole =>
          \A d \in Item \cap Dated : head[job[v].src][d] # None =>
              Missed(job[v], d, head[job[v].src][d])
    BY <1>1 DEF PulledAll
  <2> QED BY <1>1, <2>2, <2>3
<1>2. ASSUME head' = head, \A o \in Tenant : base[o] \subseteq base'[o],
             \A v \in Worker : job'[v] # None => job'[v] = job[v]
      PROVE  PulledKept' /\ PulledAll'
  BY <1>1, <1>2 DEF PulledKept, PulledAll
<1>3. CASE Pass \/ Restart
  <2>1. head' = head /\ base' = base /\ \A v \in Worker : job'[v] # None => job'[v] = job[v]
    BY <1>3 DEF Pass, Restart
  <2> QED BY <1>2, <2>1
<1>4. ASSUME NEW s \in Source, NEW d \in Item, Write(s, d) PROVE PulledKept' /\ PulledAll'
  <2>1. base' = base /\ job' = job
    BY <1>4 DEF Write
  <2>2. \A t \in Source, e \in Item : head'[t][e] = head[t][e] \/ head'[t][e] = clock
    BY <1>4 DEF Write, ITypeOK
  <2>3. PulledKept'
    BY <2>1 DEF PulledKept
  <2>4. ASSUME NEW v \in Worker, job[v] # None, job[v].pulled, job[v].whole,
               NEW e \in Item \cap Dated, head'[job[v].src][e] # None
        PROVE  Missed(job[v], e, head'[job[v].src][e])
    <3>1. job[v].src \in Source
      BY <1>0, <2>4 DEF Job
    <3>2. CASE head'[job[v].src][e] = head[job[v].src][e]
      BY <2>1, <2>4, <3>2 DEF PulledAll, Missed
    <3>3. CASE head'[job[v].src][e] = clock
      <4>1. /\ NextCursor(job[v]) # None => Bounded(job[v])
            /\ NextCursor(job[v]) \in OrNone(Time)
        BY <2>4, NextCursorPast
      <4>2. clock \in Nat /\ \A x \in Time : x \in Nat
        BY IngestionAssumption DEF ITypeOK, Time
      <4> QED BY <3>3, <4>1, <4>2 DEF Missed, Bounded, OrNone
    <3> QED BY <2>2, <3>1, <3>2, <3>3
  <2> QED BY <2>1, <2>3, <2>4 DEF PulledAll
<1>5. ASSUME NEW o \in Tenant, NEW id \in ConnId,
             \/ delete_connector(o, id)
             \/ \E name \in ConnName, s \in Source :
                  create_connector(o, id, name, s) \/ update_connector(o, id, name, s)
      PROVE  PulledKept' /\ PulledAll'
  <2>1. head' = head /\ base' = base /\ job' = job
    BY <1>5 DEF delete_connector, create_connector, update_connector
  <2> QED BY <1>2, <2>1
<1>6. ASSUME NEW o \in Tenant, NEW id \in ConnId, NEW w \in Worker, index_connector(w, o, id)
      PROVE  PulledKept' /\ PulledAll'
  <2>1. head' = head /\ base' = base
    BY <1>6 DEF index_connector
  <2>2. /\ \A v \in Worker \ {w} : job'[v] = job[v]
        /\ job'[w].kept = {} /\ ~job'[w].pulled
    BY <1>6 DEF index_connector, ITypeOK
  <2>3. PulledKept'
    BY <1>1, <2>1, <2>2 DEF PulledKept
  <2>4. PulledAll'
    BY <1>1, <2>1, <2>2 DEF PulledAll
  <2> QED BY <2>3, <2>4
<1>7. ASSUME NEW w \in Worker, pull(w) PROVE PulledKept' /\ PulledAll'
  <2> DEFINE docs == Pulled(job[w].src, job[w].since)
  <2>1. PICK bare \in SUBSET {d \in docs \cap Dated : Len(Chunks[d]) > 1} :
          job' = [job EXCEPT ![w] = PulledJob(job[w], docs, bare)]
    BY <1>7 DEF pull, PulledJob
  <2>2. job[w] \in Job /\ job[w] # None
    BY <1>0, <1>7 DEF pull
  <2>3. /\ \A v \in Worker \ {w} : job'[v] = job[v]
        /\ job'[w].key = job[w].key /\ job'[w].src = job[w].src
        /\ job'[w].since = job[w].since /\ job'[w].kept = job[w].kept
        /\ job'[w].seen = {<<d, head[job[w].src][d]>> : d \in docs}
        /\ job'[w].todo = ChunksOf(job[w].src, docs, bare)
        /\ job'[w].whole = (bare = {} /\ Due(job[w].src, job[w].since) \subseteq docs)
    BY <2>1, <2>2 DEF ITypeOK, PulledJob, Job
  <2>4. head' = head /\ base' = base
    BY <1>7 DEF pull
  <2>5. job[w].src \in Source
    BY <2>2 DEF Job
  <2>6. docs \in SUBSET Item /\ \A d \in docs : head[job[w].src][d] # None
    BY <2>5, PulledExist
  <2>7. bare = {} => \A d \in docs : Pieces(job[w].src, d, head[job[w].src][d]) \subseteq
                                       {c.piece : c \in ChunksOf(job[w].src, docs, bare)}
    <3> HIDE DEF docs
    <3> QED BY <2>1, <2>5, <2>6, ChunksTyped
  <2> HIDE DEF docs
  <2>8. /\ job'[w].kept \subseteq base'[job'[w].key[1]]
        /\ job'[w].whole => \A x \in job'[w].seen :
             Pieces(job'[w].src, x[1], x[2]) \subseteq Owes(job'[w])
    <3>1. job[w].kept \subseteq base[job[w].key[1]]
      BY <2>2 DEF PulledKept
    <3>2. Owes(job'[w]) = {c.piece : c \in ChunksOf(job[w].src, docs, bare)}
      BY <2>3 DEF Owes
    <3>3. ASSUME job'[w].whole, NEW x \in job'[w].seen
          PROVE  Pieces(job'[w].src, x[1], x[2]) \subseteq Owes(job'[w])
      <4>1. PICK d \in docs : x = <<d, head[job[w].src][d]>>
        BY <2>3, <3>3
      <4>2. x[1] = d /\ x[2] = head[job[w].src][d]
        BY <4>1
      <4>3. bare = {}
        BY <2>3, <3>3
      <4>4. Pieces(job[w].src, d, head[job[w].src][d]) \subseteq Owes(job'[w])
        BY <2>7, <3>2, <4>3
      <4> QED BY <2>3, <4>2, <4>4
    <3> QED BY <2>3, <2>4, <3>1, <3>3
  <2>9. job'[w].whole =>
          \A d \in Item \cap Dated : head'[job'[w].src][d] # None =>
            Missed(job'[w], d, head'[job'[w].src][d])
    <3>1. ASSUME NEW j, j = job'[w], j.whole,
                 NEW d \in Item \cap Dated, head[j.src][d] # None
          PROVE  Missed(j, d, head[j.src][d])
      <4>1. /\ j.src = job[w].src /\ j.since = job[w].since
            /\ j.seen = {<<e, head[j.src][e]>> : e \in docs}
        BY <2>3, <3>1
      <4>2. Due(j.src, j.since) \subseteq docs
        BY <2>3, <3>1, <4>1
      <4>3. docs = Pulled(job[w].src, job[w].since)
        BY DEF docs
      <4> QED BY <2>2, <3>1, <4>1, <4>2, <4>3, WholePull
    <3> QED BY <2>4, <3>1
  <2>10. PulledKept'
    BY <1>1, <2>3, <2>4, <2>8 DEF PulledKept
  <2>11. PulledAll'
    BY <1>1, <2>3, <2>4, <2>9 DEF PulledAll
  <2> QED BY <2>10, <2>11
<1>8. ASSUME NEW w \in Worker, PullFails(w) \/ RunSucceeds(w) \/ Abandon(w)
      PROVE  PulledKept' /\ PulledAll'
  <2>1. head' = head /\ base' = base /\ \A v \in Worker : job'[v] # None => job'[v] = job[v]
    BY <1>8 DEF PullFails, RunSucceeds, Abandon, End, record_failed, ITypeOK
  <2> QED BY <1>2, <2>1
<1>9. ASSUME NEW w \in Worker, job[w] # None, NEW c \in job[w].todo,
             SkipChunk(w, c) \/ store_chunk(w, c)
      PROVE  PulledKept' /\ PulledAll'
  <2>0. job[w] \in Job /\ job[w].key[1] \in Tenant
    BY <1>0, <1>9
  <2>1. /\ \A v \in Worker \ {w} : job'[v] = job[v]
        /\ job'[w].key = job[w].key /\ job'[w].src = job[w].src
        /\ job'[w].since = job[w].since /\ job'[w].started = job[w].started
        /\ job'[w].seen = job[w].seen /\ job'[w].whole = job[w].whole
        /\ job'[w].pulled = job[w].pulled /\ job'[w].todo = job[w].todo \ {c}
        /\ job'[w].kept \subseteq job[w].kept \cup {c.piece} /\ job[w].kept \subseteq job'[w].kept
    BY <1>9, <2>0 DEF SkipChunk, store_chunk, ITypeOK, Job
  <2>2. head' = head /\ \A o \in Tenant : base[o] \subseteq base'[o]
    BY <1>9 DEF SkipChunk, store_chunk, ITypeOK
  <2>3. c.piece \in base'[job[w].key[1]]
    <3>1. CASE SkipChunk(w, c)
      <4>1. c.piece \in job[w].kept
        BY <3>1 DEF SkipChunk, New, Recorded
      <4> QED BY <1>9, <2>0, <2>2, <4>1 DEF PulledKept
    <3>2. CASE store_chunk(w, c)
      BY <2>0, <3>2 DEF store_chunk, ITypeOK
    <3> QED BY <1>9, <3>1, <3>2
  <2>4. /\ job'[w].kept \subseteq base'[job[w].key[1]]
        /\ job[w].pulled /\ job[w].whole => \A x \in job[w].seen :
             Pieces(job[w].src, x[1], x[2]) \subseteq base'[job[w].key[1]] \cup Owes(job'[w])
    <3>1. Owes(job[w]) \subseteq {c.piece} \cup Owes(job'[w])
      BY <2>1 DEF Owes
    <3>2. base[job[w].key[1]] \subseteq base'[job[w].key[1]]
      BY <2>0, <2>2
    <3>3. job[w].kept \subseteq base[job[w].key[1]]
      BY <1>9 DEF PulledKept
    <3>4. job[w].pulled /\ job[w].whole => \A x \in job[w].seen :
             Pieces(job[w].src, x[1], x[2]) \subseteq base[job[w].key[1]] \cup Owes(job[w])
      BY <1>9 DEF PulledKept
    <3> QED BY <2>1, <2>3, <3>1, <3>2, <3>3, <3>4
  <2>5. PulledKept'
    BY <1>1, <2>1, <2>2, <2>4 DEF PulledKept
  <2>6. job[w].pulled /\ job[w].whole =>
          \A d \in Item \cap Dated : head'[job'[w].src][d] # None =>
            Missed(job'[w], d, head'[job'[w].src][d])
    BY <1>9, <2>1, <2>2 DEF PulledAll, Missed, NextCursor, Undated
  <2>7. PulledAll'
    BY <1>1, <2>1, <2>2, <2>6 DEF PulledAll
  <2> QED BY <2>5, <2>7
<1>10. ASSUME NEW w \in Worker, job[w] # None, NEW c \in job[w].todo, IngestFails(w, c)
       PROVE  PulledKept' /\ PulledAll'
  <2>1. head' = head /\ base' = base /\ \A v \in Worker : job'[v] # None => job'[v] = job[v]
    BY <1>10 DEF IngestFails, End, record_failed, ITypeOK
  <2> QED BY <1>2, <2>1
<1> QED BY <1>3, <1>4, <1>5, <1>6, <1>7, <1>8, <1>9, <1>10 DEF INext

\* Every step keeps what the cursors passed stored.
LEMMA CoverStep ==
  ASSUME ITypeOK, TimesPast, SinceLeft, PulledKept, PulledAll, CoverInv, ~SharedLedger, INext
  PROVE  CoverInv'
<1> SUFFICES ASSUME NEW k \in ScopedKey, NEW s \in Source, FaithfulTo(k, s)'
             PROVE  PassedStored(k, s)'
  BY DEF CoverInv
<1>0. /\ k[1] \in Tenant
      /\ \A w \in Worker : job[w] # None => job[w] \in Job
  BY DEF ITypeOK, OrNone, ScopedKey
<1>1. ASSUME head'[s] = head[s], base[k[1]] \subseteq base'[k[1]], runs \subseteq runs',
             \A r \in runs' \ runs : r.cursor = None
      PROVE  PassedStored(k, s)'
  <2>1. FaithfulTo(k, s)
    BY <1>1 DEF FaithfulTo
  <2>2. PassedStored(k, s)
    BY <2>1 DEF CoverInv
  <2>3. \A x : Doubt(runs, k, x) => Doubt(runs', k, x)
    BY <1>1 DEF Doubt
  <2> QED BY <1>1, <2>2, <2>3 DEF PassedStored
<1>2. CASE Pass \/ Restart
  <2>1. head' = head /\ base' = base /\ runs' = runs
    BY <1>2 DEF Pass, Restart
  <2> QED BY <1>1, <2>1
<1>3. ASSUME NEW t \in Source, NEW e \in Item, Write(t, e) PROVE PassedStored(k, s)'
  <2>1. base' = base /\ runs' = runs
    BY <1>3 DEF Write
  <2>2. PassedStored(k, s)
    BY <2>1 DEF CoverInv, FaithfulTo
  <2>3. ASSUME NEW r \in runs, NEW d \in Item \cap Dated, r.key = k, r.ok, r.cursor # None,
               head'[s][d] # None, head'[s][d] < r.cursor, ~Doubt(runs, k, head'[s][d])
        PROVE  Pieces(s, d, head'[s][d]) \subseteq base[k[1]]
    <3>1. head'[s][d] = head[s][d] \/ head'[s][d] = clock
      BY <1>3 DEF Write, ITypeOK
    <3>2. r.cursor <= clock \/ Future(k, r.cursor)
      BY <2>3 DEF TimesPast
    <3>3. clock \in Nat /\ r.cursor \in Nat
      BY <2>3, IngestionAssumption DEF ITypeOK, Run, OrNone, Time
    <3>4. head'[s][d] # clock
      BY <2>3, <3>2, <3>3 DEF Future, Doubt
    <3> QED BY <2>2, <2>3, <3>1, <3>4 DEF PassedStored
  <2> QED BY <2>1, <2>3 DEF PassedStored
<1>4. ASSUME NEW o \in Tenant, NEW id \in ConnId,
             \/ delete_connector(o, id)
             \/ \E name \in ConnName, t \in Source :
                  create_connector(o, id, name, t) \/ update_connector(o, id, name, t)
             \/ \E w \in Worker : index_connector(w, o, id)
      PROVE  PassedStored(k, s)'
  <2>1. head' = head /\ base' = base /\ runs' = runs
    BY <1>4 DEF delete_connector, create_connector, update_connector, index_connector
  <2> QED BY <1>1, <2>1
<1>5. ASSUME NEW w \in Worker, pull(w) \/ PullFails(w) \/ Abandon(w)
      PROVE  PassedStored(k, s)'
  <2>1. /\ head' = head /\ base' = base /\ runs \subseteq runs'
        /\ \A r \in runs' \ runs : r.cursor = None
    <3>1. CASE pull(w)
      BY <3>1 DEF pull
    <3>2. CASE PullFails(w)
      BY <3>2 DEF PullFails, record_failed, record_run
    <3>3. CASE Abandon(w)
      BY <3>3 DEF Abandon
    <3> QED BY <1>5, <3>1, <3>2, <3>3
  <2> QED BY <1>1, <2>1
<1>6. ASSUME NEW w \in Worker, job[w] # None, NEW c \in job[w].todo,
             SkipChunk(w, c) \/ store_chunk(w, c) \/ IngestFails(w, c)
      PROVE  PassedStored(k, s)'
  <2>1. /\ head' = head /\ runs \subseteq runs'
        /\ \A r \in runs' \ runs : r.cursor = None
    BY <1>6 DEF SkipChunk, store_chunk, IngestFails, record_failed, record_run
  <2>2. base[k[1]] \subseteq base'[k[1]]
    BY <1>0, <1>6 DEF SkipChunk, store_chunk, IngestFails, record_failed, ITypeOK
  <2> QED BY <1>1, <2>1, <2>2
<1>7. ASSUME NEW w \in Worker, RunSucceeds(w) PROVE PassedStored(k, s)'
  <2> DEFINE j == job[w]
  <2>1. /\ head' = head /\ base' = base /\ j # None /\ j.pulled /\ j.todo = {} /\ j \in Job
        /\ record_run(j, TRUE, NextCursor(j))
    BY <1>0, <1>7 DEF RunSucceeds
  <2> DEFINE r0 == [key |-> j.key, src |-> j.src, ok |-> TRUE, cursor |-> NextCursor(j),
                    whole |-> j.whole, byClock |-> TRUE /\ Undated(j)]
  <2>2. runs' = runs \/ runs' = runs \cup {r0}
    BY <2>1 DEF record_run
  <2>3. PassedStored(k, s)
    BY <2>2 DEF CoverInv, FaithfulTo
  <2>4. CASE runs' = runs \/ j.key # k
    <3>1. \A r \in runs' : r.key = k => r \in runs
      BY <2>2, <2>4
    <3>2. \A x : Doubt(runs, k, x) => Doubt(runs', k, x)
      BY <2>2 DEF Doubt
    <3> QED BY <2>1, <2>3, <3>1, <3>2 DEF PassedStored
  <2>5. CASE runs' = runs \cup {r0} /\ j.key = k
    <3>1. j.src = s /\ j.whole
      <4>1. r0 \in runs' /\ r0.key = k /\ r0.ok /\ r0.src = j.src /\ r0.whole = j.whole
        BY <2>5
      <4>2. r0.src = s /\ r0.whole
        <5> HIDE DEF r0
        <5> QED BY <4>1 DEF FaithfulTo
      <4> QED BY <4>1, <4>2
    <3>2. ASSUME NEW d \in Item \cap Dated, head[s][d] # None,
                 NextCursor(j) # None, head[s][d] < NextCursor(j),
                 ~Doubt(runs', k, head[s][d])
          PROVE  Pieces(s, d, head[s][d]) \subseteq base[k[1]]
      <4>0. head[s][d] \in Nat /\ NextCursor(j) \in Nat
        BY <2>1, <3>2, NextCursorPast, IngestionAssumption DEF ITypeOK, OrNone, Time
      <4>1. Missed(j, d, head[s][d])
        BY <2>1, <3>1, <3>2 DEF PulledAll
      <4>2. CASE <<d, head[s][d]>> \in j.seen
        <5>1. Owes(j) = {}
          BY <2>1 DEF Owes
        <5>2. \A x \in j.seen : Pieces(j.src, x[1], x[2]) \subseteq base[j.key[1]] \cup Owes(j)
          BY <2>1, <3>1 DEF PulledKept
        <5>3. Pieces(s, <<d, head[s][d]>>[1], <<d, head[s][d]>>[2]) \subseteq base[k[1]]
          BY <2>5, <3>1, <4>2, <5>1, <5>2
        <5> QED BY <5>3
      <4>3. CASE j.since # None /\ head[s][d] < j.since
        <5>1. PICK r \in runs : r.key = j.key /\ r.ok /\ r.cursor = j.since
          BY <2>1, <4>3 DEF SinceLeft
        <5>2. ~Doubt(runs, k, head[s][d])
          BY <2>5, <3>2 DEF Doubt
        <5> QED BY <2>3, <2>5, <3>2, <4>3, <5>1, <5>2 DEF PassedStored
      <4>4. ~(Undated(j) /\ NextCursor(j) <= head[s][d] + Skew)
        <5>1. r0 \in runs' /\ r0.key = k /\ r0.ok /\ r0.cursor = NextCursor(j)
          BY <2>5
        <5>2. Undated(j) => r0.byClock
          OBVIOUS
        <5> HIDE DEF r0
        <5> QED BY <3>2, <5>1, <5>2 DEF Doubt
      <4> QED BY <3>2, <4>0, <4>1, <4>2, <4>3, <4>4 DEF Missed
    <3>3. r0.cursor = NextCursor(j)
      OBVIOUS
    <3>4. \A x : Doubt(runs, k, x) => Doubt(runs', k, x)
      BY <2>5 DEF Doubt
    <3> HIDE DEF r0
    <3> QED BY <2>1, <2>3, <2>5, <3>2, <3>3, <3>4 DEF PassedStored
  <2> QED BY <2>2, <2>4, <2>5
<1> QED BY <1>2, <1>3, <1>4, <1>5, <1>6, <1>7 DEF INext

\* Every step keeps the invariant.
LEMMA IngestStep == IngestInv /\ [INext]_ivars => IngestInv'
<1> SUFFICES ASSUME IngestInv, [INext]_ivars PROVE IngestInv'
  OBVIOUS
<1>1. CASE INext
  <2>1. ITypeOK' /\ TimesPast' /\ SinceLeft'
    BY <1>1, IngestTypes, TimesStep DEF IngestInv
  <2>2. ~SharedLedger => PulledKept' /\ PulledAll' /\ CoverInv'
    BY <1>1, PulledStep, CoverStep DEF IngestInv
  <2> QED BY <2>1, <2>2 DEF IngestInv
<1>2. CASE UNCHANGED ivars
  <2>1. ITypeOK'
    BY <1>2 DEF IngestInv, ITypeOK, ivars
  <2>2. TimesPast' /\ SinceLeft'
    BY <1>2 DEF IngestInv, TimesPast, SinceLeft, Future, ivars
  <2>3. ~SharedLedger => PulledKept' /\ PulledAll'
    BY <1>2 DEF IngestInv, PulledKept, PulledAll, ivars
  <2>4. ~SharedLedger => CoverInv'
    BY <1>2 DEF IngestInv, CoverInv, FaithfulTo, PassedStored, ivars
  <2> QED BY <2>1, <2>2, <2>3, <2>4 DEF IngestInv
<1> QED BY <1>1, <1>2

\* The invariant gives the property.
LEMMA InvCovers == IngestInv => CursorCovers
<1> SUFFICES ASSUME IngestInv, ~SharedLedger, NEW c \in Tenant \X ConnId,
                    config[c] # None, Faithful(c)
             PROVE  Covered(c)
  BY DEF CursorCovers
<1> DEFINE k == <<c[1], config[c].name>>
           s == config[c].src
<1>1. config[c] \in Config /\ k \in ScopedKey /\ s \in Source
  BY DEF IngestInv, ITypeOK, OrNone, Config, ScopedKey
<1>2. FaithfulTo(k, s)
  BY DEF Faithful, FaithfulTo
<1>3. PassedStored(k, s)
  BY <1>1, <1>2 DEF IngestInv, CoverInv
<1> HIDE DEF k, s
<1>4. ASSUME NEW d \in Item \cap Dated, latest_cursor(k) # None, head[s][d] # None,
             head[s][d] < latest_cursor(k), ~Uncertain(k, head[s][d])
      PROVE  Pieces(s, d, head[s][d]) \subseteq base[k[1]]
  <2>1. PICK r \in runs : r.key = k /\ r.ok /\ r.cursor = latest_cursor(k)
    BY <1>4, LatestLeft DEF IngestInv
  <2>2. ~Doubt(runs, k, head[s][d])
    BY <1>4 DEF Uncertain, Doubt
  <2> QED BY <1>3, <1>4, <2>1, <2>2 DEF PassedStored
<1>5. k[1] = c[1]
  BY DEF k
<1> QED BY <1>4, <1>5 DEF Covered, Skips, Pieces, k, s

\* Configs, runs, ledgers, stored chunks and requests keep their shape: what a
\* pull leaves to store, what a run records and what a cursor is.
THEOREM IngestionTyped == ISpec => []ITypeOK
<1>1. IngestInv => ITypeOK
  BY DEF IngestInv
<1> QED BY <1>1, IngestInit, IngestStep, PTL DEF ISpec

\* However runs overlap, fail, are dropped and are retried while their sources
\* change, the cursor of a connector whose runs got the whole of its source has
\* passed only documents that are stored as they are now (indexing.rs, pipeline.rs);
\* where the cursor is the server's own time, for any difference of the two clocks,
\* save those the source dated within that difference before it.
THEOREM CursorsCover == ISpec => []CursorCovers
<1> QED BY IngestInit, IngestStep, InvCovers, PTL DEF ISpec
=============================================================================

---------------------------- MODULE Access_proofs ----------------------------
(***************************************************************************)
(* Proofs about Access, for any number of connections, conversations and   *)
(* sessions, any deployment, any principals and any create frames: tenants *)
(* are kept apart, a verified user's conversation is another one's only    *)
(* through somebody unverified, and nobody is locked out of its own.       *)
(***************************************************************************)
EXTENDS Access, SequenceTheorems, TLAPS

-----------------------------------------------------------------------------
(* Types.                                                                  *)

Email == {None} \cup {f.email : f \in Frame} \cup {a.email : a \in Answer \ {None, Refused}}
Row == [email : Email, by : {"User", "Unscoped", "Denied", "Parked"}]
ConvField == {"org", "rows", "said", "landed", "parked", "creator"}
SessField == {"org", "conv", "conn", "by", "up"}
TaskField == {"stage", "conv", "sess", "row"}

\* What the upgrade makes of a connection: a user's e-mail is somebody's.
IsConn(x) ==
  /\ x.open = TRUE
  /\ x.scope.kind \in {"User", "Unscoped", "Denied"}
  /\ x.scope.kind = "User" => x.scope.email \in Email /\ NonBlankEmail(x.scope.email)

\* An id that is drawn.
Drawn(c) == c \in Conv /\ conv[c].creator # Closed
Opened(s) == s \in Sess /\ sess[s].by # Closed

Conns == DOMAIN conn = Conn /\ \A k \in Conn : conn[k] = Closed \/ IsConn(conn[k])
Convs ==
  /\ DOMAIN conv = Conv
  /\ \A c \in Conv : /\ DOMAIN conv[c] = ConvField /\ conv[c].rows \in Seq(Row)
                     /\ conv[c] = NoConv \/ IsConn(conv[c].creator)
\* A session is of its conversation's organization.
Sessions ==
  /\ DOMAIN sess = Sess
  /\ \A s \in Sess : /\ DOMAIN sess[s] = SessField
                     /\ \/ sess[s] = NoSess
                        \/ /\ IsConn(sess[s].by) /\ Drawn(sess[s].conv)
                           /\ sess[s].org = conv[sess[s].conv].org
Writing(k) == task[k].stage \in {"conversation", "user", "session"}
TaskOK(k) ==
  /\ task[k].stage \in {"none", "named", "conversation", "user", "session"}
  /\ task[k].stage = "named" => task[k].conv \in named
  /\ Writing(k) => /\ DOMAIN task[k] = TaskField /\ task[k].row \in Row
                   /\ Drawn(task[k].conv) /\ Opened(task[k].sess)
                   /\ sess[task[k].sess].conv = task[k].conv
Tasks == DOMAIN task = Conn /\ \A k \in Conn : TaskOK(k)
Names == \A c \in named : Drawn(c)
ShapeInv == Conns /\ Convs /\ Sessions /\ Tasks /\ Names

-----------------------------------------------------------------------------
(* Who owns a conversation.                                                *)

RowsOf(v) == {v.rows[i] : i \in DOMAIN v.rows}
RowSet(c) == RowsOf(conv[c])
Owner(c, email) == \E r \in RowSet(c) : is_owner(r, email)

\* A session of a verified user comes up when its row is written.
SessionOwner(s) == sess[s].by.scope.kind = "User" => Owner(sess[s].conv, sess[s].by.scope.email)
SessionOwned == \A s \in Sess : sess[s].up => SessionOwner(s)

\* A conversation opened by a verified user is owned before anybody knows of it.
OfUser(c) == Drawn(c) /\ conv[c].creator.scope.kind = "User"
CreatorEmail(c) == conv[c].creator.scope.email
Known(c) == \/ c \in named \/ conv[c].said
            \/ \E s \in Sess : sess[s].up /\ sess[s].conv = c
CreatorOwns(c) == OfUser(c) => Owner(c, CreatorEmail(c))
CreatorOwned == \A c \in Conv : Known(c) => CreatorOwns(c)

\* Somebody who is in a user's conversation is that user, or was let in by an
\* address that nobody verified.
Vouched(c, email) ==
  \/ email.who = CreatorEmail(c).who
  \/ \E r \in RowSet(c) : r.by # "User" /\ is_owner(r, email)
UsersVouched ==
  \A c \in Conv : OfUser(c) => \A r \in RowSet(c) : r.by = "User" => Vouched(c, r.email)

\* The row that a create is about to write makes all that true, ...
Promises(k) ==
  LET row == task[k].row
      c == task[k].conv
      by == sess[task[k].sess].by
  IN  /\ by.scope.kind = "User" => row.email = by.scope.email
      /\ CreatorOwns(c) \/ row.email = CreatorEmail(c)
      /\ row.by = "User" /\ OfUser(c) => Vouched(c, row.email)

\* ... and once it is written, it is.
TaskOwned ==
  \A k \in Conn : /\ task[k].stage \in {"conversation", "user"} => Promises(k)
                  /\ task[k].stage = "session"
                       => SessionOwner(task[k].sess) /\ CreatorOwns(task[k].conv)

OwnerInv == SessionOwned /\ CreatorOwned /\ UsersVouched /\ TaskOwned

\* The inductive invariant.
IInv == ShapeInv /\ OwnerInv

-----------------------------------------------------------------------------
(* Rows.                                                                   *)

\* A row added at the end.
LEMMA RowAppended ==
  ASSUME NEW s \in Seq(Row), NEW r \in Row
  PROVE  /\ Append(s, r) \in Seq(Row)
         /\ {Append(s, r)[i] : i \in DOMAIN Append(s, r)} = {s[i] : i \in DOMAIN s} \cup {r}
<1> DEFINE t == Append(s, r)
<1>1. /\ t \in Seq(Row) /\ Len(s) \in Nat /\ Len(t) = Len(s) + 1 /\ t[Len(s) + 1] = r
      /\ \A i \in 1 .. Len(s) : t[i] = s[i]
      /\ DOMAIN t = 1 .. Len(t) /\ DOMAIN s = 1 .. Len(s)
  OBVIOUS
<1> HIDE DEF t
<1>2. \A i \in DOMAIN t : t[i] = r \/ t[i] \in {s[j] : j \in DOMAIN s}
  BY <1>1
<1>3. r \in {t[i] : i \in DOMAIN t}
  BY <1>1
<1>4. \A i \in DOMAIN s : s[i] \in {t[j] : j \in DOMAIN t}
  BY <1>1
<1>5. {t[i] : i \in DOMAIN t} = {s[i] : i \in DOMAIN s} \cup {r}
  BY <1>2, <1>3, <1>4
<1> QED BY <1>1, <1>5 DEF t

\* The parked row added in front.
LEMMA RowParked ==
  ASSUME NEW s \in Seq(Row)
  PROVE  /\ ParkedRow \o s \in Seq(Row)
         /\ {(ParkedRow \o s)[i] : i \in DOMAIN (ParkedRow \o s)}
              = {s[i] : i \in DOMAIN s} \cup {[email |-> None, by |-> "Parked"]}
<1> DEFINE t == ParkedRow \o s
           r == [email |-> None, by |-> "Parked"]
<1>1. r \in Row
  BY DEF Row, Email
<1>2. ParkedRow \in Seq(Row) /\ Len(ParkedRow) = 1 /\ ParkedRow[1] = r
  BY <1>1 DEF ParkedRow
<1> HIDE DEF r
<1>3. /\ t \in Seq(Row) /\ Len(s) \in Nat /\ Len(t) = Len(s) + 1 /\ t[1] = r
      /\ \A i \in 1 .. Len(t) : t[i] = IF i <= 1 THEN ParkedRow[i] ELSE s[i - 1]
      /\ DOMAIN t = 1 .. Len(t) /\ DOMAIN s = 1 .. Len(s)
  BY <1>2, ConcatProperties
<1> HIDE DEF t
<1>4. \A i \in DOMAIN t : t[i] = r \/ t[i] \in {s[j] : j \in DOMAIN s}
  <2> SUFFICES ASSUME NEW i \in DOMAIN t, i # 1 PROVE t[i] \in {s[j] : j \in DOMAIN s}
    BY <1>3
  <2>1. i - 1 \in DOMAIN s /\ t[i] = s[i - 1]
    BY <1>3
  <2> QED BY <2>1
<1>5. r \in {t[i] : i \in DOMAIN t}
  BY <1>3
<1>6. \A i \in DOMAIN s : s[i] \in {t[j] : j \in DOMAIN t}
  <2> SUFFICES ASSUME NEW i \in DOMAIN s PROVE s[i] \in {t[j] : j \in DOMAIN t}
    OBVIOUS
  <2>1. i + 1 \in DOMAIN t /\ t[i + 1] = s[i]
    BY <1>3
  <2> QED BY <2>1
<1>7. {t[i] : i \in DOMAIN t} = {s[i] : i \in DOMAIN s} \cup {r}
  BY <1>4, <1>5, <1>6
<1> QED BY <1>3, <1>7 DEF t, r

\* The owner checks, on the set of rows.
LEMMA OwnerIsOwned ==
  ASSUME NEW c
  PROVE  /\ \A email : OwnedBy(c, email) <=> Owner(c, email)
         /\ \A email : Owner(c, email) => Owned(c)
BY DEF OwnedBy, Owner, RowSet, RowsOf, Rows, Owned, is_owner

\* A conversation keeps its organization, its creator and its rows.
Grown(v, w) ==
  /\ DOMAIN w = ConvField /\ w.rows \in Seq(Row)
  /\ w.org = v.org /\ w.creator = v.creator /\ RowsOf(v) \subseteq RowsOf(w)

\* What lands of a parked create keeps the conversation and adds at most one
\* row, of nobody.
LEMMA LandedKeeps ==
  ASSUME NEW v, DOMAIN v = ConvField, v.rows \in Seq(Row), NEW out
  PROVE  /\ Grown(v, Landed(v, out)) /\ Landed(v, out).said = v.said
         /\ \A r \in RowsOf(Landed(v, out)) : r \in RowsOf(v) \/ r.by = "Parked"
<1>1. CASE ~v.parked \/ out = "none"
  BY <1>1 DEF Landed, Grown
<1>2. CASE ~(~v.parked \/ out = "none") /\ out = "row"
  <2>1. /\ DOMAIN Landed(v, out) = ConvField /\ Landed(v, out).rows = v.rows
        /\ Landed(v, out).org = v.org /\ Landed(v, out).creator = v.creator
        /\ Landed(v, out).said = v.said
    BY <1>2 DEF Landed, ConvField
  <2> QED BY <2>1 DEF Grown, RowsOf
<1>3. CASE ~(~v.parked \/ out = "none") /\ out # "row"
  <2> DEFINE w == Landed(v, out)
             r == [email |-> None, by |-> "Parked"]
  <2>1. /\ DOMAIN w = ConvField /\ w.rows = ParkedRow \o v.rows
        /\ w.org = v.org /\ w.creator = v.creator /\ w.said = v.said
    BY <1>3 DEF Landed, ConvField
  <2>2. w.rows \in Seq(Row) /\ RowsOf(w) = RowsOf(v) \cup {r}
    BY <2>1, RowParked DEF RowsOf
  <2>3. r.by = "Parked"
    OBVIOUS
  <2> HIDE DEF w, r
  <2>4. Grown(v, w) /\ \A q \in RowsOf(w) : q \in RowsOf(v) \/ q.by = "Parked"
    BY <2>1, <2>2, <2>3 DEF Grown
  <2> QED BY <2>1, <2>4 DEF w
<1> QED BY <1>1, <1>2, <1>3

-----------------------------------------------------------------------------
(* What a step does to the conversations and the sessions.                 *)

ConvsGrow == Convs' /\ \A c \in Conv : Drawn(c) => Grown(conv[c], conv'[c])
SessKeep ==
  \A s \in Sess : Opened(s) => /\ sess'[s].by = sess[s].by /\ sess'[s].conv = sess[s].conv
                               /\ sess'[s].org = sess[s].org

\* Whoever is connected is not Closed, and an id that is not drawn has nothing.
LEMMA Distinct ==
  /\ \A x : IsConn(x) => x # Closed
  /\ NoConv.creator = Closed /\ NoConv.rows = <<>> /\ RowsOf(NoConv) = {} /\ ~NoConv.said
  /\ NoSess.by = Closed /\ ~NoSess.up
<1>1. \A x : IsConn(x) => x # Closed
  BY DEF IsConn, Closed
<1>2. /\ NoConv.creator = Closed /\ NoConv.rows = <<>> /\ ~NoConv.said
      /\ NoSess.by = Closed /\ ~NoSess.up
  BY DEF NoConv, NoSess
<1>3. RowsOf(NoConv) = {}
  BY <1>2 DEF RowsOf
<1> QED BY <1>1, <1>2, <1>3

\* A conversation id is drawn or has nothing.
LEMMA DrawnIs ==
  ASSUME Convs, NEW c \in Conv
  PROVE  /\ conv[c] # NoConv <=> Drawn(c)
         /\ Drawn(c) => IsConn(conv[c].creator)
         /\ ~Drawn(c) => RowSet(c) = {} /\ ~conv[c].said
BY Distinct DEF Convs, Drawn, RowSet

\* A session id is opened, on a drawn conversation of its organization, or
\* has nothing.
LEMMA OpenedIs ==
  ASSUME Sessions, NEW s \in Sess
  PROVE  /\ sess[s] # NoSess <=> Opened(s)
         /\ Opened(s) => /\ IsConn(sess[s].by) /\ Drawn(sess[s].conv)
                         /\ sess[s].org = conv[sess[s].conv].org
         /\ sess[s].up => Opened(s)
BY Distinct DEF Sessions, Opened

\* One conversation grows.
LEMMA OneConv ==
  ASSUME Convs, NEW c, Drawn(c), NEW w, Grown(conv[c], w), conv' = [conv EXCEPT ![c] = w]
  PROVE  ConvsGrow /\ conv'[c] = w /\ \A d \in Conv : d # c => conv'[d] = conv[d]
<1>1. c \in Conv
  BY DEF Drawn
<1>2. DOMAIN conv' = Conv /\ conv'[c] = w /\ \A d \in Conv : d # c => conv'[d] = conv[d]
  BY <1>1 DEF Convs
<1>3. IsConn(w.creator)
  BY <1>1, DrawnIs DEF Grown
<1>4. Convs'
  BY <1>2, <1>3 DEF Convs, Grown
<1>5. \A d \in Conv : Grown(conv[d], conv[d])
  BY DEF Grown, Convs
<1> QED BY <1>2, <1>4, <1>5 DEF ConvsGrow

\* No conversation changes.
LEMMA SameConvs ==
  ASSUME Convs, UNCHANGED conv PROVE ConvsGrow
BY DEF Convs, ConvsGrow, Grown

\* A conversation's id is drawn.
LEMMA NewConv ==
  ASSUME Convs, NEW c \in Conv, conv[c] = NoConv,
         NEW w, DOMAIN w = ConvField, w.rows = <<>>, IsConn(w.creator), ~w.said,
         conv' = [conv EXCEPT ![c] = w]
  PROVE  /\ ConvsGrow /\ \A d \in Conv : d # c => conv'[d] = conv[d]
         /\ conv'[c] = w /\ Drawn(c)' /\ RowSet(c)' = {}
<1>1. RowsOf(w) = {}
  BY DEF RowsOf
<1>2. DOMAIN conv' = Conv /\ conv'[c] = w /\ \A d \in Conv : d # c => conv'[d] = conv[d]
  BY DEF Convs
<1>3. <<>> \in Seq(Row)
  OBVIOUS
<1>4. Convs'
  BY <1>2, <1>3 DEF Convs
<1>5. \A d \in Conv : Grown(conv[d], conv[d])
  BY DEF Grown, Convs
<1>6. \A d \in Conv : Drawn(d) => d # c
  BY DrawnIs
<1> QED BY <1>1, <1>2, <1>4, <1>5, <1>6, Distinct DEF ConvsGrow, Drawn, RowSet

\* What is drawn stays drawn.
LEMMA StaysDrawn ==
  ASSUME ConvsGrow PROVE \A c : Drawn(c) => Drawn(c)' /\ conv'[c].org = conv[c].org
                                            /\ conv'[c].creator = conv[c].creator
                                            /\ RowSet(c) \subseteq RowSet(c)'
BY DEF ConvsGrow, Drawn, Grown, RowSet

\* What is opened stays opened.
LEMMA StaysOpened ==
  ASSUME SessKeep PROVE \A s : Opened(s) => Opened(s)'
BY DEF SessKeep, Opened

\* The sessions that a step leaves alone, or opens.
LEMMA SessionsKept ==
  ASSUME Sessions, ConvsGrow, DOMAIN sess' = Sess,
         \A s \in Sess :
           \/ sess'[s] = sess[s]
           \/ /\ Opened(s) /\ DOMAIN sess'[s] = SessField /\ sess'[s].by = sess[s].by
              /\ sess'[s].conv = sess[s].conv /\ sess'[s].org = sess[s].org
           \/ /\ ~Opened(s) /\ DOMAIN sess'[s] = SessField
              /\ IsConn(sess'[s].by) /\ Drawn(sess[s].conv)'
              /\ sess'[s].org = conv'[sess'[s].conv].org
  PROVE  Sessions' /\ SessKeep
<1>1. SessKeep
  BY DEF SessKeep
<1>2. \A s \in Sess : DOMAIN sess'[s] = SessField
  BY DEF Sessions
<1>3. ASSUME NEW s \in Sess
      PROVE  \/ sess'[s] = NoSess
             \/ /\ IsConn(sess'[s].by) /\ Drawn(sess[s].conv)'
                /\ sess'[s].org = conv'[sess'[s].conv].org
  <2>1. CASE Opened(s)
    <3>1. IsConn(sess[s].by) /\ Drawn(sess[s].conv) /\ sess[s].org = conv[sess[s].conv].org
      BY <2>1, OpenedIs
    <3>2. sess'[s].by = sess[s].by /\ sess'[s].conv = sess[s].conv /\ sess'[s].org = sess[s].org
      BY <1>1, <2>1 DEF SessKeep
    <3>3. Drawn(sess[s].conv)'
      BY <3>1, <3>2, StaysDrawn DEF Drawn
    <3> QED BY <3>1, <3>2, <3>3, StaysDrawn
  <2>2. CASE ~Opened(s)
    BY <2>2, OpenedIs
  <2> QED BY <2>1, <2>2
<1> QED BY <1>1, <1>2, <1>3 DEF Sessions

\* The rest of the shape, from what a step does to the tasks.
LEMMA ShapeKept ==
  ASSUME ShapeInv, ConvsGrow, SessKeep, Sessions', Conns', named \subseteq named',
         \A c \in named' : Drawn(c)',
         DOMAIN task' = Conn, \A k \in Conn : task'[k] = task[k] \/ TaskOK(k)'
  PROVE  ShapeInv'
<1>1. ASSUME NEW k \in Conn, task'[k] = task[k] PROVE TaskOK(k)'
  <2>1. TaskOK(k)
    BY DEF ShapeInv, Tasks
  <2>2. CASE Writing(k)
    <3>1. Drawn(task[k].conv) /\ Opened(task[k].sess)
      BY <2>1, <2>2 DEF TaskOK
    <3>2. Drawn(task[k].conv)'
      BY <1>1, <3>1, StaysDrawn DEF Drawn
    <3>3. Opened(task[k].sess)'
      BY <1>1, <3>1, StaysOpened DEF Opened
    <3>4. sess'[task[k].sess].conv = sess[task[k].sess].conv
      BY <3>1 DEF SessKeep, Opened
    <3> QED BY <1>1, <2>1, <3>2, <3>3, <3>4 DEF TaskOK, Writing
  <2>3. CASE ~Writing(k)
    BY <1>1, <2>1, <2>3 DEF TaskOK, Writing
  <2> QED BY <2>2, <2>3
<1>2. Tasks'
  BY <1>1 DEF Tasks
<1> QED BY <1>2 DEF ShapeInv, ConvsGrow, Names

-----------------------------------------------------------------------------
(* Owners stay owners.                                                     *)

\* As a conversation gains rows, what was said of its owners stays true.
LEMMA OwnersStay ==
  ASSUME ConvsGrow, NEW c, Drawn(c)
  PROVE  /\ \A email : Owner(c, email) => Owner(c, email)'
         /\ \A email : Vouched(c, email) => Vouched(c, email)'
         /\ OfUser(c)' <=> OfUser(c)
         /\ CreatorEmail(c)' = CreatorEmail(c)
         /\ CreatorOwns(c) => CreatorOwns(c)'
<1>1. /\ Drawn(c)' /\ conv'[c].creator = conv[c].creator /\ RowSet(c) \subseteq RowSet(c)'
  BY StaysDrawn
<1>2. CreatorEmail(c)' = CreatorEmail(c)
  BY <1>1 DEF CreatorEmail
<1>3. \A email : Owner(c, email) => Owner(c, email)'
  BY <1>1 DEF Owner
<1>4. \A email : Vouched(c, email) => Vouched(c, email)'
  BY <1>1, <1>2 DEF Vouched
<1>5. OfUser(c)' <=> OfUser(c)
  BY <1>1 DEF OfUser
<1> QED BY <1>2, <1>3, <1>4, <1>5 DEF CreatorOwns

\* A verified user's session stays owned.
LEMMA SessionOwnerStays ==
  ASSUME Sessions, ConvsGrow, SessKeep, NEW s, Opened(s), SessionOwner(s)
  PROVE  SessionOwner(s)'
<1>1. s \in Sess
  BY DEF Opened
<1>2. sess'[s].by = sess[s].by /\ sess'[s].conv = sess[s].conv /\ Drawn(sess[s].conv)
  BY <1>1, OpenedIs DEF SessKeep
<1>3. \A email : Owner(sess[s].conv, email) => Owner(sess[s].conv, email)'
  BY <1>2, OwnersStay DEF Owner, RowSet
<1> QED BY <1>2, <1>3 DEF SessionOwner

\* Whatever is known is drawn.
LEMMA KnownDrawn ==
  ASSUME ShapeInv, NEW c \in Conv, Known(c) PROVE Drawn(c)
BY DrawnIs, OpenedIs DEF Known, ShapeInv, Names

\* A create whose ids are fixed and that has not written its row yet.
Fixed(k) == task[k].stage \in {"conversation", "user"}
Stays(k) ==
  /\ Fixed(k)
  /\ task'[k].row = task[k].row /\ task'[k].conv = task[k].conv /\ task'[k].sess = task[k].sess

\* What a step has to show about the sessions, the conversations and the rows
\* that it adds.
LEMMA OwnersKept ==
  ASSUME ShapeInv, OwnerInv, ConvsGrow, SessKeep,
         \A s \in Sess : sess'[s].up => sess[s].up \/ SessionOwner(s)',
         \A c \in Conv : Known(c)' => Known(c) \/ CreatorOwns(c)',
         \A c \in Conv : OfUser(c)' => \A r \in RowSet(c)' :
           r \in RowSet(c) \/ r.by # "User" \/ Vouched(c, r.email)',
         \A k \in Conn : Fixed(k)' => Stays(k) \/ Promises(k)',
         \A k \in Conn : task'[k].stage = "session"
           => \/ task'[k] = task[k]
              \/ SessionOwner(task[k].sess)' /\ CreatorOwns(task[k].conv)'
  PROVE  OwnerInv'
<1>1. SessionOwned'
  <2> SUFFICES ASSUME NEW s \in Sess, sess'[s].up, sess[s].up PROVE SessionOwner(s)'
    BY DEF SessionOwned
  <2>1. Opened(s) /\ SessionOwner(s)
    BY OpenedIs DEF ShapeInv, OwnerInv, SessionOwned
  <2> QED BY <2>1, SessionOwnerStays DEF ShapeInv
<1>2. CreatorOwned'
  BY KnownDrawn, OwnersStay DEF OwnerInv, CreatorOwned
<1>3. UsersVouched'
  <2> SUFFICES ASSUME NEW c \in Conv, OfUser(c)', NEW r \in RowSet(c), r.by = "User"
               PROVE  Vouched(c, r.email)'
    BY DEF UsersVouched
  <2>1. Drawn(c)
    BY DrawnIs DEF ShapeInv
  <2>2. OfUser(c) /\ Vouched(c, r.email)
    BY <2>1, OwnersStay DEF OwnerInv, UsersVouched
  <2> QED BY <2>1, <2>2, OwnersStay
<1>4. ASSUME NEW k \in Conn, Fixed(k)' PROVE Promises(k)'
  <2> SUFFICES ASSUME Stays(k) PROVE Promises(k)'
    BY <1>4
  <2>1. Promises(k) /\ TaskOK(k) /\ Writing(k)
    BY DEF Stays, Fixed, OwnerInv, TaskOwned, ShapeInv, Tasks, Writing
  <2> DEFINE c == task[k].conv
             s == task[k].sess
             row == task[k].row
  <2>2. Drawn(c) /\ Opened(s)
    BY <2>1 DEF TaskOK
  <2>3. task'[k].row = row /\ task'[k].conv = c /\ task'[k].sess = s
    BY DEF Stays
  <2>4. sess'[s].by = sess[s].by
    BY <2>2 DEF SessKeep, Opened
  <2>5. PICK d, e : d = c /\ e = row.email
    OBVIOUS
  <2>6. /\ Vouched(d, e) => Vouched(d, e)'
        /\ OfUser(d)' <=> OfUser(d)
        /\ CreatorEmail(d)' = CreatorEmail(d)
        /\ CreatorOwns(d) => CreatorOwns(d)'
    BY <2>2, <2>5, OwnersStay
  <2>7. /\ CreatorOwns(task[k].conv)' <=> CreatorOwns(d)'
        /\ OfUser(task[k].conv)' <=> OfUser(d)'
        /\ CreatorEmail(task[k].conv)' = CreatorEmail(d)'
        /\ Vouched(task[k].conv, task[k].row.email)' <=> Vouched(d, e)'
    BY <2>3, <2>5 DEF CreatorOwns, OfUser, Drawn, CreatorEmail, Vouched, Owner, RowSet
  <2> QED BY <2>1, <2>3, <2>4, <2>5, <2>6, <2>7 DEF Promises
<1>5. ASSUME NEW k \in Conn, task'[k].stage = "session"
      PROVE  SessionOwner(task[k].sess)' /\ CreatorOwns(task[k].conv)'
  <2> SUFFICES ASSUME task'[k] = task[k]
               PROVE  SessionOwner(task[k].sess)' /\ CreatorOwns(task[k].conv)'
    BY <1>5
  <2>1. /\ SessionOwner(task[k].sess) /\ CreatorOwns(task[k].conv) /\ TaskOK(k) /\ Writing(k)
    BY <1>5 DEF OwnerInv, TaskOwned, ShapeInv, Tasks, Writing
  <2>2. PICK d, s : d = task[k].conv /\ s = task[k].sess
    OBVIOUS
  <2>3. Drawn(d) /\ Opened(s)
    BY <2>1, <2>2 DEF TaskOK
  <2>4. SessionOwner(s)' /\ CreatorOwns(d)'
    BY <2>1, <2>2, <2>3, OwnersStay, SessionOwnerStays DEF ShapeInv
  <2> QED BY <2>2, <2>4 DEF SessionOwner, CreatorOwns, OfUser, Drawn, CreatorEmail, Owner, RowSet
<1> QED BY <1>1, <1>2, <1>3, <1>4, <1>5 DEF OwnerInv, TaskOwned, Fixed

-----------------------------------------------------------------------------
(* Connections, names and tasks that end.                                  *)

\* What the upgrade accepts is a connection.
LEMMA UpgradeIsConn ==
  ASSUME NEW answer \in Answer,
         resolve_ws_access(dep.mode, dep.strict_auth, answer) # Refused
  PROVE  IsConn([open |-> TRUE,
                 org |-> resolve_ws_access(dep.mode, dep.strict_auth, answer).org,
                 scope |-> resolve_ws_access(dep.mode, dep.strict_auth, answer).scope])
<1> DEFINE auth == resolve_ws_access(dep.mode, dep.strict_auth, answer)
           w == [open |-> TRUE, org |-> auth.org, scope |-> auth.scope]
<1>0. w.open = TRUE /\ w.scope = auth.scope
  OBVIOUS
<1> SUFFICES IsConn(w)
  OBVIOUS
<1> HIDE DEF w
<1>1. CASE answer \in {None, Refused}
  <2>1. auth = [access |-> anonymous, org |-> None, scope |-> anonymous_scope(dep.mode)]
    BY <1>1 DEF resolve_ws_access, Anonymous
  <2>2. auth.scope = anonymous_scope(dep.mode)
    BY <2>1
  <2>3. auth.scope.kind \in {"Unscoped", "Denied"}
    BY <2>2 DEF anonymous_scope, Unscoped, Denied
  <2> HIDE DEF auth
  <2> QED BY <1>0, <2>3 DEF IsConn
<1>2. CASE answer \notin {None, Refused}
  <2>1. auth.scope = IF answer.email # None THEN User(answer.email)
                     ELSE IF is_single_user_mode(dep.mode) THEN Unscoped ELSE Denied
    BY <1>2 DEF resolve_ws_access
  <2>2. /\ auth.scope.kind \in {"User", "Unscoped", "Denied"}
        /\ auth.scope.kind = "User" => auth.scope.email = answer.email /\ answer.email # None
    BY <2>1 DEF User, Unscoped, Denied
  <2>3. answer.email \in Email
    BY <1>2 DEF Email
  <2>4. answer.email # None => NonBlankEmail(answer.email)
    BY <1>2, AnswerAssumption DEF NonBlankEmail
  <2> HIDE DEF auth
  <2> QED BY <1>0, <2>2, <2>3, <2>4 DEF IsConn
<1> QED BY <1>1, <1>2

\* A step that leaves the conversations and the sessions alone, and adds no task.
LEMMA QuietStep ==
  ASSUME IInv, UNCHANGED <<conv, sess>>, Conns', DOMAIN task' = Conn,
         named \subseteq named', \A c \in named' : Drawn(c) /\ CreatorOwns(c),
         \A k \in Conn : task'[k] = task[k] \/ task'[k] = NoTask
  PROVE  IInv'
<1>1. ConvsGrow
  BY SameConvs DEF IInv, ShapeInv
<1>2. SessKeep
  BY DEF SessKeep
<1>3. Sessions'
  BY DEF IInv, ShapeInv, Sessions, Drawn
<1>4. \A k \in Conn : task'[k] = NoTask => task'[k].stage = "none"
  BY DEF NoTask
<1>5. \A k \in Conn : task'[k] = task[k] \/ TaskOK(k)'
  BY <1>4 DEF TaskOK, Writing
<1>6. ShapeInv'
  BY <1>1, <1>2, <1>3, <1>5, ShapeKept DEF IInv, Drawn
<1>7. \A c : (CreatorOwns(c)' <=> CreatorOwns(c)) /\ RowSet(c)' = RowSet(c)
  BY DEF CreatorOwns, OfUser, Drawn, CreatorEmail, Owner, RowSet
<1>8. \A c \in Conv : Known(c)' => Known(c) \/ CreatorOwns(c)'
  BY <1>7 DEF Known
<1>9. \A k \in Conn : Fixed(k)' => Stays(k)
  BY <1>4 DEF Fixed, Stays
<1>10. \A k \in Conn : task'[k].stage = "session" => task'[k] = task[k]
  BY <1>4
<1>11. OwnerInv'
  BY <1>1, <1>2, <1>7, <1>8, <1>9, <1>10, OwnersKept DEF IInv
<1> QED BY <1>6, <1>11 DEF IInv

\* What a client was told stays drawn and owned.
LEMMA NamedOwned ==
  ASSUME IInv PROVE \A c \in named : c \in Conv /\ Drawn(c) /\ CreatorOwns(c)
BY DEF IInv, ShapeInv, Names, OwnerInv, CreatorOwned, Known, Drawn

\* ws_upgrade.
LEMMA ConnectStep ==
  ASSUME IInv, NEW k \in Conn, NEW answer \in Answer, Connect(k, answer) PROVE IInv'
<1>1. Conns'
  <2> DEFINE w == [open |-> TRUE,
                   org |-> resolve_ws_access(dep.mode, dep.strict_auth, answer).org,
                   scope |-> resolve_ws_access(dep.mode, dep.strict_auth, answer).scope]
  <2>1. IsConn(w) /\ conn' = [conn EXCEPT ![k] = w]
    BY UpgradeIsConn DEF Connect
  <2> HIDE DEF w
  <2> QED BY <2>1 DEF IInv, ShapeInv, Conns
<1>2. UNCHANGED <<conv, sess, task, named>> /\ DOMAIN task = Conn
  BY DEF Connect, IInv, ShapeInv, Tasks
<1> QED BY <1>1, <1>2, NamedOwned, QuietStep

\* A write fails.
LEMMA WriteFailsStep ==
  ASSUME IInv, NEW k \in Conn, WriteFails(k) PROVE IInv'
<1>1. UNCHANGED <<conv, sess, conn, named>> /\ Conns'
  BY DEF WriteFails, IInv, ShapeInv, Conns
<1>2. DOMAIN task' = Conn /\ \A j \in Conn : task'[j] = task[j] \/ task'[j] = NoTask
  BY DEF WriteFails, IInv, ShapeInv, Tasks
<1> QED BY <1>1, <1>2, NamedOwned, QuietStep

\* What a sidebar lists has a message, so it is drawn and known.
LEMMA ListedKnown ==
  ASSUME IInv, NEW k
  PROVE  \A c \in handle_list_conversations(k) : c \in Conv /\ Drawn(c) /\ CreatorOwns(c)
<1>1. \A c \in handle_list_conversations(k) : c \in Conv /\ conv[c].said
  BY DEF handle_list_conversations
<1>2. \A c \in Conv : conv[c].said => Drawn(c) /\ CreatorOwns(c)
  BY DrawnIs DEF IInv, ShapeInv, OwnerInv, CreatorOwned, Known
<1> QED BY <1>1, <1>2

\* handle_list_conversations, and the reads of a session.
LEMMA ListStep ==
  ASSUME IInv, NEW k \in Conn, ListConversations(k) PROVE IInv'
<1>1. UNCHANGED <<conv, sess, conn, task>> /\ Conns' /\ DOMAIN task = Conn
      /\ named' = named \cup handle_list_conversations(k)
  BY DEF ListConversations, IInv, ShapeInv, Conns, Tasks
<1> QED BY <1>1, NamedOwned, ListedKnown, QuietStep

-----------------------------------------------------------------------------
(* Steps that write to one conversation.                                   *)

\* A conversation lands, or gets a message, or a row of nobody's.
LEMMA ConvStep ==
  ASSUME IInv, NEW c, Drawn(c), NEW w, Grown(conv[c], w), conv' = [conv EXCEPT ![c] = w],
         \A r \in RowsOf(w) : r \in RowSet(c) \/ r.by # "User",
         w.said => conv[c].said \/ CreatorOwns(c),
         UNCHANGED <<conn, sess, named>>, DOMAIN task' = Conn,
         \A k \in Conn : \/ task'[k] = task[k]
                         \/ /\ TaskOK(k)' /\ task'[k].stage # "session"
                            /\ Fixed(k)' => Stays(k)
  PROVE  IInv'
<1>0. Convs
  BY DEF IInv, ShapeInv
<1>1. ConvsGrow /\ conv'[c] = w /\ \A d \in Conv : d # c => conv'[d] = conv[d]
  BY ONLY <1>0, Drawn(c), Grown(conv[c], w), conv' = [conv EXCEPT ![c] = w], OneConv
<1>2. Sessions' /\ SessKeep
  BY <1>1, SessionsKept DEF IInv, ShapeInv, Sessions
<1>3. Conns'
  BY DEF IInv, ShapeInv, Conns
<1>4. \A d \in named' : Drawn(d)'
  BY <1>1, StaysDrawn DEF IInv, ShapeInv, Names
<1>5. ShapeInv'
  BY <1>1, <1>2, <1>3, <1>4, ShapeKept DEF IInv
<1>6. ASSUME NEW d \in Conv, Known(d)' PROVE Known(d) \/ CreatorOwns(d)'
  <2>1. CASE conv'[d].said /\ d = c
    BY <1>1, <2>1, OwnersStay DEF Known
  <2>2. CASE conv'[d].said /\ d # c
    BY <1>1, <2>2 DEF Known
  <2>3. CASE ~conv'[d].said
    BY <1>6, <2>3 DEF Known
  <2> QED BY <2>1, <2>2, <2>3
<1>7. \A d \in Conv : \A r \in RowSet(d)' : r \in RowSet(d) \/ r.by # "User"
  BY <1>1 DEF RowSet
<1>8. \A k \in Conn : Fixed(k)' => Stays(k)
  BY DEF Fixed, Stays
<1>9. \A s \in Sess : sess'[s].up => sess[s].up
  OBVIOUS
<1>10. \A k \in Conn : task'[k].stage = "session" => task'[k] = task[k]
  OBVIOUS
<1>11. OwnerInv'
  BY <1>1, <1>2, <1>6, <1>7, <1>8, <1>9, <1>10, OwnersKept DEF IInv
<1> QED BY <1>5, <1>11 DEF IInv

\* A create that names a conversation.
LEMMA NameStep ==
  ASSUME IInv, NEW k \in Conn, NEW cid \in Conv, NEW out, NameConversation(k, cid, out)
  PROVE  IInv'
<1> DEFINE w == Landed(conv[cid], out)
<1>1. cid \in named /\ Drawn(cid)
  BY NamedOwned DEF NameConversation
<1>2. DOMAIN conv[cid] = ConvField /\ conv[cid].rows \in Seq(Row)
  BY DEF IInv, ShapeInv, Convs
<1>3. conv' = [conv EXCEPT ![cid] = w]
  BY DEF NameConversation
<1>4. /\ Grown(conv[cid], w) /\ w.said = conv[cid].said
      /\ \A r \in RowsOf(w) : r \in RowSet(cid) \/ r.by # "User"
  BY <1>2, LandedKeeps DEF RowSet
<1>5. UNCHANGED <<conn, sess, named>>
  BY DEF NameConversation
<1>6. /\ DOMAIN task' = Conn /\ \A j \in Conn : j # k => task'[j] = task[j]
      /\ task'[k] = [stage |-> "named", conv |-> cid]
  BY DEF NameConversation, IInv, ShapeInv, Tasks
<1>7. task'[k].stage = "named" /\ task'[k].conv = cid
  BY <1>6
<1>8. TaskOK(k)' /\ ~Fixed(k)'
  BY <1>1, <1>5, <1>7 DEF TaskOK, Writing, Fixed
<1> HIDE DEF w
<1> QED BY <1>1, <1>3, <1>4, <1>5, <1>6, <1>7, <1>8, ConvStep

\* What a turn does to its conversation.
LEMMA MessageKeeps ==
  ASSUME NEW u, DOMAIN u = ConvField, u.rows \in Seq(Row)
  PROVE  /\ Grown(u, [Landed(u, "all") EXCEPT !.said = TRUE])
         /\ \A r \in RowsOf([Landed(u, "all") EXCEPT !.said = TRUE]) :
               r \in RowsOf(u) \/ r.by = "Parked"
<1> DEFINE v == Landed(u, "all")
           w == [v EXCEPT !.said = TRUE]
<1>1. Grown(u, v) /\ \A r \in RowsOf(v) : r \in RowsOf(u) \/ r.by = "Parked"
  BY LandedKeeps
<1> HIDE DEF v
<1>2. /\ DOMAIN w = DOMAIN v /\ DOMAIN v = ConvField
      /\ w.rows = v.rows /\ w.org = v.org /\ w.creator = v.creator
  BY <1>1 DEF Grown, ConvField
<1> HIDE DEF w
<1>3. Grown(u, w) /\ \A r \in RowsOf(w) : r \in RowsOf(u) \/ r.by = "Parked"
  BY <1>1, <1>2 DEF Grown, RowsOf
<1> QED BY <1>3 DEF w, v

\* A turn: what is parked lands, and the conversation has a message.
LEMMA SendStep ==
  ASSUME IInv, NEW k \in Conn, NEW s \in Sess, SendMessage(k, s)
  PROVE  IInv' /\ ConvsGrow
<1>1. PICK c : c = sess[s].conv
  OBVIOUS
<1> DEFINE w == [Landed(conv[c], "all") EXCEPT !.said = TRUE]
<1>2. sess[s].up
  BY DEF SendMessage, scoped_session, Loaded
<1>3. Drawn(c) /\ c \in Conv /\ CreatorOwns(c) /\ Convs
  BY <1>1, <1>2, OpenedIs DEF Known, IInv, ShapeInv, OwnerInv, CreatorOwned, Drawn
<1>4. DOMAIN conv[c] = ConvField /\ conv[c].rows \in Seq(Row)
  BY <1>3 DEF Convs
<1>5. conv' = [conv EXCEPT ![c] = w]
  BY <1>1 DEF SendMessage
<1>6. Grown(conv[c], w) /\ \A r \in RowsOf(w) : r \in RowSet(c) \/ r.by # "User"
  BY <1>4, MessageKeeps DEF RowSet
<1> HIDE DEF w
<1>7. UNCHANGED <<conn, sess, named, task>> /\ DOMAIN task = Conn
  BY DEF SendMessage, IInv, ShapeInv, Tasks
<1>8. ConvsGrow
  BY ONLY <1>3, <1>5, <1>6, OneConv
<1> QED BY <1>3, <1>5, <1>6, <1>7, <1>8, ConvStep

\* The task of a create writes the conversation.
LEMMA WriteConversationStep ==
  ASSUME IInv, NEW k \in Conn, WriteConversation(k)
  PROVE  IInv'
<1>1. PICK c : c = task[k].conv
  OBVIOUS
<1> DEFINE w == [conv[c] EXCEPT !.landed = TRUE]
<1>2. TaskOK(k) /\ Writing(k) /\ task[k].stage = "conversation" /\ DOMAIN task = Conn
  BY DEF WriteConversation, IInv, ShapeInv, Tasks, Writing
<1>3. Drawn(c) /\ c \in Conv /\ DOMAIN task[k] = TaskField
  BY <1>1, <1>2 DEF TaskOK, Drawn
<1>4. DOMAIN conv[c] = ConvField /\ conv[c].rows \in Seq(Row)
  BY <1>3 DEF IInv, ShapeInv, Convs
<1>5. conv' = [conv EXCEPT ![c] = w]
  BY <1>1 DEF WriteConversation
<1>6. /\ DOMAIN w = ConvField /\ w.rows = conv[c].rows /\ w.org = conv[c].org
      /\ w.creator = conv[c].creator /\ w.said = conv[c].said
  BY <1>4 DEF ConvField
<1> HIDE DEF w
<1>7. Grown(conv[c], w) /\ RowsOf(w) = RowSet(c)
  BY <1>4, <1>6 DEF Grown, RowsOf, RowSet
<1>8. UNCHANGED <<conn, sess, named>>
  BY DEF WriteConversation
<1>9. /\ DOMAIN task' = Conn /\ \A j \in Conn : j # k => task'[j] = task[j]
      /\ DOMAIN task'[k] = TaskField /\ task'[k].stage = "user"
      /\ task'[k].row = task[k].row /\ task'[k].conv = c /\ task'[k].sess = task[k].sess
  BY <1>1, <1>2, <1>3 DEF WriteConversation, TaskField
<1>10. Drawn(c)'
  BY <1>3, <1>5, <1>7, OneConv, StaysDrawn DEF IInv, ShapeInv
<1>11. Drawn(task[k].conv)' /\ Opened(task[k].sess)'
  BY <1>2, <1>8, <1>9, <1>10 DEF Drawn, Opened, TaskOK
<1>12. TaskOK(k)'
  BY <1>2, <1>8, <1>9, <1>11, <1>1 DEF TaskOK, Writing
<1>13. Stays(k)
  BY <1>1, <1>2, <1>9 DEF Stays, Fixed
<1> QED BY <1>3, <1>5, <1>6, <1>7, <1>8, <1>9, <1>12, <1>13, ConvStep

\* The task writes the participants.
LEMMA WriteParticipantsStep ==
  ASSUME IInv, NEW k \in Conn, WriteParticipants(k)
  PROVE  IInv'
<1>1. PICK c, s, row : c = task[k].conv /\ s = task[k].sess /\ row = task[k].row
  OBVIOUS
<1> DEFINE w == [conv[c] EXCEPT !.rows = Append(@, row)]
<1>2. /\ TaskOK(k) /\ Writing(k) /\ task[k].stage = "user" /\ DOMAIN task = Conn
      /\ ShapeInv /\ OwnerInv /\ Convs /\ Sessions
  BY DEF WriteParticipants, IInv, ShapeInv, Tasks, Writing
<1>3. /\ Drawn(c) /\ c \in Conv /\ DOMAIN task[k] = TaskField /\ row \in Row
      /\ Opened(s) /\ s \in Sess /\ sess[s].conv = c
  BY <1>1, <1>2 DEF TaskOK, Drawn, Opened
<1>4. DOMAIN conv[c] = ConvField /\ conv[c].rows \in Seq(Row)
  BY <1>2, <1>3 DEF Convs
<1>5. conv' = [conv EXCEPT ![c] = w]
  BY <1>1 DEF WriteParticipants
<1>6. /\ DOMAIN w = ConvField /\ w.rows = Append(conv[c].rows, row) /\ w.org = conv[c].org
      /\ w.creator = conv[c].creator /\ w.said = conv[c].said
  BY <1>4 DEF ConvField
<1> HIDE DEF w
<1>7. w.rows \in Seq(Row) /\ RowsOf(w) = RowSet(c) \cup {row}
  <2>1. PICK q \in Seq(Row) : q = conv[c].rows
    BY <1>4
  <2>2. /\ Append(q, row) \in Seq(Row)
        /\ {Append(q, row)[i] : i \in DOMAIN Append(q, row)} = {q[i] : i \in DOMAIN q} \cup {row}
    BY <1>3, RowAppended
  <2>3. w.rows = Append(q, row) /\ RowSet(c) = {q[i] : i \in DOMAIN q}
    BY <1>6, <2>1 DEF RowsOf, RowSet
  <2> QED BY <2>2, <2>3 DEF RowsOf
<1>8. Grown(conv[c], w)
  BY <1>6, <1>7 DEF Grown, RowSet
<1>9. /\ ConvsGrow /\ conv'[c] = w /\ \A d \in Conv : d # c => conv'[d] = conv[d]
  BY ONLY <1>2, <1>3, <1>5, <1>8, OneConv
<1>10. UNCHANGED <<conn, sess, named>>
  BY DEF WriteParticipants
<1>11. Sessions' /\ SessKeep
  BY <1>2, <1>9, <1>10, SessionsKept DEF Sessions
<1>12. /\ DOMAIN task' = Conn /\ \A j \in Conn : j # k => task'[j] = task[j]
       /\ DOMAIN task'[k] = TaskField /\ task'[k].stage = "session"
       /\ task'[k].row = row /\ task'[k].conv = c /\ task'[k].sess = s
  BY <1>1, <1>2, <1>3 DEF WriteParticipants, TaskField
<1>13. Drawn(c)' /\ Opened(s)'
  BY <1>3, <1>9, <1>11, StaysDrawn, StaysOpened
<1>14. ShapeInv'
  <2>1. TaskOK(k)'
    BY <1>3, <1>10, <1>12, <1>13 DEF TaskOK, Writing, Drawn, Opened
  <2>2. Conns'
    BY <1>2, <1>10 DEF ShapeInv, Conns
  <2>3. \A d \in named' : Drawn(d)'
    BY <1>2, <1>9, <1>10, StaysDrawn DEF ShapeInv, Names
  <2> QED BY <1>2, <1>9, <1>10, <1>11, <1>12, <2>1, <2>2, <2>3, ShapeKept
<1>15. /\ sess[s].by.scope.kind = "User" => row.email = sess[s].by.scope.email
       /\ CreatorOwns(c) \/ row.email = CreatorEmail(c)
       /\ row.by = "User" /\ OfUser(c) => Vouched(c, row.email)
  BY <1>1, <1>2 DEF OwnerInv, TaskOwned, Promises
<1>16. RowSet(c)' = RowSet(c) \cup {row} /\ \A d \in Conv : d # c => RowSet(d)' = RowSet(d)
  BY <1>7, <1>9 DEF RowSet
<1>17. \A d \in Conv : Known(d)' => Known(d)
  BY <1>6, <1>9, <1>10 DEF Known
<1>18. ASSUME NEW d \in Conv, OfUser(d)', NEW r \in RowSet(d)'
       PROVE  r \in RowSet(d) \/ r.by # "User" \/ Vouched(d, r.email)'
  BY <1>3, <1>9, <1>15, <1>16, <1>18, OwnersStay
<1>19. SessionOwner(s)'
  <2>1. sess[s].by.scope.kind = "User"
          => row.email = sess[s].by.scope.email /\ is_owner(row, sess[s].by.scope.email)
    BY <1>2, <1>3, <1>15, OpenedIs DEF IsConn, is_owner
  <2> QED BY <1>3, <1>10, <1>16, <2>1 DEF SessionOwner, Owner
<1>20. CreatorOwns(c)'
  <2>1. CASE CreatorOwns(c)
    BY <1>3, <1>9, <2>1, OwnersStay
  <2>2. CASE row.email = CreatorEmail(c)
    <3>1. OfUser(c) => is_owner(row, CreatorEmail(c))
      BY <1>2, <1>3, <2>2, DrawnIs DEF IsConn, is_owner, OfUser, CreatorEmail
    <3>2. CreatorEmail(c)' = CreatorEmail(c) /\ (OfUser(c)' <=> OfUser(c))
      BY <1>3, <1>9, OwnersStay
    <3> QED BY <1>16, <3>1, <3>2 DEF CreatorOwns, Owner
  <2> QED BY <1>15, <2>1, <2>2
<1>21. SessionOwner(task[k].sess)' /\ CreatorOwns(task[k].conv)'
  BY <1>12, <1>19, <1>20
     DEF SessionOwner, CreatorOwns, OfUser, Drawn, CreatorEmail, Owner, RowSet
<1>22. \A j \in Conn : Fixed(j)' => Stays(j)
  BY <1>12 DEF Fixed, Stays
<1>23. \A j \in Conn : task'[j].stage = "session"
         => \/ task'[j] = task[j]
            \/ SessionOwner(task[j].sess)' /\ CreatorOwns(task[j].conv)'
  BY <1>12, <1>21
<1>24. OwnerInv'
  BY <1>2, <1>9, <1>10, <1>11, <1>17, <1>18, <1>22, <1>23, OwnersKept
<1> QED BY <1>14, <1>24 DEF IInv

\* The task writes the session, and tells the ids.
LEMMA WriteSessionStep ==
  ASSUME IInv, NEW k \in Conn, WriteSession(k)
  PROVE  IInv'
<1>1. PICK c, s : c = task[k].conv /\ s = task[k].sess
  OBVIOUS
<1>2. /\ TaskOK(k) /\ Writing(k) /\ task[k].stage = "session" /\ DOMAIN task = Conn
      /\ ShapeInv /\ OwnerInv /\ Convs /\ Sessions
  BY DEF WriteSession, Told, IInv, ShapeInv, Tasks, Writing
<1>3. Drawn(c) /\ c \in Conv /\ Opened(s) /\ s \in Sess /\ sess[s].conv = c
  BY <1>1, <1>2 DEF TaskOK, Drawn, Opened
<1>4. UNCHANGED <<conn, conv>> /\ named' = named \cup {c}
  BY <1>1 DEF WriteSession
<1>5. /\ DOMAIN sess' = Sess /\ \A t \in Sess : t # s => sess'[t] = sess[t]
      /\ DOMAIN sess'[s] = SessField /\ sess'[s].by = sess[s].by
      /\ sess'[s].conv = c /\ sess'[s].org = sess[s].org
  BY <1>1, <1>2, <1>3 DEF WriteSession, Sessions, SessField
<1>6. ConvsGrow
  BY <1>2, <1>4, SameConvs
<1>7. Sessions' /\ SessKeep
  BY <1>2, <1>3, <1>5, <1>6, SessionsKept
<1>8. DOMAIN task' = Conn /\ task'[k] = NoTask /\ \A j \in Conn : j # k => task'[j] = task[j]
  BY <1>2 DEF WriteSession
<1>9. task'[k].stage = "none"
  BY <1>8 DEF NoTask
<1>10. ShapeInv'
  <2>1. TaskOK(k)'
    BY <1>9 DEF TaskOK, Writing
  <2>2. Conns'
    BY <1>2, <1>4 DEF ShapeInv, Conns
  <2>3. \A d \in named' : Drawn(d)'
    BY <1>2, <1>3, <1>4, <1>6, StaysDrawn DEF ShapeInv, Names
  <2> QED BY <1>2, <1>4, <1>6, <1>7, <1>8, <2>1, <2>2, <2>3, ShapeKept
<1>11. SessionOwner(s) /\ CreatorOwns(c)
  BY <1>1, <1>2 DEF OwnerInv, TaskOwned
<1>12. SessionOwner(s)' /\ CreatorOwns(c)'
  BY <1>2, <1>3, <1>6, <1>7, <1>11, OwnersStay, SessionOwnerStays
<1>13. \A t \in Sess : sess'[t].up => sess[t].up \/ SessionOwner(t)'
  BY <1>5, <1>12
<1>14. \A d \in Conv : Known(d)' => Known(d) \/ CreatorOwns(d)'
  BY <1>4, <1>5, <1>12 DEF Known
<1>15. \A d \in Conv : RowSet(d)' = RowSet(d)
  BY <1>4 DEF RowSet
<1>16. \A j \in Conn : Fixed(j)' => Stays(j)
  BY <1>8, <1>9 DEF Fixed, Stays
<1>17. \A j \in Conn : task'[j].stage = "session" => task'[j] = task[j]
  BY <1>8, <1>9
<1>18. OwnerInv'
  BY <1>2, <1>6, <1>7, <1>13, <1>14, <1>15, <1>16, <1>17, OwnersKept
<1> QED BY <1>10, <1>18 DEF IInv

-----------------------------------------------------------------------------
(* Creating and resuming.                                                  *)

\* An owner of a verified user's conversation is vouched for.
LEMMA OwnerVouched ==
  ASSUME OwnerInv, NEW c \in Conv, OfUser(c), NEW email, Owner(c, email)
  PROVE  Vouched(c, email)
<1>1. PICK r \in RowSet(c) : is_owner(r, email)
  BY DEF Owner
<1>2. CASE r.by # "User"
  BY <1>1, <1>2 DEF Vouched
<1>3. CASE r.by = "User"
  <2>1. Vouched(c, r.email) /\ r.email.who = email.who
    BY <1>1, <1>3 DEF OwnerInv, UsersVouched, is_owner
  <2> QED BY <2>1 DEF Vouched, is_owner
<1> QED BY <1>2, <1>3

\* The owner check lets a verified user into another one's conversation only
\* when it is vouched for.
LEMMA ReadersVouched ==
  ASSUME OwnerInv, NEW c \in Conv, OfUser(c), CreatorOwns(c), NEW org, NEW scope, NEW reach,
         scope.kind = "User", may_read_conversation(c, org, scope, reach)
  PROVE  Vouched(c, scope.email)
<1>1. Owned(c)
  BY OwnerIsOwned DEF CreatorOwns
<1>2. OwnedBy(c, scope.email)
  BY <1>1 DEF may_read_conversation
<1> QED BY <1>2, OwnerIsOwned, OwnerVouched

\* What a create takes from its connection and its frame.
LEMMA CreateRow ==
  ASSUME NEW k, IsConn(conn[k]), NEW f \in Frame
  PROVE  /\ ParticipantRow(k, f) \in Row
         /\ ParticipantRow(k, f).by = conn[k].scope.kind
         /\ conn[k].scope.kind = "User" => ParticipantRow(k, f).email = conn[k].scope.email
         /\ conn[k].scope.kind = "User" => carries_identity(k, f)
<1>1. user_email(k, f) \in Email
  BY DEF user_email, IsConn, Email
<1>2. /\ ParticipantRow(k, f).email = user_email(k, f)
      /\ ParticipantRow(k, f).by = conn[k].scope.kind
  BY DEF ParticipantRow
<1>3. ParticipantRow(k, f) \in Row
  BY <1>1 DEF ParticipantRow, Row, IsConn
<1>4. conn[k].scope.kind = "User"
        => user_email(k, f) = conn[k].scope.email /\ user_email(k, f) # None
  BY DEF user_email, IsConn, NonBlankEmail, BlankEmail
<1> QED BY <1>2, <1>3, <1>4 DEF carries_identity

\* A session is opened.
LEMMA OpenSession ==
  ASSUME Sessions, ConvsGrow, NEW s \in Sess, sess[s] = NoSess, NEW c, Drawn(c)',
         NEW w, DOMAIN w = SessField, IsConn(w.by), w.conv = c, w.org = conv'[c].org,
         sess' = [sess EXCEPT ![s] = w]
  PROVE  /\ Sessions' /\ SessKeep /\ \A t \in Sess : t # s => sess'[t] = sess[t]
         /\ sess'[s] = w /\ Opened(s)'
<1>2. DOMAIN sess' = Sess /\ sess'[s] = w /\ \A t \in Sess : t # s => sess'[t] = sess[t]
  BY DEF Sessions
<1>3. ~Opened(s)
  BY OpenedIs
<1>4. Drawn(sess[s].conv)'
  BY <1>2 DEF Drawn
<1>5. Sessions' /\ SessKeep
  BY <1>2, <1>3, <1>4, SessionsKept
<1> QED BY <1>2, <1>5, Distinct DEF Opened

\* What a spawned create writes down.
LEMMA SpawnTask ==
  ASSUME DOMAIN task = Conn, NEW k \in Conn, NEW c, NEW s, NEW row, NEW first,
         task' = [task EXCEPT ![k] = [stage |-> first, conv |-> c, sess |-> s, row |-> row]]
  PROVE  /\ DOMAIN task' = Conn /\ \A j \in Conn : j # k => task'[j] = task[j]
         /\ DOMAIN task'[k] = TaskField /\ task'[k].stage = first /\ task'[k].conv = c
         /\ task'[k].sess = s /\ task'[k].row = row
<1> DEFINE w == [stage |-> first, conv |-> c, sess |-> s, row |-> row]
<1>1. /\ DOMAIN w = TaskField /\ w.stage = first /\ w.conv = c /\ w.sess = s /\ w.row = row
  BY DEF TaskField
<1>2. task' = [task EXCEPT ![k] = w]
  OBVIOUS
<1> HIDE DEF w
<1> QED BY <1>1, <1>2

\* A create that is spawned, from what its row promises.
LEMMA SpawnStep ==
  ASSUME IInv, NEW k \in Conn, IsConn(conn[k]), NEW c, NEW s \in Sess, sess[s] = NoSess,
         NEW row \in Row, NEW org, org = conv'[c].org, NEW first \in {"conversation", "user"},
         ConvsGrow, Drawn(c)', \A d \in Conv : RowSet(d)' = RowSet(d),
         \A d \in Conv : conv'[d].said => conv[d].said, UNCHANGED <<conn, named>>,
         sess' = [sess EXCEPT ![s] = NewSession(k, org, c, FALSE)],
         task' = [task EXCEPT ![k] = [stage |-> first, conv |-> c, sess |-> s, row |-> row]],
         conn[k].scope.kind = "User" => row.email = conn[k].scope.email,
         CreatorOwns(c)' \/ row.email = CreatorEmail(c)',
         row.by = "User" /\ OfUser(c)' => Vouched(c, row.email)'
  PROVE  IInv'
<1>1. ShapeInv /\ OwnerInv /\ Sessions /\ DOMAIN task = Conn
  BY DEF IInv, ShapeInv, Tasks
<1>2. /\ Sessions' /\ SessKeep /\ \A t \in Sess : t # s => sess'[t] = sess[t]
      /\ sess'[s].by = conn[k] /\ sess'[s].conv = c /\ sess'[s].up = FALSE /\ Opened(s)'
  <2> DEFINE w == NewSession(k, org, c, FALSE)
  <2>1. DOMAIN w = SessField /\ w.by = conn[k] /\ w.conv = c /\ w.org = org /\ w.up = FALSE
    BY DEF NewSession, SessField
  <2>2. sess' = [sess EXCEPT ![s] = w]
    OBVIOUS
  <2> HIDE DEF w
  <2>3. IsConn(w.by) /\ w.org = conv'[c].org
    BY <2>1
  <2>4. /\ Sessions' /\ SessKeep /\ \A t \in Sess : t # s => sess'[t] = sess[t]
        /\ sess'[s] = w /\ Opened(s)'
    BY ONLY <1>1, <2>1, <2>2, <2>3, s \in Sess, sess[s] = NoSess, Drawn(c)', ConvsGrow, OpenSession
  <2> QED BY <2>1, <2>4
<1>3. /\ DOMAIN task' = Conn /\ \A j \in Conn : j # k => task'[j] = task[j]
      /\ DOMAIN task'[k] = TaskField /\ task'[k].stage = first /\ task'[k].conv = c
      /\ task'[k].sess = s /\ task'[k].row = row
  BY <1>1, SpawnTask
<1>4. ShapeInv'
  <2>1. TaskOK(k)'
    BY <1>2, <1>3 DEF TaskOK, Writing, Drawn, Opened
  <2>2. Conns'
    BY <1>1 DEF ShapeInv, Conns
  <2>3. \A d \in named' : Drawn(d)'
    BY <1>1, StaysDrawn DEF ShapeInv, Names
  <2> QED BY <1>1, <1>2, <1>3, <2>1, <2>2, <2>3, ShapeKept
<1>5. Promises(k)'
  <2>1. /\ CreatorOwns(task[k].conv)' <=> CreatorOwns(c)'
        /\ OfUser(task[k].conv)' <=> OfUser(c)'
        /\ CreatorEmail(task[k].conv)' = CreatorEmail(c)'
        /\ Vouched(task[k].conv, task[k].row.email)' <=> Vouched(c, row.email)'
    BY <1>3 DEF CreatorOwns, OfUser, Drawn, CreatorEmail, Vouched, Owner, RowSet
  <2> QED BY <1>2, <1>3, <2>1 DEF Promises
<1>6. \A t \in Sess : sess'[t].up => sess[t].up
  BY <1>2
<1>7. \A d \in Conv : Known(d)' => Known(d)
  BY <1>2 DEF Known
<1>8. \A j \in Conn : Fixed(j)' => Stays(j) \/ Promises(j)'
  BY <1>3, <1>5 DEF Fixed, Stays
<1>9. \A j \in Conn : task'[j].stage = "session" => task'[j] = task[j]
  BY <1>3
<1>10. OwnerInv'
  BY <1>1, <1>2, <1>6, <1>7, <1>8, <1>9, OwnersKept
<1> QED BY <1>4, <1>10 DEF IInv

\* Ids are drawn among those that nobody has.
LEMMA FreshIds ==
  /\ \A c \in FreshConv : c \in Conv /\ conv[c] = NoConv
  /\ \A s \in FreshSess : s \in Sess /\ sess[s] = NoSess
BY DEF FreshConv, FreshSess, Least

\* A create that joins the conversation it named.
LEMMA ResumeStep ==
  ASSUME IInv, NEW k \in Conn, NEW f \in Frame, CreateResume(k, f)
  PROVE  IInv'
<1>1. PICK c, row : c = task[k].conv /\ row = ParticipantRow(k, f)
  OBVIOUS
<1>2. PICK s \in FreshSess : Spawn(k, conv[c].org, c, s, f, "user")
  BY <1>1 DEF CreateResume
<1>3. s \in Sess /\ sess[s] = NoSess
  BY FreshIds
<1>4. /\ ShapeInv /\ OwnerInv /\ Convs /\ IsConn(conn[k]) /\ task[k].stage = "named"
      /\ may_read_conversation(c, conn[k].org, conn[k].scope, "ById")
  BY <1>1 DEF IInv, ShapeInv, Conns, CreateResume, Creating, Resumes
<1>5. c \in Conv /\ Drawn(c) /\ CreatorOwns(c)
  BY <1>1, <1>4, NamedOwned DEF ShapeInv, Tasks, TaskOK
<1>6. UNCHANGED <<conn, named, conv>>
  BY <1>2 DEF CreateResume, Spawn
<1>7. /\ sess' = [sess EXCEPT ![s] = NewSession(k, conv[c].org, c, FALSE)]
      /\ task' = [task EXCEPT ![k] = [stage |-> "user", conv |-> c, sess |-> s, row |-> row]]
  BY <1>1, <1>2 DEF Spawn
<1>8. ConvsGrow /\ Drawn(c)'
  BY <1>4, <1>5, <1>6, SameConvs, StaysDrawn
<1>9. /\ row \in Row /\ row.by = conn[k].scope.kind
      /\ conn[k].scope.kind = "User" => row.email = conn[k].scope.email
  BY <1>1, <1>4, CreateRow
<1>10. row.by = "User" /\ OfUser(c) => Vouched(c, row.email)
  BY <1>4, <1>5, <1>9, ReadersVouched
<1>11. CreatorOwns(c)' /\ (row.by = "User" /\ OfUser(c)' => Vouched(c, row.email)')
  BY <1>5, <1>8, <1>10, OwnersStay
<1>12. \A d \in Conv : RowSet(d)' = RowSet(d)
  BY <1>6 DEF RowSet
<1>13. PICK org : org = conv[c].org
  OBVIOUS
<1> QED BY <1>3, <1>4, <1>6, <1>7, <1>8, <1>9, <1>11, <1>12, <1>13, SpawnStep

\* A create of a conversation that carries an identity.
LEMMA FreshSpawned ==
  ASSUME IInv, NEW k \in Conn, NEW f \in Frame, IsConn(conn[k]), NEW org,
         NEW c \in FreshConv, NEW s \in FreshSess, UNCHANGED conn,
         Spawn(k, org, c, s, f, "conversation")
  PROVE  IInv'
<1>1. /\ s \in Sess /\ sess[s] = NoSess /\ c \in Conv /\ conv[c] = NoConv
  BY FreshIds
<1>2. PICK row : row = ParticipantRow(k, f)
  OBVIOUS
<1>3. /\ sess' = [sess EXCEPT ![s] = NewSession(k, org, c, FALSE)] /\ UNCHANGED named
      /\ task' = [task EXCEPT ![k] = [stage |-> "conversation", conv |-> c, sess |-> s,
                                      row |-> row]]
      /\ conv' = [conv EXCEPT ![c] = NewConversation(k, org, FALSE)]
  BY <1>2 DEF Spawn
<1>4. Convs
  BY DEF IInv, ShapeInv
<1>5. /\ ConvsGrow /\ \A d \in Conv : d # c => conv'[d] = conv[d]
      /\ Drawn(c)' /\ conv'[c].creator = conn[k] /\ RowSet(c)' = {} /\ ~conv'[c].said
      /\ conv'[c].org = org
  <2> DEFINE w == NewConversation(k, org, FALSE)
  <2>1. /\ DOMAIN w = ConvField /\ w.rows = <<>> /\ w.creator = conn[k] /\ ~w.said
        /\ w.org = org
    BY DEF NewConversation, ConvField
  <2>2. conv' = [conv EXCEPT ![c] = w]
    BY <1>3
  <2> HIDE DEF w
  <2> QED BY <1>1, <1>4, <2>1, <2>2, NewConv
<1>6. /\ row \in Row /\ row.by = conn[k].scope.kind
      /\ conn[k].scope.kind = "User" => row.email = conn[k].scope.email
  BY <1>2, CreateRow
<1>7. CreatorEmail(c)' = conn[k].scope.email /\ (OfUser(c)' <=> conn[k].scope.kind = "User")
  BY <1>5 DEF CreatorEmail, OfUser
<1>8. CreatorOwns(c)' \/ row.email = CreatorEmail(c)'
  BY <1>6, <1>7 DEF CreatorOwns
<1>9. row.by = "User" /\ OfUser(c)' => Vouched(c, row.email)'
  BY <1>6, <1>7 DEF Vouched
<1>10. RowSet(c) = {}
  BY <1>1, Distinct DEF RowSet
<1>11. \A d \in Conv : RowSet(d)' = RowSet(d) /\ (conv'[d].said => conv[d].said)
  BY <1>5, <1>10 DEF RowSet
<1> QED BY <1>1, <1>3, <1>5, <1>6, <1>8, <1>9, <1>11, SpawnStep

\* A bare open: nobody's conversation, whose id is told at once.
LEMMA FreshParked ==
  ASSUME IInv, NEW k \in Conn, IsConn(conn[k]), conn[k].scope.kind # "User", NEW org,
         NEW c \in FreshConv, NEW s \in FreshSess, UNCHANGED conn, Park(k, org, c, s)
  PROVE  IInv'
<1>1. /\ s \in Sess /\ sess[s] = NoSess /\ c \in Conv /\ conv[c] = NoConv
  BY FreshIds
<1>2. /\ conv' = [conv EXCEPT ![c] = NewConversation(k, org, TRUE)]
      /\ sess' = [sess EXCEPT ![s] = NewSession(k, org, c, TRUE)]
      /\ named' = named \cup {c} /\ task' = [task EXCEPT ![k] = NoTask]
  BY DEF Park
<1>3. ShapeInv /\ OwnerInv /\ Convs /\ Sessions /\ DOMAIN task = Conn
  BY DEF IInv, ShapeInv, Tasks
<1>4. /\ ConvsGrow /\ \A d \in Conv : d # c => conv'[d] = conv[d]
      /\ Drawn(c)' /\ conv'[c].creator = conn[k] /\ RowSet(c)' = {} /\ ~conv'[c].said
      /\ conv'[c].org = org
  <2> DEFINE w == NewConversation(k, org, TRUE)
  <2>1. /\ DOMAIN w = ConvField /\ w.rows = <<>> /\ w.creator = conn[k] /\ ~w.said
        /\ w.org = org
    BY DEF NewConversation, ConvField
  <2>2. conv' = [conv EXCEPT ![c] = w]
    BY <1>2
  <2> HIDE DEF w
  <2> QED BY <1>1, <1>3, <2>1, <2>2, NewConv
<1>5. /\ Sessions' /\ SessKeep /\ \A t \in Sess : t # s => sess'[t] = sess[t]
      /\ sess'[s].by = conn[k] /\ sess'[s].conv = c
  <2> DEFINE w == NewSession(k, org, c, TRUE)
  <2>1. DOMAIN w = SessField /\ w.by = conn[k] /\ w.conv = c /\ w.org = org /\ w.up = TRUE
    BY DEF NewSession, SessField
  <2>2. sess' = [sess EXCEPT ![s] = w]
    BY <1>2
  <2> HIDE DEF w
  <2>3. /\ IsConn(w.by) /\ w.org = conv'[c].org /\ s \in Sess /\ sess[s] = NoSess
        /\ Sessions /\ ConvsGrow /\ Drawn(c)'
    BY <1>1, <1>3, <1>4, <2>1
  <2>4. /\ Sessions' /\ SessKeep /\ \A t \in Sess : t # s => sess'[t] = sess[t]
        /\ sess'[s] = w
    BY ONLY <2>1, <2>2, <2>3, OpenSession
  <2> QED BY <2>1, <2>4
<1>6. /\ DOMAIN task' = Conn /\ \A j \in Conn : j # k => task'[j] = task[j]
      /\ task'[k].stage = "none"
  BY <1>2, <1>3 DEF NoTask
<1>7. ShapeInv'
  <2>1. TaskOK(k)'
    BY <1>6 DEF TaskOK, Writing
  <2>2. Conns'
    BY <1>3 DEF ShapeInv, Conns
  <2>3. \A d \in named' : Drawn(d)'
    BY <1>2, <1>3, <1>4, StaysDrawn DEF ShapeInv, Names
  <2> QED BY <1>2, <1>3, <1>4, <1>5, <1>6, <2>1, <2>2, <2>3, ShapeKept
<1>8. CreatorOwns(c)' /\ SessionOwner(s)'
  BY <1>4, <1>5 DEF CreatorOwns, OfUser, SessionOwner
<1>9. \A t \in Sess : sess'[t].up => sess[t].up \/ SessionOwner(t)'
  BY <1>5, <1>8
<1>10. \A d \in Conv : Known(d)' => Known(d) \/ CreatorOwns(d)'
  BY <1>2, <1>4, <1>5, <1>8 DEF Known
<1>11. \A d \in Conv : RowSet(d)' \subseteq RowSet(d)
  BY <1>4 DEF RowSet
<1>12. \A j \in Conn : Fixed(j)' => Stays(j)
  BY <1>6 DEF Fixed, Stays
<1>13. \A j \in Conn : task'[j].stage = "session" => task'[j] = task[j]
  BY <1>6
<1>14. OwnerInv'
  BY <1>3, <1>4, <1>5, <1>9, <1>10, <1>11, <1>12, <1>13, OwnersKept
<1> QED BY <1>7, <1>14 DEF IInv

\* Either way, a fresh conversation.
LEMMA FreshStep ==
  ASSUME IInv, NEW k \in Conn, NEW f \in Frame, NEW w, CreateFresh(k, w, f)
  PROVE  IInv'
<1>1. IsConn(conn[k]) /\ UNCHANGED conn
  BY DEF CreateFresh, Creating, IInv, ShapeInv, Conns
<1>2. PICK c \in FreshConv, s \in FreshSess :
        IF carries_identity(k, f)
        THEN Spawn(k, OrgOf(k, w), c, s, f, "conversation")
        ELSE Park(k, OrgOf(k, w), c, s)
  BY DEF CreateFresh
<1>3. PICK org : org = OrgOf(k, w)
  OBVIOUS
<1>4. CASE carries_identity(k, f)
  BY <1>1, <1>2, <1>3, <1>4, FreshSpawned
<1>5. CASE ~carries_identity(k, f)
  BY <1>1, <1>2, <1>3, <1>5, CreateRow, FreshParked
<1> QED BY <1>4, <1>5

-----------------------------------------------------------------------------
(* The invariant.                                                          *)

\* Nobody is connected and no id is drawn.
LEMMA InitIInv ==
  ASSUME Init PROVE IInv
<1>1. \A k \in Conn : task[k].stage = "none"
  BY DEF Init, NoTask
<1>2. \A c \in Conv : conv[c] = NoConv /\ ~conv[c].said /\ RowSet(c) = {} /\ ~Drawn(c)
  BY Distinct DEF Init, RowSet, Drawn
<1>3. \A s \in Sess : sess[s] = NoSess /\ ~sess[s].up
  BY Distinct DEF Init
<1>4. DOMAIN NoConv = ConvField /\ DOMAIN NoSess = SessField /\ <<>> \in Seq(Row)
  BY DEF NoConv, NoSess, ConvField, SessField
<1>5. ShapeInv
  BY <1>1, <1>2, <1>3, <1>4, Distinct
     DEF Init, ShapeInv, Conns, Convs, Sessions, Tasks, TaskOK, Writing, Names
<1>6. OwnerInv
  BY <1>1, <1>2, <1>3
     DEF Init, OwnerInv, SessionOwned, CreatorOwned, Known, UsersVouched, OfUser, TaskOwned
<1> QED BY <1>5, <1>6 DEF IInv

\* Every step keeps the invariant.
LEMMA StepIInv ==
  ASSUME IInv, [Next]_vars PROVE IInv'
<1>1. CASE UNCHANGED vars
  BY <1>1, NamedOwned, QuietStep DEF vars, IInv, ShapeInv, Conns, Tasks
<1>2. ASSUME NEW k \in Conn, NEW s \in Sess, ReadSession(k, s) PROVE IInv'
  BY <1>2, NamedOwned, QuietStep DEF ReadSession, IInv, ShapeInv, Conns, Tasks
<1>3. ASSUME NEW k \in Conn, NEW c \in Conv, RenameConversation(k, c) PROVE IInv'
  BY <1>3, NamedOwned, QuietStep DEF RenameConversation, IInv, ShapeInv, Conns, Tasks
<1>4. CASE Next
  BY <1>2, <1>3, <1>4, ConnectStep, NameStep, ResumeStep, FreshStep, WriteConversationStep,
     WriteParticipantsStep, WriteSessionStep, WriteFailsStep, SendStep, ListStep DEF Next
<1> QED BY <1>1, <1>4

\* So it always holds.
LEMMA Inductive == Spec => []IInv
BY InitIInv, StepIInv, PTL DEF Spec

-----------------------------------------------------------------------------
(* What a connection is shown.                                             *)

\* A step shows nothing, or a conversation by its session, or a sidebar, or it
\* renames.
LEMMA ShowingSteps ==
  ASSUME [Next]_vars
  PROVE  \/ UNCHANGED vars
         \/ reply' = None
         \/ \E k \in Conn, s \in Sess : ReadSession(k, s) \/ SendMessage(k, s)
         \/ \E k \in Conn : ListConversations(k)
         \/ \E k \in Conn, c \in Conv : RenameConversation(k, c)
BY DEF Next, Connect, NameConversation, CreateResume, CreateFresh, WriteConversation,
       WriteParticipants, WriteSession, WriteFails

\* What is shown by its session: a drawn conversation that scoped_session let
\* through, and that the step at most adds to.
LEMMA ShownBySession ==
  ASSUME IInv, NEW k \in Conn, NEW s \in Sess, ReadSession(k, s) \/ SendMessage(k, s)
  PROVE  LET c == sess[s].conv
         IN  /\ reply'.to = conn[k] /\ reply'.shown = {c} /\ reply'.renamed = {} /\ dep' = dep
             /\ c \in Conv /\ Drawn(c) /\ CreatorOwns(c) /\ sess[s].org = conv[c].org
             /\ same_org(conn[k].org, sess[s].org)
             /\ may_read_conversation(c, conn[k].org, conn[k].scope, "ById")
             /\ IsConn(conn[k]) /\ ConvsGrow
<1> DEFINE c == sess[s].conv
<1>1. conn[k] # Closed /\ scoped_session(s, k) /\ reply' = [to |-> conn[k], shown |-> {c}, renamed |-> {}]
      /\ dep' = dep
  BY DEF ReadSession, SendMessage, Shows
<1>2. sess[s].up
  BY <1>1 DEF scoped_session, Loaded
<1>3. Drawn(c) /\ c \in Conv /\ sess[s].org = conv[c].org /\ CreatorOwns(c)
  BY <1>2, OpenedIs DEF Known, IInv, ShapeInv, OwnerInv, CreatorOwned, Drawn
<1>4. IsConn(conn[k])
  BY <1>1 DEF IInv, ShapeInv, Conns
<1>5. ConvsGrow
  BY SendStep, SameConvs DEF ReadSession, IInv, ShapeInv
<1> QED BY <1>1, <1>3, <1>4, <1>5 DEF scoped_session

\* What is owned stays owned.
LEMMA OwnedStays ==
  ASSUME ConvsGrow, NEW c, Drawn(c), Owned(c) PROVE Owned(c)'
<1>1. \A d : Owned(d) <=> \E r \in RowSet(d) : NonBlankEmail(r.email)
  BY DEF Owned, Rows, RowSet, RowsOf
<1>2. Owned(c)' <=> \E r \in RowSet(c)' : NonBlankEmail(r.email)
  BY DEF Owned, Rows, RowSet, RowsOf
<1> QED BY <1>1, <1>2, StaysDrawn

\* One step shows nothing across tenants, and nothing without an owner where
\* ownership is required.
LEMMA StepTenant ==
  ASSUME IInv, TenantIsolation, [Next]_vars PROVE TenantIsolation'
<1>1. CASE UNCHANGED vars
  BY <1>1 DEF vars, TenantIsolation, Owned, Rows
<1>2. CASE reply' = None
  BY <1>2 DEF TenantIsolation
<1>3. ASSUME NEW k \in Conn, NEW s \in Sess, ReadSession(k, s) \/ SendMessage(k, s)
      PROVE  TenantIsolation'
  <2>1. PICK c : c = sess[s].conv
    OBVIOUS
  <2>2. /\ reply'.to = conn[k] /\ reply'.shown = {c} /\ dep' = dep /\ Drawn(c)
        /\ sess[s].org = conv[c].org /\ same_org(conn[k].org, sess[s].org)
        /\ may_read_conversation(c, conn[k].org, conn[k].scope, "ById") /\ ConvsGrow
    BY <1>3, <2>1, ShownBySession
  <2>3. conn[k].org # None => conv'[c].org = conn[k].org
    BY <2>2, StaysDrawn DEF same_org
  <2>4. dep.require_owned /\ conn[k].scope.kind # "Unscoped" => Owned(c)
    BY <2>2 DEF may_read_conversation, RequirementMet
  <2> QED BY <2>2, <2>3, <2>4, OwnedStays DEF TenantIsolation
<1>4. ASSUME NEW k \in Conn, ListConversations(k) PROVE TenantIsolation'
  <2>1. /\ reply' = [to |-> conn[k], shown |-> handle_list_conversations(k), renamed |-> {}]
        /\ UNCHANGED <<dep, conv>>
    BY <1>4 DEF ListConversations, Shows
  <2>2. /\ reply'.to = conn[k] /\ reply'.shown = handle_list_conversations(k)
        /\ reply'.renamed = {}
    BY <2>1
  <2>3. \A c \in handle_list_conversations(k) :
          /\ conn[k].org # None => conv[c].org = conn[k].org
          /\ dep.require_owned /\ conn[k].scope.kind # "Unscoped" => Owned(c)
    BY OwnerIsOwned DEF handle_list_conversations, Owns
  <2> QED BY <2>1, <2>2, <2>3 DEF TenantIsolation, Owned, Rows
<1>5. ASSUME NEW k \in Conn, NEW c \in Conv, RenameConversation(k, c) PROVE TenantIsolation'
  BY <1>5 DEF RenameConversation, TenantIsolation
<1> QED BY <1>1, <1>2, <1>3, <1>4, <1>5, ShowingSteps

\* scoped_session, may_read_conversation and the sidebar keep tenants apart: a
\* connection is never shown a conversation of another organization, nor, where
\* ownership is required, one without an owner, whatever creates, resumes and
\* parked opens are under way.
THEOREM TenantsKeptApart == Spec => []TenantIsolation
<1>1. Init => TenantIsolation
  BY DEF Init, TenantIsolation
<1>2. IInv /\ TenantIsolation /\ [Next]_vars => TenantIsolation'
  BY StepTenant
<1> QED BY <1>1, <1>2, Inductive, PTL DEF Spec

\* A vouched reader has a row of somebody unverified.
LEMMA VouchedRow ==
  ASSUME NEW c, NEW email, Vouched(c, email), CreatorEmail(c).who # email.who
  PROVE  \E i \in DOMAIN Rows(c) : is_owner(Rows(c)[i], email) /\ Rows(c)[i].by # "User"
BY DEF Vouched, RowSet, RowsOf, Rows

\* One step shows a verified user's conversation to another one only through a
\* row that nobody verified.
LEMMA StepOpener ==
  ASSUME IInv, OpenerKeepsItsConversation, [Next]_vars PROVE OpenerKeepsItsConversation'
<1>0. OwnerInv
  BY DEF IInv
<1>1. CASE UNCHANGED vars
  BY <1>1 DEF vars, OpenerKeepsItsConversation, Rows
<1>2. CASE reply' = None
  BY <1>2 DEF OpenerKeepsItsConversation
<1>3. ASSUME NEW k \in Conn, NEW s \in Sess, ReadSession(k, s) \/ SendMessage(k, s)
      PROVE  OpenerKeepsItsConversation'
  <2>1. PICK c, x : c = sess[s].conv /\ x = conn[k].scope
    OBVIOUS
  <2>2. /\ reply'.to = conn[k] /\ reply'.shown = {c} /\ reply'.renamed = {}
        /\ Drawn(c) /\ CreatorOwns(c) /\ c \in Conv
        /\ may_read_conversation(c, conn[k].org, x, "ById") /\ ConvsGrow
    BY <1>3, <2>1, ShownBySession
  <2>3. ASSUME x.kind = "User", conv'[c].creator.scope.kind = "User"
        PROVE  Vouched(c, x.email)'
    <3>1. OfUser(c)
      BY <2>2, <2>3, StaysDrawn DEF OfUser
    <3>2. Vouched(c, x.email)
      BY <1>0, <2>2, <2>3, <3>1, ReadersVouched
    <3> QED BY <2>2, <3>2, OwnersStay
  <2>4. ASSUME x.kind = "User", conv'[c].creator.scope.kind = "User",
               conv'[c].creator.scope.email.who # x.email.who
        PROVE  (\E i \in DOMAIN Rows(c) : is_owner(Rows(c)[i], x.email) /\ Rows(c)[i].by # "User")'
    <3>1. CreatorEmail(c)' = conv'[c].creator.scope.email
      BY DEF CreatorEmail
    <3> QED BY <2>3, <2>4, <3>1 DEF Vouched, RowSet, RowsOf, Rows
  <2> QED BY <2>1, <2>2, <2>4 DEF OpenerKeepsItsConversation
<1>4. ASSUME NEW k \in Conn, ListConversations(k) PROVE OpenerKeepsItsConversation'
  <2>1. /\ reply' = [to |-> conn[k], shown |-> handle_list_conversations(k), renamed |-> {}]
        /\ UNCHANGED <<dep, conv>>
    BY <1>4 DEF ListConversations, Shows
  <2>2. /\ reply'.to = conn[k] /\ reply'.shown = handle_list_conversations(k)
        /\ reply'.renamed = {}
    BY <2>1
  <2>3. PICK x : x = conn[k].scope
    OBVIOUS
  <2>4. ASSUME NEW c \in handle_list_conversations(k), x.kind = "User", OfUser(c)
        PROVE  Vouched(c, x.email)
    <3>1. c \in Conv /\ Drawn(c) /\ CreatorOwns(c)
      BY ListedKnown
    <3>2. \/ OwnedBy(c, x.email)
          \/ may_read_conversation(c, conn[k].org, x, "Listing")
      BY <2>3 DEF handle_list_conversations, Owns
    <3> QED BY <1>0, <2>4, <3>1, <3>2, OwnerIsOwned, OwnerVouched, ReadersVouched
  <2>5. \A c \in handle_list_conversations(k) : Drawn(c)
    BY ListedKnown
  <2>6. ASSUME NEW c \in handle_list_conversations(k), x.kind = "User",
               conv[c].creator.scope.kind = "User",
               conv[c].creator.scope.email.who # x.email.who
        PROVE  \E i \in DOMAIN Rows(c) : is_owner(Rows(c)[i], x.email) /\ Rows(c)[i].by # "User"
    BY <2>4, <2>5, <2>6, VouchedRow DEF OfUser, CreatorEmail
  <2> QED BY <2>1, <2>2, <2>3, <2>6 DEF OpenerKeepsItsConversation, Rows
<1>5. ASSUME NEW k \in Conn, NEW c \in Conv, RenameConversation(k, c)
      PROVE  OpenerKeepsItsConversation'
  <2>1. PICK x : x = conn[k].scope
    OBVIOUS
  <2>2. /\ reply'.to = conn[k] /\ reply'.shown = {} /\ reply'.renamed = {c} /\ conv' = conv
        /\ may_read_conversation(c, conn[k].org, x, "ById") /\ c \in named
    BY <1>5, <2>1 DEF RenameConversation
  <2>3. Drawn(c) /\ CreatorOwns(c)
    BY <2>2, NamedOwned
  <2>4. ASSUME x.kind = "User", conv[c].creator.scope.kind = "User",
               conv[c].creator.scope.email.who # x.email.who
        PROVE  \E i \in DOMAIN Rows(c) : is_owner(Rows(c)[i], x.email) /\ Rows(c)[i].by # "User"
    <3>1. OfUser(c)
      BY <2>3, <2>4 DEF OfUser
    <3>2. Vouched(c, x.email)
      BY <1>0, <2>2, <2>3, <2>4, <3>1, ReadersVouched
    <3> QED BY <2>4, <3>2, VouchedRow DEF CreatorEmail
  <2> QED BY <2>1, <2>2, <2>4 DEF OpenerKeepsItsConversation, Rows
<1> QED BY <1>1, <1>2, <1>3, <1>4, <1>5, ShowingSteps

\* handle_create_session tells an id only after the participants are written,
\* so a verified user's conversation is never another verified user's to read or
\* to rename, unless somebody unverified joined it under that address.
THEOREM OpenersKeepTheirs == Spec => []OpenerKeepsItsConversation
<1>1. Init => OpenerKeepsItsConversation
  BY DEF Init, OpenerKeepsItsConversation
<1>2. IInv /\ OpenerKeepsItsConversation /\ [Next]_vars => OpenerKeepsItsConversation'
  BY StepOpener
<1> QED BY <1>1, <1>2, Inductive, PTL DEF Spec

-----------------------------------------------------------------------------
(* Nobody is locked out.                                                   *)

\* The check never denies the session's opener.
LEMMA OpenerReaches ==
  ASSUME IInv PROVE CreatorReaches
<1> SUFFICES ASSUME NEW s \in Sess, Loaded(s), conn[sess[s].conn] = sess[s].by,
                    ~dep.require_owned, same_org(sess[s].by.org, sess[s].org),
                    sess[s].by.scope.kind = "Denied" /\ sess[s].by.org # None
                      => ~Owned(sess[s].conv)
             PROVE  scoped_session(s, sess[s].conn)
  BY DEF CreatorReaches
<1>1. PICK c, by : c = sess[s].conv /\ by = sess[s].by
  OBVIOUS
<1>2. IsConn(by) /\ sess[s].org = conv[c].org /\ SessionOwner(s)
  BY <1>1, OpenedIs DEF Loaded, IInv, ShapeInv, OwnerInv, SessionOwned
<1>3. TenantOK(c, by.org) /\ RequirementMet(c, by.scope)
  BY <1>1, <1>2 DEF TenantOK, RequirementMet
<1>4. CASE by.scope.kind = "Unscoped"
  BY <1>1, <1>3, <1>4 DEF scoped_session, may_read_conversation
<1>5. CASE by.scope.kind = "User"
  <2>1. OwnedBy(c, by.scope.email)
    BY <1>1, <1>2, <1>5, OwnerIsOwned DEF SessionOwner
  <2> QED BY <1>1, <1>3, <1>5, <2>1 DEF scoped_session, may_read_conversation
<1>6. CASE by.scope.kind = "Denied"
  <2>1. DeniedMay(c, by.org, "ById")
    BY <1>1, <1>6 DEF DeniedMay
  <2> QED BY <1>1, <1>3, <1>6, <2>1 DEF scoped_session, may_read_conversation
<1> QED BY <1>2, <1>4, <1>5, <1>6 DEF IsConn

\* Nor what the sidebar lists.
LEMMA ListedOpens == ListedIsReadable
<1> SUFFICES ASSUME NEW k \in Conn, NEW c \in handle_list_conversations(k)
             PROVE  may_read_conversation(c, conn[k].org, conn[k].scope, "ById")
  BY DEF ListedIsReadable
<1>1. CASE dep.require_owned /\ conn[k].scope.kind # "Unscoped"
  <2>1. conn[k].scope.kind = "User" /\ OwnedBy(c, conn[k].scope.email) /\ Owned(c)
    BY <1>1, OwnerIsOwned DEF handle_list_conversations, Owns
  <2>2. same_org(conn[k].org, conv[c].org)
    BY DEF handle_list_conversations, same_org
  <2> QED BY <2>1, <2>2 DEF may_read_conversation, TenantOK, RequirementMet
<1>2. CASE ~(dep.require_owned /\ conn[k].scope.kind # "Unscoped")
  <2>1. may_read_conversation(c, conn[k].org, conn[k].scope, "Listing")
    BY <1>2 DEF handle_list_conversations
  <2> QED BY <2>1 DEF may_read_conversation, DeniedMay
<1> QED BY <1>1, <1>2

\* scoped_session and may_read_conversation deny nobody what is its own: the
\* session it opened, as long as it is connected, and what its sidebar lists.
THEOREM NobodyLockedOut == Spec => []OwnIsReachable
<1>1. IInv => OwnIsReachable
  BY OpenerReaches, ListedOpens DEF OwnIsReachable
<1> QED BY <1>1, Inductive, PTL
=============================================================================

------------------------------- MODULE Access -------------------------------
(***************************************************************************)
(* Which conversations a connection may reach: the tenant and the owner    *)
(* check of every session-addressed handler, the listing, and the create   *)
(* and resume of a session, whose writes they read                         *)
(* (rust/smooth-operator-server/src/handler.rs).                           *)
(*                                                                         *)
(* A conversation has an owner as soon as one of its user participants     *)
(* carries an e-mail, and it may gain participants for ever: each resume   *)
(* adds one.  A create writes its rows one after the other in a task of    *)
(* its own, or parks them until the first message (DeferredSession), so    *)
(* the checks meet conversations with no participant yet.                  *)
(***************************************************************************)
EXTENDS Identity, Sequences

CONSTANTS Conn,          \* connections
          Answer,        \* what verify answered at the upgrade (None: no token)
          Deployment,    \* [mode, strict_auth, require_owned]
          WidgetOrg,     \* organization of the agent's embed policy, or None
          Frame,         \* [email, phone] of the create frame
          SeedOrg,       \* SEED_ORG_ID
          MaxConv,       \* bound on conversations ...
          MaxSess        \* ... and on sessions

ASSUME AccessAssumption == MaxConv \in Nat \ {0} /\ MaxSess \in Nat \ {0}

\* An answer is a principal, whose e-mail is not blank (into_principal), or none.
ASSUME AnswerAssumption ==
    \A a \in Answer : a \in {None, Refused} \/ a.email = None \/ ~BlankEmail(a.email)

VARIABLES dep, conn, conv, sess, task, named, reply

vars == <<dep, conn, conv, sess, task, named, reply>>

Conv == 1..MaxConv
Sess == 1..MaxSess
Closed == [open |-> FALSE]
NoTask == [stage |-> "none"]

\* An id that is not drawn yet.
NoConv == [org |-> None, rows |-> <<>>, said |-> FALSE, landed |-> FALSE, parked |-> FALSE,
           creator |-> Closed]
NoSess == [org |-> None, conv |-> None, conn |-> None, by |-> Closed, up |-> FALSE]

Init ==
    /\ dep \in Deployment
    /\ conn = [k \in Conn |-> Closed]
    /\ conv = [c \in Conv |-> NoConv]
    /\ sess = [s \in Sess |-> NoSess]
    /\ task = [k \in Conn |-> NoTask]   \* the spawned create of a connection
    /\ named = {}                       \* conversation ids told to a client
    /\ reply = None

\* ws_upgrade.
Connect(k, answer) ==
    LET auth == resolve_ws_access(dep.mode, dep.strict_auth, answer)
    IN  /\ conn[k] = Closed /\ auth # Refused
        /\ conn' = [conn EXCEPT ![k] = [open |-> TRUE, org |-> auth.org,
                                        scope |-> auth.scope]]
        /\ reply' = None
        /\ UNCHANGED <<dep, conv, sess, task, named>>

-----------------------------------------------------------------------------
(* The checks.                                                             *)

\* same_org.
same_org(auth_org, row_org) == auth_org = None \/ auth_org = row_org

\* E-mails compare trimmed and without case.
NonBlankEmail(e) == ~BlankEmail(e)
is_owner(row, email) == NonBlankEmail(row.email) /\ row.email.who = email.who

\* list_participants_by_conversation: the user participants written so far.
\* Every participant carries its conversation's organization.
Rows(c) == conv[c].rows
Owned(c) == \E i \in DOMAIN Rows(c) : NonBlankEmail(Rows(c)[i].email)
OwnedBy(c, email) == \E i \in DOMAIN Rows(c) : is_owner(Rows(c)[i], email)

TenantOK(c, auth_org) == Rows(c) = <<>> \/ same_org(auth_org, conv[c].org)

\* Denied: what has no owner, and for a connection without any identity what
\* it names by id.
DeniedMay(c, auth_org, reach) == ~Owned(c) \/ (auth_org = None /\ reach = "ById")

\* require_owned_conversations, for every scope that reaches it.
RequirementMet(c, scope) == dep.require_owned => Owned(c)

\* may_read_conversation (a storage error is a denial: the request then has no
\* effect, and is not a step).
may_read_conversation(c, auth_org, scope, reach) ==
    \/ auth_org = None /\ scope.kind = "Unscoped"
    \/ /\ TenantOK(c, auth_org)
       /\ \/ scope.kind = "Unscoped"
          \/ /\ RequirementMet(c, scope)
             /\ \/ scope.kind = "User" /\ (~Owned(c) \/ OwnedBy(c, scope.email))
                \/ scope.kind = "Denied" /\ DeniedMay(c, auth_org, reach)

Loaded(s) == sess[s].up

\* Mutant: the tenant is read off the participants alone.
scoped_session_Rows(s, k) ==
    /\ Loaded(s)
    /\ may_read_conversation(sess[s].conv, conn[k].org, conn[k].scope, "ById")

\* scoped_session: the one way from a session id to a session.
scoped_session(s, k) ==
    /\ Loaded(s)
    /\ same_org(conn[k].org, sess[s].org)
    /\ may_read_conversation(sess[s].conv, conn[k].org, conn[k].scope, "ById")

\* Mutant: the sidebar of an organization that requires owners lists them all.
Owns_Org(c, k) == TRUE

\* list_owned_conversation_summaries_page of the storage adapter, for a user.
Owns(c, k) == OwnedBy(c, conn[k].scope.email)

\* handle_list_conversations: of the connection's organization, or the seed's.
\* Conversations without a message are not listed.  (Order and pages are
\* Storage's.)
handle_list_conversations(k) ==
    LET org  == IF conn[k].org = None THEN SeedOrg ELSE conn[k].org
        rows == {c \in Conv : conv[c].landed /\ conv[c].said /\ conv[c].org = org}
    IN  IF dep.require_owned /\ conn[k].scope.kind # "Unscoped"
        THEN {c \in rows : conn[k].scope.kind = "User" /\ Owns(c, k)}
        ELSE {c \in rows :
                may_read_conversation(c, conn[k].org, conn[k].scope, "Listing")}

-----------------------------------------------------------------------------
(* create_conversation_session.                                            *)

\* UserScope::principal_email before the frame's userEmail.
user_email(k, frame) ==
    IF conn[k].scope.kind = "User" THEN conn[k].scope.email ELSE frame.email

ParticipantRow(k, frame) == [email |-> user_email(k, frame), by |-> conn[k].scope.kind]

carries_identity(k, frame) == user_email(k, frame) # None \/ frame.phone

OrgOf(k, widget_org) ==
    IF widget_org # None THEN widget_org
    ELSE IF conn[k].org # None THEN conn[k].org ELSE SeedOrg

\* Ids are uuids, drawn here in order.
Least(S) == {i \in S : \A j \in S : i <= j}
FreshConv == Least({c \in Conv : conv[c] = NoConv})
FreshSess == Least({s \in Sess : sess[s] = NoSess})

NewConversation(k, org, parked) ==
    [org |-> org, rows |-> <<>>, said |-> FALSE, landed |-> FALSE, parked |-> parked,
     creator |-> conn[k]]

NewSession(k, org, c, up) ==
    [org |-> org, conv |-> c, conn |-> k, by |-> conn[k], up |-> up]

\* A bare open: everything is parked, the session answers from the registry.
\* The id of the conversation is told at once.
Park(k, org, c, s) ==
    /\ conv' = [conv EXCEPT ![c] = NewConversation(k, org, TRUE)]
    /\ sess' = [sess EXCEPT ![s] = NewSession(k, org, c, TRUE)]
    /\ named' = named \cup {c}
    /\ task' = [task EXCEPT ![k] = NoTask]

\* A create that carries an identity, or resumes: the ids are fixed and the
\* rows are written by a task.
Spawn(k, org, c, s, frame, first) ==
    /\ task' = [task EXCEPT ![k] = [stage |-> first, conv |-> c, sess |-> s,
                                    row |-> ParticipantRow(k, frame)]]
    /\ sess' = [sess EXCEPT ![s] = NewSession(k, org, c, FALSE)]
    /\ conv' = IF first = "user" THEN conv
               ELSE [conv EXCEPT ![c] = NewConversation(k, org, FALSE)]
    /\ UNCHANGED named

ParkedRow == <<[email |-> None, by |-> "Parked"]>>

\* The rows of a parked create: all of them land, or the conversation's row
\* alone, or none, according to which write fails.
Landed(v, out) ==
    IF ~v.parked \/ out = "none" THEN v
    ELSE IF out = "row" THEN [v EXCEPT !.landed = TRUE]
    ELSE [v EXCEPT !.landed = TRUE, !.parked = FALSE, !.rows = ParkedRow \o @]

\* handle_create_session with a conversationId first lands what is parked under
\* it (materialize_conversation, best effort), ...
NameConversation(k, cid, out) ==
    /\ conn[k] # Closed /\ task[k] = NoTask
    /\ cid \in named
    /\ conv' = [conv EXCEPT ![cid] = Landed(@, out)]
    /\ task' = [task EXCEPT ![k] = [stage |-> "named", conv |-> cid]]
    /\ reply' = None
    /\ UNCHANGED <<dep, conn, sess, named>>

\* ... then asks whether this connection may read it, and loads it.
Resumes(k) ==
    /\ task[k].stage = "named"
    /\ may_read_conversation(task[k].conv, conn[k].org, conn[k].scope, "ById")
    /\ conv[task[k].conv].landed

Creating(k) == conn[k] # Closed /\ task[k].stage \in {"none", "named"}

\* Without a conversationId, or with one that does not resume (unknown, parked
\* and not landed, or not this connection's to read), a fresh conversation.
CreateFresh(k, widget_org, frame) ==
    /\ Creating(k) /\ ~Resumes(k)
    /\ \E c \in FreshConv, s \in FreshSess :
          IF carries_identity(k, frame)
          THEN Spawn(k, OrgOf(k, widget_org), c, s, frame, "conversation")
          ELSE Park(k, OrgOf(k, widget_org), c, s)
    /\ reply' = None
    /\ UNCHANGED <<dep, conn>>

\* With one that does, the session joins it, in its organization.
CreateResume(k, frame) ==
    /\ Creating(k) /\ Resumes(k)
    /\ \E s \in FreshSess : Spawn(k, conv[task[k].conv].org, task[k].conv, s, frame, "user")
    /\ reply' = None
    /\ UNCHANGED <<dep, conn>>

\* The task writes the conversation, ...
WriteConversation(k) ==
    /\ task[k].stage = "conversation"
    /\ conv' = [conv EXCEPT ![task[k].conv].landed = TRUE]
    /\ task' = [task EXCEPT ![k].stage = "user"]
    /\ reply' = None
    /\ UNCHANGED <<dep, conn, sess, named>>

\* ... the participants, ...
WriteParticipants(k) ==
    /\ task[k].stage = "user"
    /\ conv' = [conv EXCEPT ![task[k].conv].rows = Append(@, task[k].row)]
    /\ task' = [task EXCEPT ![k].stage = "session"]
    /\ reply' = None
    /\ UNCHANGED <<dep, conn, sess, named>>

\* Mutant: the ids are told as soon as the conversation's row is written.
Told_Early(k) == task[k].stage \in {"user", "session"}

\* ... the session; only then is the client told the ids.
Told(k) == task[k].stage = "session"

WriteSession(k) ==
    /\ Told(k)
    /\ sess' = [sess EXCEPT ![task[k].sess].up = TRUE]
    /\ named' = named \cup {task[k].conv}
    /\ task' = [task EXCEPT ![k] = IF @.stage = "session" THEN NoTask ELSE @]
    /\ reply' = None
    /\ UNCHANGED <<dep, conn, conv>>

\* A write fails: an error event, and what was written stays.
WriteFails(k) ==
    /\ task[k].stage \notin {"none", "named"}
    /\ task' = [task EXCEPT ![k] = NoTask]
    /\ reply' = None
    /\ UNCHANGED <<dep, conn, conv, sess, named>>

-----------------------------------------------------------------------------
(* What a connection is shown.                                             *)

Shows(k, cs) == reply' = [to |-> conn[k], shown |-> cs, renamed |-> {}]

\* get_session, get_conversation_messages, cancel by session, verify_otp,
\* submit_interaction, confirm_tool_action: each through scoped_session.
ReadSession(k, s) ==
    /\ conn[k] # Closed /\ scoped_session(s, k)
    /\ Shows(k, {sess[s].conv})
    /\ UNCHANGED <<dep, conn, conv, sess, task, named>>

\* send_message: the same check, then what is parked lands and the turn runs on
\* the conversation's history.
SendMessage(k, s) ==
    LET c == sess[s].conv
    IN  /\ conn[k] # Closed /\ scoped_session(s, k)
        /\ conv' = [conv EXCEPT ![c] = [Landed(@, "all") EXCEPT !.said = TRUE]]
        /\ Shows(k, {c})
        /\ UNCHANGED <<dep, conn, sess, task, named>>

ListConversations(k) ==
    /\ conn[k] # Closed
    /\ Shows(k, handle_list_conversations(k))
    /\ named' = named \cup handle_list_conversations(k)
    /\ UNCHANGED <<dep, conn, conv, sess, task>>

\* handle_rename_conversation, by the conversation's id: the check is
\* may_read_conversation alone, on participants that are only ever added to.
RenameConversation(k, c) ==
    /\ conn[k] # Closed /\ c \in named /\ conv[c].landed
    /\ may_read_conversation(c, conn[k].org, conn[k].scope, "ById")
    /\ reply' = [to |-> conn[k], shown |-> {}, renamed |-> {c}]
    /\ UNCHANGED <<dep, conn, conv, sess, task, named>>

Next ==
    \E k \in Conn :
        \/ \E answer \in Answer : Connect(k, answer)
        \/ \E cid \in Conv, out \in {"all", "row", "none"} : NameConversation(k, cid, out)
        \/ \E f \in Frame : CreateResume(k, f) \/ \E w \in WidgetOrg : CreateFresh(k, w, f)
        \/ WriteConversation(k) \/ WriteParticipants(k) \/ WriteSession(k) \/ WriteFails(k)
        \/ \E s \in Sess : ReadSession(k, s) \/ SendMessage(k, s)
        \/ ListConversations(k)
        \/ \E c \in Conv : RenameConversation(k, c)

Spec == Init /\ [][Next]_vars

-----------------------------------------------------------------------------
\* Type invariant.
TypeOK ==
    /\ dep \in Deployment
    /\ \A k \in Conn : conn[k] # Closed =>
          conn[k].scope.kind \in {"User", "Unscoped", "Denied"}
    /\ \A c \in Conv : conv[c] # NoConv =>
          /\ conv[c].landed \in BOOLEAN /\ conv[c].said \in BOOLEAN
          /\ conv[c].rows # <<>> => conv[c].landed
    /\ \A s \in Sess : sess[s] # NoSess => conv[sess[s].conv] # NoConv
    /\ named \subseteq {c \in Conv : conv[c] # NoConv}

\* A connection with a verified principal is never shown a conversation of
\* another organization, by id or in a list: not even one whose participants
\* are not written yet, from which the owner check can read no tenant
\* (handler.rs, scoped_session and may_read_conversation).  And where ownership
\* is required nobody of a multi-user deployment is shown one without an owner.
TenantIsolation ==
    reply # None => \A c \in reply.shown :
        /\ reply.to.org # None => conv[c].org = reply.to.org
        /\ dep.require_owned /\ reply.to.scope.kind # "Unscoped" => Owned(c)

\* A conversation opened by a verified user is shown to another verified user, or
\* renamed by one, only after somebody without a verified e-mail joined it under
\* that user's address: a create in progress, whose rows come one by one, is no way
\* in (handler.rs, handle_create_session tells the id after the participants).
OpenerKeepsItsConversation ==
    (reply # None /\ reply.to.scope.kind = "User")
    => \A c \in reply.shown \cup reply.renamed :
          (conv[c].creator.scope.kind = "User"
             /\ conv[c].creator.scope.email.who # reply.to.scope.email.who)
          => \E i \in DOMAIN Rows(c) : /\ is_owner(Rows(c)[i], reply.to.scope.email)
                                       /\ Rows(c)[i].by # "User"

\* Nobody is locked out of the session it opened: an anonymous visitor and a
\* verified user reach it for as long as they are connected, whoever joins the
\* conversation meanwhile, and an emailless principal until the conversation
\* gains an owner; where ownership is not required and the agent's policy does
\* not put the session into another organization (handler.rs, th-909995 and
\* th-anon-owned).
CreatorReaches ==
    \A s \in Sess :
        (/\ Loaded(s) /\ conn[sess[s].conn] = sess[s].by
         /\ ~dep.require_owned
         /\ same_org(sess[s].by.org, sess[s].org)
         /\ (sess[s].by.scope.kind = "Denied" /\ sess[s].by.org # None
               => ~Owned(sess[s].conv)))
        => scoped_session(s, sess[s].conn)

\* Whatever the sidebar lists can be opened by id, on both ways of listing: the
\* storage query of a host that requires owners and the check per conversation
\* (handler.rs, send_owned_conversations and may_read_conversation).
ListedIsReadable ==
    \A k \in Conn : conn[k] # Closed =>
        \A c \in handle_list_conversations(k) :
            may_read_conversation(c, conn[k].org, conn[k].scope, "ById")

\* handler.rs, scoped_session and may_read_conversation deny nobody what is its own:
\* the session it opened, and what its sidebar lists.
OwnIsReachable == CreatorReaches /\ ListedIsReadable

\* handler.rs:1378 "The conversation must exist AND be ours": where the conversation's
\* row landed before its participants there is no tenant to compare, and another
\* organization's connection that has the id renames it.
RenamesItsOwn ==
    reply # None => \A c \in reply.renamed : reply.to.org # None => conv[c].org = reply.to.org

\* What server.rs says of anonymous_scope: on a multi-user deployment an
\* anonymous connection lists nothing.  Violated: it lists the conversations of
\* the seed organization that have no owner.
AnonymousListsNothing ==
    \A k \in Conn :
        (conn[k] # Closed /\ conn[k].org = None /\ ~is_single_user_mode(dep.mode))
        => handle_list_conversations(k) = {}
=============================================================================

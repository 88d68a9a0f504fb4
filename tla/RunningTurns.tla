---------------------------- MODULE RunningTurns ----------------------------
(***************************************************************************)
(* The process-wide registry of running agent turns                        *)
(* (rust/smooth-operator-server/src/running_turns.rs) together with the    *)
(* life of the turn task whose reservation it hands out                    *)
(* (handler.rs handle_send_message, server.rs handle_text_frame).          *)
(*                                                                         *)
(* A turn is named by its registry token.  The reader task of a connection *)
(* claims the conversation, spawns the turn task, records the task's abort *)
(* handle, and later may cancel the turn locally; any connection may       *)
(* cancel it through the registry.  All of them run concurrently with the  *)
(* turn task, which owns the reservation from the spawn on.                *)
(***************************************************************************)
EXTENDS Naturals

CONSTANTS Conv,       \* conversation ids
          MaxTurns,   \* bound on the tokens fetch_add hands out
          None        \* Option::None

ASSUME ConstantsAssumption == /\ MaxTurns \in Nat
                              /\ None \notin Nat
                              /\ None \notin Conv

Token == 0 .. MaxTurns - 1

VARIABLES turns,      \* RunningTurns.turns: conversation -> token of its entry
          next_token, \* RunningTurns.next_token
          conv,       \* the conversation a token's reservation names
          state,      \* life of the turn: who owns its TurnReservation
          cancelled,  \* the turn's cancelled flag (Arc<AtomicBool>)
          abort,      \* RunningTurn.abort is Some(handle)
          owes,       \* what the starting connection's reader still has to do
          cancelling  \* how far RunningTurns::cancel is with the turn it removed

registryVars == <<turns, next_token, conv, state, cancelled, abort, owes, cancelling>>

\* "free":     token not handed out yet
\* "claimed":  reservation held by handle_send_message, no task yet
\* "running":  reservation moved into the spawned task
\* "aborting": abort() called, future not dropped yet
\* "ended":    reservation dropped
TurnState == {"free", "claimed", "running", "aborting", "ended"}

\* The reader between tokio::spawn and set_abort, and between the flag and
\* the abort, and the abort and the release, of a local cancel.
\* A turn is cancelled locally at most once: the reader takes current_turn.
Debt == {"nothing", "set_abort", "abort", "release", "taken"}

\* RunningTurns::cancel holds the lock for the removal only; the flag and the
\* abort follow without it.
Cancelling == {"no", "removed", "flagged", "done"}

\* Every turn that exists and whose reservation has not been dropped.
Live(t) == state[t] \in {"claimed", "running", "aborting"}

\* A cancel of the turn has begun: the registry's by its removal, the starting
\* connection's by its flag.
Revoked(t) == cancelled[t] \/ cancelling[t] # "no"

RegistryTypeOK ==
  /\ turns \in [Conv -> Token \cup {None}]
  /\ next_token \in 0 .. MaxTurns
  /\ conv \in [Token -> Conv \cup {None}]
  /\ state \in [Token -> TurnState]
  /\ cancelled \in [Token -> BOOLEAN]
  /\ abort \in [Token -> BOOLEAN]
  /\ owes \in [Token -> Debt]
  /\ cancelling \in [Token -> Cancelling]

RegistryInit ==
  /\ turns = [c \in Conv |-> None]
  /\ next_token = 0
  /\ conv = [t \in Token |-> None]
  /\ state = [t \in Token |-> "free"]
  /\ cancelled = [t \in Token |-> FALSE]
  /\ abort = [t \in Token |-> FALSE]
  /\ owes = [t \in Token |-> "nothing"]
  /\ cancelling = [t \in Token |-> "no"]

------------------------------------------------------------------------------
(* The registry's own operations, each one critical section of its mutex.   *)

\* Mutation: a release that ignores the token.
Released_AnyToken(t) ==
  [turns EXCEPT ![conv[t]] = None]

\* Mutation: an early return that forgets the reservation instead of
\* dropping it.
DropClaim_Leak(t) ==
  /\ state[t] = "claimed"
  /\ state' = [state EXCEPT ![t] = "ended"]
  /\ UNCHANGED <<turns, next_token, conv, cancelled, abort, owes, cancelling>>

\* Mutation: a registry cancel that never aborts the task.
AbortRemoved_Skip(t) ==
  /\ cancelling[t] = "flagged"
  /\ cancelling' = [cancelling EXCEPT ![t] = "done"]
  /\ UNCHANGED <<turns, next_token, conv, state, cancelled, abort, owes>>

\* Mutation: the claim inserts without looking for a running turn.
TryReserve_Overwrite(c) ==
  /\ next_token < MaxTurns
  /\ turns' = [turns EXCEPT ![c] = next_token]
  /\ next_token' = next_token + 1
  /\ conv' = [conv EXCEPT ![next_token] = c]
  /\ state' = [state EXCEPT ![next_token] = "claimed"]
  /\ UNCHANGED <<cancelled, abort, owes, cancelling>>

\* The registry after RunningTurns::release: the entry goes only while its
\* token is still the one being released.
Released(t) ==
  [turns EXCEPT ![conv[t]] = IF @ = t THEN None ELSE @]

TryReserve(c) ==
  /\ next_token < MaxTurns
  /\ turns[c] = None
  /\ turns' = [turns EXCEPT ![c] = next_token]
  /\ next_token' = next_token + 1
  /\ conv' = [conv EXCEPT ![next_token] = c]
  /\ state' = [state EXCEPT ![next_token] = "claimed"]
  /\ UNCHANGED <<cancelled, abort, owes, cancelling>>

\* RunningTurns::cancel from any connection takes the entry out; the lock is
\* released with that, and the conversation is free.
CancelConversation(c) ==
  /\ turns[c] # None
  /\ cancelling' = [cancelling EXCEPT ![turns[c]] = "removed"]
  /\ turns' = [turns EXCEPT ![c] = None]
  /\ UNCHANGED <<next_token, conv, state, cancelled, abort, owes>>

\* Without the lock, the removed turn's flag is raised,
RaiseFlag(t) ==
  /\ cancelling[t] = "removed"
  /\ cancelling' = [cancelling EXCEPT ![t] = "flagged"]
  /\ cancelled' = [cancelled EXCEPT ![t] = TRUE]
  /\ UNCHANGED <<turns, next_token, conv, state, abort, owes>>

\* and its task is aborted, if the entry had an abort handle.
AbortRemoved(t) ==
  /\ cancelling[t] = "flagged"
  /\ cancelling' = [cancelling EXCEPT ![t] = "done"]
  /\ state' = [state EXCEPT ![t] = IF abort[t] /\ @ = "running"
                                   THEN "aborting" ELSE @]
  /\ UNCHANGED <<turns, next_token, conv, cancelled, abort, owes>>

------------------------------------------------------------------------------
(* The starting connection's reader task.                                   *)

\* handle_send_message gives up after the claim (storage, gateway key): the
\* reservation is dropped with the stack frame.
DropClaim(t) ==
  /\ state[t] = "claimed"
  /\ state' = [state EXCEPT ![t] = "ended"]
  /\ turns' = Released(t)
  /\ UNCHANGED <<next_token, conv, cancelled, abort, owes, cancelling>>

SpawnTurn(t) ==
  /\ state[t] = "claimed"
  /\ state' = [state EXCEPT ![t] = "running"]
  /\ owes' = [owes EXCEPT ![t] = "set_abort"]
  /\ UNCHANGED <<turns, next_token, conv, cancelled, abort, cancelling>>

\* TurnReleaser::set_abort: recorded only in the entry of this very token.
SetAbort(t) ==
  /\ owes[t] = "set_abort"
  /\ owes' = [owes EXCEPT ![t] = "nothing"]
  /\ abort' = [abort EXCEPT ![t] = (turns[conv[t]] = t)]
  /\ UNCHANGED <<turns, next_token, conv, state, cancelled, cancelling>>

\* A `cancel` frame on the starting connection, in the order of its stores:
\* flag, abort(), release().  It may find the task ended already.
LocalCancel(t) ==
  /\ state[t] \in {"running", "aborting"}
  /\ owes[t] = "nothing"
  /\ cancelled' = [cancelled EXCEPT ![t] = TRUE]
  /\ owes' = [owes EXCEPT ![t] = "abort"]
  /\ UNCHANGED <<turns, next_token, conv, state, abort, cancelling>>

LocalAbort(t) ==
  /\ owes[t] = "abort"
  /\ state' = [state EXCEPT ![t] = IF @ = "running" THEN "aborting" ELSE @]
  /\ owes' = [owes EXCEPT ![t] = "release"]
  /\ UNCHANGED <<turns, next_token, conv, cancelled, abort, cancelling>>

LocalRelease(t) ==
  /\ owes[t] = "release"
  /\ turns' = Released(t)
  /\ owes' = [owes EXCEPT ![t] = "taken"]
  /\ UNCHANGED <<next_token, conv, state, cancelled, abort, cancelling>>

------------------------------------------------------------------------------
(* The turn task.                                                           *)

\* The task completes, fails, or is dropped by an abort: whichever it is, its
\* TurnReservation is dropped with it.
EndTurn(t) ==
  /\ state[t] \in {"running", "aborting"}
  /\ state' = [state EXCEPT ![t] = "ended"]
  /\ turns' = Released(t)
  /\ UNCHANGED <<next_token, conv, cancelled, abort, owes, cancelling>>

------------------------------------------------------------------------------
RegistryStep(t) ==
  \/ DropClaim(t)
  \/ SpawnTurn(t)
  \/ SetAbort(t)
  \/ LocalAbort(t)
  \/ LocalRelease(t)
  \/ RaiseFlag(t)
  \/ AbortRemoved(t)

RegistryNext ==
  \/ \E c \in Conv : TryReserve(c) \/ CancelConversation(c)
  \/ \E t \in Token : RegistryStep(t) \/ LocalCancel(t) \/ EndTurn(t)

RegistrySpec == RegistryInit /\ [][RegistryNext]_registryVars

\* A spawned turn ends (the agent loop is bounded by max_iterations and every
\* park by a timeout), and a reader does not stop inside a handler.
RegistryFairness == \A t \in Token : WF_registryVars(RegistryStep(t)) /\ WF_registryVars(EndTurn(t))

RegistryFairSpec == RegistrySpec /\ RegistryFairness

------------------------------------------------------------------------------
(* Properties.                                                              *)

\* A turn no cancel of which has begun holds its conversation's entry for as
\* long as its reservation exists, whatever earlier turns on that conversation
\* and the unlocked rest of their cancels still do: no late drop, late releaser
\* or foreign cancel takes it away.
ClaimHeld ==
  \A t \in Token : Live(t) /\ ~Revoked(t) => turns[conv[t]] = t

\* An entry belongs to a turn that still exists, on that very conversation:
\* no path out of handle_send_message or of the turn task leaves a claim
\* behind that would answer TURN_IN_PROGRESS for ever.
NoLeakedClaim ==
  \A c \in Conv : turns[c] # None => /\ Live(turns[c])
                                     /\ conv[turns[c]] = c

\* Two turns no cancel of which has begun are on different conversations.
OneUncancelledTurn ==
  \A t, u \in Token :
    /\ Live(t) /\ ~Revoked(t)
    /\ Live(u) /\ ~Revoked(u)
    /\ conv[t] = conv[u]
    => t = u

\* Once a turn's abort handle is recorded, a finished cancel - the registry's
\* or the connection's own - leaves no task of it running.
CancelStopsTask ==
  \A t \in Token :
    /\ cancelled[t] /\ abort[t]
    /\ owes[t] # "abort" /\ cancelling[t] \notin {"removed", "flagged"}
    => state[t] # "running"

\* running_turns.rs on cancel: "raise its cancelled flag ..., abort its task and
\* drop the registration".  In that order two live turns of one conversation
\* would never both have their flags down.
OneUnflaggedTurn ==
  \A t, u \in Token :
    /\ Live(t) /\ ~cancelled[t]
    /\ Live(u) /\ ~cancelled[u]
    /\ conv[t] = conv[u]
    => t = u

\* handler.rs on try_reserve: "One running turn per CONVERSATION".
\* Two turn tasks that no abort was ever requested for never run on one
\* conversation at the same time.
OneRunningTask ==
  \A t, u \in Token :
    state[t] = "running" /\ state[u] = "running" /\ conv[t] = conv[u] => t = u

\* Every claim is given up again: a conversation is never blocked for good by
\* the turn that claimed it.
ClaimReleased ==
  \A c \in Conv, t \in Token : turns[c] = t ~> turns[c] # t

\* The abstract turn a token stands for.
AbstractStatus(t) ==
  CASE state[t] = "free" -> "new"
    [] state[t] = "ended" -> "finished"
    [] Live(t) /\ Revoked(t) -> "cancelled"
    [] OTHER -> "active"

Exclusion == INSTANCE TurnExclusion
               WITH Turn <- Token, on <- conv,
                    status <- [t \in Token |-> AbstractStatus(t)]

\* The registry and its tokens implement exclusive turns: a turn is accepted
\* only while no uncancelled turn is active on its conversation.  A cancel
\* takes effect with the removal, or with the flag of a local cancel.
ImplementsExclusion == Exclusion!Spec
=============================================================================

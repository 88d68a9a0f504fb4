------------------------ MODULE ConnectionTurns_proofs ------------------------
(***************************************************************************)
(* Proofs about the running-turn registry and about the connections and    *)
(* turns that use it, for every set of connections and conversations       *)
(* and every bound.                                                        *)
(***************************************************************************)
EXTENDS ConnectionTurns, SequenceTheorems, TLAPS

-----------------------------------------------------------------------------
(* The registry.                                                           *)

\* Tokens are handed out in order and a token that was handed out names a
\* conversation; only such a token has a reader with something left to do.
TokensInOrder ==
  /\ \A t \in Token : t >= next_token => state[t] = "free"
  /\ \A t \in Token : state[t] = "free" => ~cancelled[t]
  /\ \A t \in Token : state[t] # "free" => conv[t] \in Conv
  /\ \A t \in Token : owes[t] # "nothing" => state[t] \notin {"free", "claimed"}

\* What the cancel flag of a turn that still has its entry says about its
\* reader, and what a recorded abort handle says about the turn.
CancelProgress ==
  /\ \A c \in Conv : turns[c] # None /\ cancelled[turns[c]] =>
                        owes[turns[c]] \in {"abort", "release"}
  /\ \A t \in Token : owes[t] \in {"release", "taken"} => state[t] # "running"
  /\ \A t \in Token : owes[t] \in {"abort", "release", "taken"} => cancelled[t]
  /\ \A t \in Token : owes[t] = "set_abort" \/ state[t] \in {"free", "claimed"}
                        => ~abort[t]

\* A turn the registry's cancel took out has lost its entry for good, and its
\* flag is up once the cancel is past that step.
RemovedForGood ==
  /\ \A t \in Token : cancelling[t] # "no" => state[t] # "free" /\ turns[conv[t]] # t
  /\ \A t \in Token : cancelling[t] \in {"flagged", "done"} => cancelled[t]

\* The inductive invariant.
RegistryInv ==
  /\ RegistryTypeOK
  /\ TokensInOrder
  /\ RemovedForGood
  /\ ClaimHeld
  /\ NoLeakedClaim
  /\ CancelProgress
  /\ CancelStopsTask

\* The absent token is no token.
LEMMA NoneIsNoToken == None \notin Token
  BY ConstantsAssumption DEF Token

\* The registry starts empty.
LEMMA InitRegistryInv == RegistryInit => RegistryInv
  BY ConstantsAssumption, NoneIsNoToken
  DEF RegistryInit, RegistryInv, RegistryTypeOK, TokensInOrder, ClaimHeld, NoLeakedClaim,
      CancelProgress,
      CancelStopsTask, RemovedForGood, Cancelling, Revoked,
      TurnState, Debt, Live, Token

\* Dropping a reservation, by an early return or by the end of the task.
LEMMA ReleaseByEnding ==
  ASSUME RegistryInv, NEW t \in Token, state[t] \in {"claimed", "running", "aborting"},
         state' = [state EXCEPT ![t] = "ended"], turns' = Released(t),
         UNCHANGED <<next_token, conv, cancelled, abort, owes, cancelling>>
  PROVE  RegistryInv'
<1> USE ConstantsAssumption, NoneIsNoToken
<1>1. conv[t] \in Conv
  BY DEF RegistryInv, TokensInOrder
<1>2. RegistryTypeOK'
  BY <1>1 DEF Released, RegistryInv, RegistryTypeOK, TurnState
<1>3. TokensInOrder'
  BY DEF RegistryInv, RegistryTypeOK, TokensInOrder
<1>4. (ClaimHeld /\ NoLeakedClaim /\ RemovedForGood)'
  BY <1>1 DEF Released, RegistryInv, RegistryTypeOK, ClaimHeld, NoLeakedClaim, Live, Revoked,
              RemovedForGood
<1>5. (CancelProgress /\ CancelStopsTask)'
  BY <1>1 DEF Released, RegistryInv, RegistryTypeOK, NoLeakedClaim, CancelProgress,
              CancelStopsTask, RemovedForGood
<1> QED BY <1>2, <1>3, <1>4, <1>5 DEF RegistryInv

\* Every step of the registry keeps the invariant.
LEMMA StepRegistryInv == RegistryInv /\ [RegistryNext]_registryVars => RegistryInv'
<1> SUFFICES ASSUME RegistryInv, [RegistryNext]_registryVars PROVE RegistryInv'
  OBVIOUS
<1> USE ConstantsAssumption, NoneIsNoToken
<1>1. ASSUME NEW c \in Conv, TryReserve(c) PROVE RegistryInv'
  <2>1. next_token \in Token /\ state[next_token] = "free"
    BY <1>1 DEF TryReserve, RegistryInv, RegistryTypeOK, TokensInOrder, Token
  <2>2. RegistryTypeOK'
    BY <1>1, <2>1 DEF TryReserve, RegistryInv, RegistryTypeOK, TurnState, Token
  <2>3. TokensInOrder'
    BY <1>1, <2>1 DEF TryReserve, RegistryInv, RegistryTypeOK, TokensInOrder, Token
  <2>4. (ClaimHeld /\ NoLeakedClaim /\ RemovedForGood)'
    BY <1>1, <2>1 DEF TryReserve, RegistryInv, RegistryTypeOK, TokensInOrder, ClaimHeld,
                      NoLeakedClaim, Live, Revoked, RemovedForGood
  <2>5. (CancelProgress /\ CancelStopsTask)'
    BY <1>1, <2>1 DEF TryReserve, RegistryInv, RegistryTypeOK, TokensInOrder, NoLeakedClaim,
                      CancelProgress, CancelStopsTask, RemovedForGood, Live
  <2> QED BY <2>2, <2>3, <2>4, <2>5 DEF RegistryInv
<1>2. ASSUME NEW c \in Conv, CancelConversation(c) PROVE RegistryInv'
  <2>1. turns[c] \in Token /\ conv[turns[c]] = c /\ Live(turns[c])
    BY <1>2 DEF CancelConversation, RegistryInv, RegistryTypeOK, NoLeakedClaim
  <2>2. RegistryTypeOK'
    BY <1>2, <2>1 DEF CancelConversation, RegistryInv, RegistryTypeOK, Cancelling
  <2>3. TokensInOrder'
    BY <1>2, <2>1 DEF CancelConversation, RegistryInv, RegistryTypeOK, TokensInOrder, Live
  <2>4. (ClaimHeld /\ NoLeakedClaim /\ RemovedForGood)'
    BY <1>2, <2>1 DEF CancelConversation, RegistryInv, RegistryTypeOK, ClaimHeld, NoLeakedClaim,
                      Live, Revoked, RemovedForGood
  <2>5. (CancelProgress /\ CancelStopsTask)'
    BY <1>2, <2>1 DEF CancelConversation, RegistryInv, RegistryTypeOK, NoLeakedClaim, TokensInOrder,
                      CancelProgress, CancelStopsTask, RemovedForGood, Live
  <2> QED BY <2>2, <2>3, <2>4, <2>5 DEF RegistryInv
<1>3. ASSUME NEW t \in Token, DropClaim(t) PROVE RegistryInv'
  BY <1>3, ReleaseByEnding DEF DropClaim, RegistryInv, TokensInOrder, CancelProgress, RegistryTypeOK
<1>4. ASSUME NEW t \in Token, EndTurn(t) PROVE RegistryInv'
  BY <1>4, ReleaseByEnding DEF EndTurn
<1>5. ASSUME NEW t \in Token, SpawnTurn(t) PROVE RegistryInv'
  <2>1. (RegistryTypeOK /\ TokensInOrder)'
    BY <1>5 DEF SpawnTurn, RegistryInv, RegistryTypeOK, TokensInOrder, TurnState, Debt
  <2>2. (ClaimHeld /\ NoLeakedClaim /\ RemovedForGood)'
    BY <1>5 DEF SpawnTurn, RegistryInv, RegistryTypeOK, ClaimHeld, NoLeakedClaim, Live, Revoked,
                RemovedForGood
  <2>3. (CancelProgress /\ CancelStopsTask)'
    BY <1>5 DEF SpawnTurn, RegistryInv, RegistryTypeOK, TokensInOrder, NoLeakedClaim,
                CancelProgress, CancelStopsTask, RemovedForGood, Live
  <2> QED BY <2>1, <2>2, <2>3 DEF RegistryInv
<1>6. ASSUME NEW t \in Token, SetAbort(t) PROVE RegistryInv'
  <2>1. (RegistryTypeOK /\ TokensInOrder)'
    BY <1>6 DEF SetAbort, RegistryInv, RegistryTypeOK, TokensInOrder, Debt
  <2>2. (ClaimHeld /\ NoLeakedClaim /\ RemovedForGood)'
    BY <1>6 DEF SetAbort, RegistryInv, RegistryTypeOK, ClaimHeld, NoLeakedClaim, Live, Revoked,
                RemovedForGood
  <2>3. (CancelProgress /\ CancelStopsTask)'
    BY <1>6 DEF SetAbort, RegistryInv, RegistryTypeOK, TokensInOrder, NoLeakedClaim,
                CancelProgress, CancelStopsTask, RemovedForGood, Live
  <2> QED BY <2>1, <2>2, <2>3 DEF RegistryInv
<1>7. ASSUME NEW t \in Token, LocalCancel(t) PROVE RegistryInv'
  <2>1. (RegistryTypeOK /\ TokensInOrder)'
    BY <1>7 DEF LocalCancel, RegistryInv, RegistryTypeOK, TokensInOrder, Debt
  <2>2. (ClaimHeld /\ NoLeakedClaim /\ RemovedForGood)'
    BY <1>7 DEF LocalCancel, RegistryInv, RegistryTypeOK, ClaimHeld, NoLeakedClaim, Live,
                Revoked, RemovedForGood
  <2>3. (CancelProgress /\ CancelStopsTask)'
    BY <1>7 DEF LocalCancel, RegistryInv, RegistryTypeOK, NoLeakedClaim, CancelProgress,
                CancelStopsTask, RemovedForGood, Live
  <2> QED BY <2>1, <2>2, <2>3 DEF RegistryInv
<1>8. ASSUME NEW t \in Token, LocalAbort(t) PROVE RegistryInv'
  <2>1. (RegistryTypeOK /\ TokensInOrder)'
    BY <1>8 DEF LocalAbort, RegistryInv, RegistryTypeOK, TokensInOrder, Debt, TurnState
  <2>2. (ClaimHeld /\ NoLeakedClaim /\ RemovedForGood)'
    BY <1>8 DEF LocalAbort, RegistryInv, RegistryTypeOK, ClaimHeld, NoLeakedClaim, Live, Revoked,
                RemovedForGood
  <2>3. (CancelProgress /\ CancelStopsTask)'
    BY <1>8 DEF LocalAbort, RegistryInv, RegistryTypeOK, TokensInOrder, CancelProgress,
                CancelStopsTask, RemovedForGood
  <2> QED BY <2>1, <2>2, <2>3 DEF RegistryInv
<1>9. ASSUME NEW t \in Token, LocalRelease(t) PROVE RegistryInv'
  <2>1. conv[t] \in Conv
    BY <1>9 DEF LocalRelease, RegistryInv, TokensInOrder
  <2>2. (RegistryTypeOK /\ TokensInOrder)'
    BY <1>9, <2>1 DEF LocalRelease, Released, RegistryInv, RegistryTypeOK, TokensInOrder, Debt
  <2>3. cancelled[t] 
    BY <1>9 DEF LocalRelease, RegistryInv, CancelProgress
  <2>4. (ClaimHeld /\ NoLeakedClaim /\ RemovedForGood)'
    BY <1>9, <2>1, <2>3 DEF LocalRelease, Released, RegistryInv, RegistryTypeOK, ClaimHeld,
                            NoLeakedClaim, Live, Revoked, RemovedForGood
  <2>5. (CancelProgress /\ CancelStopsTask)'
    BY <1>9, <2>1 DEF LocalRelease, Released, RegistryInv, RegistryTypeOK, NoLeakedClaim,
                      CancelProgress, CancelStopsTask, RemovedForGood
  <2> QED BY <2>2, <2>4, <2>5 DEF RegistryInv
<1>10. ASSUME NEW t \in Token, RaiseFlag(t) PROVE RegistryInv'
  <2>1. (RegistryTypeOK /\ TokensInOrder)'
    BY <1>10 DEF RaiseFlag, RegistryInv, RegistryTypeOK, TokensInOrder, RemovedForGood, Cancelling
  <2>2. (ClaimHeld /\ NoLeakedClaim /\ RemovedForGood)'
    BY <1>10 DEF RaiseFlag, RegistryInv, RegistryTypeOK, ClaimHeld, NoLeakedClaim, Live, Revoked,
                 RemovedForGood
  <2>3. (CancelProgress /\ CancelStopsTask)'
    BY <1>10 DEF RaiseFlag, RegistryInv, RegistryTypeOK, NoLeakedClaim, CancelProgress,
                 CancelStopsTask, RemovedForGood
  <2> QED BY <2>1, <2>2, <2>3 DEF RegistryInv
<1>11. ASSUME NEW t \in Token, AbortRemoved(t) PROVE RegistryInv'
  <2>1. (RegistryTypeOK /\ TokensInOrder)'
    BY <1>11 DEF AbortRemoved, RegistryInv, RegistryTypeOK, TokensInOrder, TurnState, Cancelling
  <2>2. (ClaimHeld /\ NoLeakedClaim /\ RemovedForGood)'
    BY <1>11 DEF AbortRemoved, RegistryInv, RegistryTypeOK, ClaimHeld, NoLeakedClaim, Live, Revoked,
                 RemovedForGood
  <2>3. (CancelProgress /\ CancelStopsTask)'
    BY <1>11 DEF AbortRemoved, RegistryInv, RegistryTypeOK, NoLeakedClaim, CancelProgress,
                 CancelStopsTask, RemovedForGood
  <2> QED BY <2>1, <2>2, <2>3 DEF RegistryInv
<1>12. CASE UNCHANGED registryVars
  BY <1>12 DEF registryVars, RegistryInv, RegistryTypeOK, TokensInOrder, ClaimHeld, NoLeakedClaim,
               CancelProgress, CancelStopsTask, RemovedForGood, Live, Revoked
<1> QED
  BY <1>1, <1>2, <1>3, <1>4, <1>5, <1>6, <1>7, <1>8, <1>9, <1>10, <1>11, <1>12
  DEF RegistryNext, RegistryStep

\* The type invariant of the registry and its turns.
THEOREM RegistryTypeCorrect == RegistrySpec => []RegistryTypeOK
<1>1. RegistryInit => RegistryInv
  BY InitRegistryInv
<1>2. RegistryInv /\ [RegistryNext]_registryVars => RegistryInv'
  BY StepRegistryInv
<1>3. RegistryInv => RegistryTypeOK
  BY DEF RegistryInv
<1> QED BY <1>1, <1>2, <1>3, PTL DEF RegistrySpec

\* A turn no cancel of which has begun never loses its claim, and no claim
\* outlives its turn (RunningTurns::release compares tokens; every drop releases).
THEOREM ClaimSafety == RegistrySpec => [](ClaimHeld /\ NoLeakedClaim)
<1>1. RegistryInit => RegistryInv
  BY InitRegistryInv
<1>2. RegistryInv /\ [RegistryNext]_registryVars => RegistryInv'
  BY StepRegistryInv
<1>3. RegistryInv => ClaimHeld /\ NoLeakedClaim
  BY DEF RegistryInv
<1> QED BY <1>1, <1>2, <1>3, PTL DEF RegistrySpec

\* At most one turn per conversation that no cancel has begun to take away,
\* although the flag of a removed turn rises only after its successor may have
\* been claimed.
THEOREM OneTurnPerConversation == RegistrySpec => []OneUncancelledTurn
<1>1. ClaimHeld => OneUncancelledTurn
  BY DEF ClaimHeld, OneUncancelledTurn
<1> QED BY <1>1, ClaimSafety, PTL

\* A cancel that finds the abort handle recorded leaves no task running once it
\* is over, although it flags and aborts without the lock.
THEOREM CancelSafety == RegistrySpec => []CancelStopsTask
<1>1. RegistryInit => RegistryInv
  BY InitRegistryInv
<1>2. RegistryInv /\ [RegistryNext]_registryVars => RegistryInv'
  BY StepRegistryInv
<1>3. RegistryInv => CancelStopsTask
  BY DEF RegistryInv
<1> QED BY <1>1, <1>2, <1>3, PTL DEF RegistrySpec

------------------------------------------------------------------------------
(* The refinement.                                                          *)

\* The abstract status of every turn.
Mapped == [t \in Token |-> AbstractStatus(t)]

\* What the mapping looks at changes of turn t only.
OnlyTurn(t) ==
  \A u \in Token \ {t} : /\ state'[u] = state[u] /\ cancelled'[u] = cancelled[u]
                         /\ cancelling'[u] = cancelling[u]

\* Where only turn t changes, the mapped status changes only at t.
LEMMA MappedExcept ==
  ASSUME NEW t \in Token,
         OnlyTurn(t)
  PROVE  Mapped' = [Mapped EXCEPT ![t] = AbstractStatus(t)']
  BY DEF Mapped, AbstractStatus, Live, Revoked, OnlyTurn

\* A cancel of one turn is the abstract cancel, or a stutter when the turn was
\* cancelled before.
LEMMA CancelRefines ==
  ASSUME NEW t \in Token, Live(t), AbstractStatus(t)' = "cancelled", UNCHANGED conv,
         OnlyTurn(t)
  PROVE  Exclusion!Next \/ UNCHANGED <<conv, Mapped>>
<1>1. Mapped' = [Mapped EXCEPT ![t] = "cancelled"]
  BY MappedExcept
<1>2. CASE AbstractStatus(t) = "cancelled"
  BY <1>1, <1>2 DEF Mapped
<1>3. CASE AbstractStatus(t) = "active"
  <2>1. Exclusion!Cancel(t)
    BY <1>1, <1>3 DEF Exclusion!Cancel, Mapped
  <2> QED BY <2>1 DEF Exclusion!Next
<1> QED BY <1>2, <1>3 DEF AbstractStatus, Live, Revoked

\* The empty registry excludes nobody.
LEMMA RefineInit == RegistryInit => Exclusion!Init
  BY DEF RegistryInit, Exclusion!Init, AbstractStatus, Live, Revoked

\* A step of the registry is a step of the exclusion, or a stutter.
LEMMA RefineStep == RegistryInv /\ [RegistryNext]_registryVars => [Exclusion!Next]_(Exclusion!vars)
<1> SUFFICES ASSUME RegistryInv, [RegistryNext]_registryVars
             PROVE  Exclusion!Next \/ UNCHANGED <<conv, Mapped>>
  BY DEF Exclusion!vars, Mapped
<1> USE ConstantsAssumption, NoneIsNoToken
<1>1. ASSUME NEW c \in Conv, TryReserve(c) PROVE Exclusion!Next
  <2>1. PICK n \in Token : n = next_token /\ state[n] = "free"
    BY <1>1 DEF TryReserve, RegistryInv, RegistryTypeOK, TokensInOrder, Token
  <2>2. ~Exclusion!Busy(c)
    <3>1. \A t \in Token : conv[t] = c => AbstractStatus(t) # "active"
      BY <1>1 DEF TryReserve, RegistryInv, RegistryTypeOK, ClaimHeld, AbstractStatus, Live,
                  Revoked, TurnState
    <3> QED BY <3>1 DEF Exclusion!Busy
  <2>3. AbstractStatus(n) = "new" /\ AbstractStatus(n)' = "active"
    BY <1>1, <2>1 DEF TryReserve, AbstractStatus, RegistryInv, RegistryTypeOK, TokensInOrder, Live,
                      Revoked, RemovedForGood
  <2>4. Mapped' = [Mapped EXCEPT ![n] = "active"]
    BY <1>1, <2>1, <2>3, MappedExcept DEF TryReserve, RegistryInv, RegistryTypeOK, OnlyTurn
  <2>5. Exclusion!Accept(n, c)
    BY <1>1, <2>1, <2>2, <2>3, <2>4 DEF TryReserve, Exclusion!Accept, Mapped
  <2> QED BY <2>1, <2>5 DEF Exclusion!Next
<1>2. ASSUME NEW c \in Conv, CancelConversation(c)
      PROVE  Exclusion!Next \/ UNCHANGED <<conv, Mapped>>
  <2>1. PICK n \in Token : n = turns[c] /\ Live(n)
    BY <1>2 DEF CancelConversation, RegistryInv, RegistryTypeOK, NoLeakedClaim
  <2>2. OnlyTurn(n)
    BY <1>2, <2>1 DEF CancelConversation, RegistryInv, RegistryTypeOK, OnlyTurn
  <2>3. AbstractStatus(n)' = "cancelled"
    BY <1>2, <2>1 DEF CancelConversation, AbstractStatus, RegistryInv, RegistryTypeOK, Live, Revoked
  <2> QED BY <1>2, <2>1, <2>2, <2>3, CancelRefines DEF CancelConversation
<1>3. ASSUME NEW t \in Token, DropClaim(t) \/ EndTurn(t) PROVE Exclusion!Next
  <2>1. Mapped[t] \in {"active", "cancelled"}
    BY <1>3 DEF DropClaim, EndTurn, Mapped, AbstractStatus, Live, Revoked
  <2>2. AbstractStatus(t)' = "finished"
    <3>1. state'[t] = "ended"
      BY <1>3 DEF DropClaim, EndTurn, RegistryInv, RegistryTypeOK
    <3> QED BY <3>1 DEF AbstractStatus, Live
  <2>3. Mapped' = [Mapped EXCEPT ![t] = "finished"]
    BY <1>3, <2>2, MappedExcept DEF DropClaim, EndTurn, RegistryInv, RegistryTypeOK, OnlyTurn
  <2>4. Exclusion!Finish(t)
    BY <1>3, <2>1, <2>3 DEF DropClaim, EndTurn, Exclusion!Finish, Mapped
  <2> QED BY <2>4 DEF Exclusion!Next
<1>4. ASSUME NEW t \in Token, LocalCancel(t)
      PROVE  Exclusion!Next \/ UNCHANGED <<conv, Mapped>>
  <2>1. OnlyTurn(t)
    BY <1>4 DEF LocalCancel, RegistryInv, RegistryTypeOK, OnlyTurn
  <2>2. AbstractStatus(t)' = "cancelled" /\ Live(t)
    BY <1>4 DEF LocalCancel, AbstractStatus, RegistryInv, RegistryTypeOK, Live, Revoked
  <2> QED BY <1>4, <2>1, <2>2, CancelRefines DEF LocalCancel
<1>5. ASSUME NEW t \in Token, SpawnTurn(t) \/ SetAbort(t) \/ LocalAbort(t) \/ LocalRelease(t)
                                \/ RaiseFlag(t) \/ AbortRemoved(t)
      PROVE  UNCHANGED <<conv, Mapped>>
  <2>1. OnlyTurn(t)
    BY <1>5 DEF SpawnTurn, SetAbort, LocalAbort, LocalRelease, RaiseFlag, AbortRemoved,
                RegistryInv, RegistryTypeOK, OnlyTurn
  <2>2. AbstractStatus(t)' = AbstractStatus(t)
    BY <1>5 DEF SpawnTurn, SetAbort, LocalAbort, LocalRelease, RaiseFlag, AbortRemoved,
                RemovedForGood, Revoked, AbstractStatus, Live,
                RegistryInv, RegistryTypeOK, TurnState
  <2>3. Mapped' = Mapped
    BY <2>1, <2>2, MappedExcept DEF Mapped
  <2> QED BY <1>5, <2>3 DEF SpawnTurn, SetAbort, LocalAbort, LocalRelease, RaiseFlag, AbortRemoved
<1>6. CASE UNCHANGED registryVars
  BY <1>6 DEF registryVars, Mapped, AbstractStatus, Live, Revoked
<1> QED BY <1>1, <1>2, <1>3, <1>4, <1>5, <1>6 DEF RegistryNext, RegistryStep

\* The registry with its tokens, releases and abort handles implements
\* exclusive turns.
THEOREM Implementation == RegistrySpec => ImplementsExclusion
<1>1. RegistryInit => RegistryInv /\ Exclusion!Init
  BY InitRegistryInv, RefineInit
<1>2. RegistryInv /\ [RegistryNext]_registryVars => RegistryInv' /\ [Exclusion!Next]_(Exclusion!vars)
  BY StepRegistryInv, RefineStep
<1> QED BY <1>1, <1>2, PTL DEF RegistrySpec, ImplementsExclusion, Exclusion!Spec

------------------------------------------------------------------------------
(* The use of the registry.                                                 *)

\* A reader inside a handler works on a turn that exists.
Handling == {"reserved", "acked", "spawned", "flagged", "aborted", "released",
             "queued", "taken", "raised", "notify"}

\* Where the turn need not be of the reader's own connection.
SessionCancel == {"taken", "raised", "notify"}

\* The inductive invariant behind the use of the registry: every turn a
\* reader names is a token.
ReaderInv ==
  /\ next_token \in 0 .. MaxTurns
  /\ turns \in [Conv -> Token \cup {None}]
  /\ current \in [Conn -> Token \cup {None}]
  /\ reader \in [Conn -> [at : ReaderAt, turn : Token \cup {None}]]
  /\ \A k \in Conn : reader[k].at \in Handling => reader[k].turn \in Token

\* What the proofs use of tokens.
LEMMA TokenFacts == Token = 0 .. MaxTurns - 1 /\ None \notin Token
  BY ConstantsAssumption, ConnectionAssumption DEF Token

\* No frame is read yet.
LEMMA InitReaderInv == Init => ReaderInv
  BY ConstantsAssumption, ConnectionAssumption, TokenFacts
  DEF Init, RegistryInit, ReaderInv, Handling, ReaderAt

\* The task's own steps end in the registry only where the turn ends.
LEMMA TaskUsesRegistry ==
  ASSUME NEW t \in Token, AgentEvent(t) \/ Translate(t) \/ TaskStep(t)
  PROVE  EndTurn(t) \/ UNCHANGED registryVars
<1>1. CASE AgentEvent(t) \/ Translate(t)
  BY <1>1 DEF AgentEvent, Translate
<1>2. CASE TaskStep(t)
  BY <1>2 DEF TaskStep, PersistReply, JudgeDone, TurnFails, EnterTail, StepWritten, OtpGate,
              OfferOtp, OtpDelivered, FinalCheck, EmitResponse, EnterErrorTail,
              PersistTurnError, EmitError, QuietReturn, DropAborted, Advance, End
<1> QED BY <1>1, <1>2

\* A task's step leaves the readers alone.
LEMMA TaskKeepsReaders ==
  ASSUME NEW t \in Token, AgentEvent(t) \/ Translate(t) \/ TaskStep(t)
  PROVE  UNCHANGED connVars
<1>1. CASE AgentEvent(t) \/ Translate(t)
  BY <1>1 DEF AgentEvent, Translate
<1>2. CASE TaskStep(t)
  BY <1>2 DEF TaskStep, PersistReply, JudgeDone, TurnFails, EnterTail, StepWritten, OtpGate,
              OfferOtp, OtpDelivered, FinalCheck, EmitResponse, EnterErrorTail,
              PersistTurnError, EmitError, QuietReturn, DropAborted, Advance, End
<1> QED BY <1>1, <1>2

\* Every step of the system is a step of the registry or leaves it alone.
LEMMA StepUsesRegistry == ReaderInv /\ [Next]_vars => [RegistryNext]_registryVars
<1> SUFFICES ASSUME ReaderInv, [Next]_vars PROVE RegistryNext \/ UNCHANGED registryVars
  BY DEF registryVars
<1> USE DEF Token
<1>1. ASSUME NEW k \in Conn, ReaderStep(k) PROVE RegistryNext \/ UNCHANGED registryVars
  <2>1. CASE RefuseTurn(k) \/ Spawn(k) \/ TrackTurn(k) \/ CancelAbort(k) \/ CancelRelease(k)
               \/ SessionFlag(k) \/ SessionAbort(k)
    <3>1. reader[k].turn \in Token
      BY <2>1 DEF ReaderInv, Handling, At, RefuseTurn, Spawn, TrackTurn, CancelAbort, CancelRelease,
                  SessionFlag, SessionAbort
    <3>2. RegistryStep(reader[k].turn)
      BY <2>1 DEF RefuseTurn, Spawn, TrackTurn, CancelAbort, CancelRelease, SessionFlag,
                  SessionAbort, RegistryStep
    <3> QED BY <3>1, <3>2 DEF RegistryNext
  <2>2. CASE Acknowledge(k) \/ CancelQueue(k) \/ CancelArm(k) \/ Notify(k) \/ StopReader(k)
               \/ WriterExit(k)
    BY <2>2 DEF Acknowledge, CancelQueue, CancelArm, Notify, StopReader, WriterExit
  <2> QED BY <1>1, <2>1, <2>2 DEF ReaderStep
<1>2. ASSUME NEW k \in Conn, ClientStep(k) PROVE RegistryNext \/ UNCHANGED registryVars
  <2>1. CASE CancelOwn(k)
    <3>1. current[k] \in Token
      BY <2>1 DEF CancelOwn, Tracks, ReaderInv
    <3> QED BY <2>1, <3>1 DEF CancelOwn, RegistryNext
  <2>2. CASE Disconnect(k)
    BY <2>2 DEF Disconnect
  <2>3. ASSUME NEW v \in Conv, RejectBusy(k, v) PROVE UNCHANGED registryVars
    BY <2>3 DEF RejectBusy
  <2>4. ASSUME NEW v \in Conv, SendMessage(k, v) \/ ConfirmContinuation(k, v) PROVE RegistryNext
    BY <2>4 DEF SendMessage, ConfirmContinuation, ClaimTurn, RegistryNext
  <2>5. ASSUME NEW v \in Conv, CancelBySession(k, v) PROVE RegistryNext
    BY <2>5 DEF CancelBySession, RegistryNext
  <2> QED BY <1>2, <2>1, <2>2, <2>3, <2>4, <2>5 DEF ClientStep
<1>3. ASSUME NEW k \in Conn, Write(k) PROVE UNCHANGED registryVars
  BY <1>3 DEF Write
<1>4. ASSUME NEW t \in Token, AgentEvent(t) \/ Translate(t) \/ TaskStep(t)
      PROVE  RegistryNext \/ UNCHANGED registryVars
  BY <1>4, TaskUsesRegistry DEF RegistryNext
<1>5. CASE Shutdown
  BY <1>5 DEF Shutdown
<1>6. CASE UNCHANGED vars
  BY <1>6 DEF vars
<1> QED BY <1>1, <1>2, <1>3, <1>4, <1>5, <1>6 DEF Next

\* The registry's own steps keep its map and its counter well typed.
LEMMA RegistryTypes ==
  ASSUME ReaderInv, [RegistryNext]_registryVars
  PROVE  next_token' \in 0 .. MaxTurns /\ turns' \in [Conv -> Token \cup {None}]
<1> USE ConstantsAssumption, ConnectionAssumption, TokenFacts
<1>1. ASSUME NEW c \in Conv, TryReserve(c) \/ CancelConversation(c)
      PROVE  next_token' \in 0 .. MaxTurns /\ turns' \in [Conv -> Token \cup {None}]
  BY <1>1 DEF TryReserve, CancelConversation, ReaderInv
<1>2. ASSUME NEW t \in Token, RegistryStep(t) \/ LocalCancel(t) \/ EndTurn(t)
      PROVE  next_token' \in 0 .. MaxTurns /\ turns' \in [Conv -> Token \cup {None}]
  BY <1>2 DEF RegistryStep, DropClaim, SpawnTurn, SetAbort, LocalAbort,
              LocalRelease, RaiseFlag, AbortRemoved, LocalCancel, EndTurn, Released, ReaderInv
<1>3. CASE UNCHANGED registryVars
  BY <1>3 DEF registryVars, ReaderInv
<1> QED BY <1>1, <1>2, <1>3 DEF RegistryNext

\* Every step keeps what the reader is bounded by.
LEMMA StepReaderInv == ReaderInv /\ [Next]_vars => ReaderInv'
<1> SUFFICES ASSUME ReaderInv, [Next]_vars PROVE ReaderInv'
  OBVIOUS
<1>0. next_token' \in 0 .. MaxTurns /\ turns' \in [Conv -> Token \cup {None}]
  BY StepUsesRegistry, RegistryTypes
<1> DEFINE Readers ==
      /\ current \in [Conn -> Token \cup {None}]
      /\ reader \in [Conn -> [at : ReaderAt, turn : Token \cup {None}]]
      /\ \A k \in Conn : reader[k].at \in Handling => reader[k].turn \in Token
<1> USE ConstantsAssumption, ConnectionAssumption, TokenFacts
<1>1. ASSUME NEW k \in Conn, ReaderStep(k) PROVE Readers'
  <2>a. ASSUME NEW p \in ReaderAt, NEW t \in Token \cup {None}, Goto(k, p, t),
               p \in Handling => t \in Token, current' \in [Conn -> Token \cup {None}]
        PROVE  Readers'
    BY <2>a DEF Goto, ReaderInv
  <2>1. CASE RefuseTurn(k) \/ CancelArm(k) \/ Notify(k) \/ StopReader(k) \/ WriterExit(k)
    <3>1. \E p \in {"idle", "draining", "drained"} : Goto(k, p, None)
      BY <2>1 DEF RefuseTurn, CancelArm, Notify, StopReader, WriterExit
    <3>2. current' \in [Conn -> Token \cup {None}]
      BY <2>1 DEF RefuseTurn, CancelArm, Notify, StopReader, WriterExit, ReaderInv
    <3> QED BY <2>a, <3>1, <3>2 DEF ReaderAt, Handling
  <2>2. CASE Acknowledge(k) \/ Spawn(k) \/ CancelAbort(k) \/ CancelRelease(k) \/ CancelQueue(k)
               \/ SessionFlag(k) \/ SessionAbort(k)
    <3>1. \E p \in Handling : Goto(k, p, reader[k].turn)
      BY <2>2 DEF Acknowledge, Spawn, CancelAbort, CancelRelease, CancelQueue, SessionFlag,
                  SessionAbort, Handling
    <3>2. reader[k].turn \in Token
      BY <2>2 DEF Acknowledge, Spawn, CancelAbort, CancelRelease, CancelQueue, SessionFlag,
                  SessionAbort, At, ReaderInv, Handling
    <3>3. current' \in [Conn -> Token \cup {None}]
      BY <2>2 DEF Acknowledge, Spawn, CancelAbort, CancelRelease, CancelQueue, SessionFlag,
                  SessionAbort, ReaderInv
    <3> QED BY <2>a, <3>1, <3>2, <3>3 DEF ReaderAt, Handling
  <2>3. CASE TrackTurn(k)
    BY <2>3 DEF TrackTurn, At, Goto, ReaderInv, ReaderAt, Handling
  <2> QED BY <1>1, <2>1, <2>2, <2>3 DEF ReaderStep
<1>2. ASSUME NEW k \in Conn, ClientStep(k) PROVE Readers'
  <2>1. CASE CancelOwn(k)
    BY <2>1 DEF CancelOwn, Tracks, Goto, ReaderInv, ReaderAt, Handling
  <2>2. CASE Disconnect(k)
    BY <2>2 DEF Disconnect, Goto, ReaderInv, ReaderAt, Handling
  <2>3. ASSUME NEW v \in Conv, RejectBusy(k, v) PROVE Readers'
    BY <2>3 DEF RejectBusy, Forgotten, ReaderInv
  <2>4. ASSUME NEW v \in Conv, SendMessage(k, v) \/ ConfirmContinuation(k, v) PROVE Readers'
    <3>1. next_token \in Token
      BY <2>4 DEF SendMessage, ConfirmContinuation, ClaimTurn, TryReserve, ReaderInv
    <3>2. ClaimTurn(k, v)
      BY <2>4 DEF SendMessage, ConfirmContinuation
    <3> QED BY <3>1, <3>2 DEF ClaimTurn, Goto, Forgotten, ReaderInv, ReaderAt, Handling
  <2>5. ASSUME NEW v \in Conv, CancelBySession(k, v) PROVE Readers'
    <3>1. turns[v] \in Token
      BY <2>5 DEF CancelBySession, CancelConversation, ReaderInv
    <3> QED BY <2>5, <3>1 DEF CancelBySession, Goto, ReaderInv, ReaderAt, Handling
  <2> QED BY <1>2, <2>1, <2>2, <2>3, <2>4, <2>5 DEF ClientStep
<1>3. ASSUME UNCHANGED connVars PROVE Readers'
  BY <1>3 DEF connVars, ReaderInv
<1>4. ASSUME NEW k \in Conn, Write(k) PROVE UNCHANGED connVars
  BY <1>4 DEF Write
<1>5. ASSUME NEW t \in Token, AgentEvent(t) \/ Translate(t) \/ TaskStep(t)
      PROVE  UNCHANGED connVars
  BY <1>5, TaskKeepsReaders
<1>6. ASSUME Shutdown \/ UNCHANGED vars PROVE UNCHANGED connVars
  BY <1>6 DEF Shutdown, vars
<1>7. Readers'
  BY <1>1, <1>2, <1>3, <1>4, <1>5, <1>6 DEF Next
<1> QED BY <1>0, <1>7 DEF ReaderInv

\* Connections and their tasks use the registry only as it allows.
LEMMA RegistryUsed == Spec => RegistrySpec
<1>1. Init => ReaderInv /\ RegistryInit
  BY InitReaderInv DEF Init
<1>2. ReaderInv /\ [Next]_vars => ReaderInv' /\ [RegistryNext]_registryVars
  BY StepReaderInv, StepUsesRegistry
<1> QED BY <1>1, <1>2, PTL DEF Spec, RegistrySpec

\* So the server as a whole, with its readers, cancels, continuations,
\* disconnects and shutdowns, has exclusive turns, and no entry of the registry
\* outlives its turn.
THEOREM ServerExcludes ==
  Spec => ImplementsExclusion /\ [](OneUncancelledTurn /\ NoLeakedClaim)
<1>1. Spec => RegistrySpec
  BY RegistryUsed
<1>2. RegistrySpec => ImplementsExclusion
  BY Implementation
<1>3. RegistrySpec => [](ClaimHeld /\ NoLeakedClaim)
  BY ClaimSafety
<1>4. RegistrySpec => []OneUncancelledTurn
  BY OneTurnPerConversation
<1> QED BY <1>1, <1>2, <1>3, <1>4, PTL

------------------------------------------------------------------------------
(* What a turn leaves behind.                                               *)

\* An abort is never requested of a turn whose flag is down.
AbortInv ==
  /\ state \in [Token -> TurnState]
  /\ cancelled \in [Token -> BOOLEAN]
  /\ owes \in [Token -> Debt]
  /\ cancelling \in [Token -> Cancelling]
  /\ \A t \in Token : \/ state[t] = "aborting"
                      \/ owes[t] = "abort"
                      \/ cancelling[t] = "flagged"
                      => cancelled[t]

\* Where the turn task has an outcome behind it.
Recorded == {"judging", "returned", "stepWrite", "otpGate", "otpOffer", "otpSend",
             "final", "emit", "errEmit"}

\* The inductive invariant behind OutcomeRecorded.
OutcomeInv ==
  /\ phase \in [Token -> Phase]
  /\ record \in [Token -> {"none", "reply", "empty", "turnError", "lost"}]
  /\ \A t \in Token : phase[t] \in Recorded => record[t] # "none"
  /\ OutcomeRecorded

\* No turn has an outcome yet.
LEMMA InitOutcome == Init => AbortInv /\ OutcomeInv
  BY DEF Init, RegistryInit, AbortInv, OutcomeInv, OutcomeRecorded, Recorded, Phase, Awaiting,
         Token, TurnState, Debt, Cancelling

\* A registry step lowers no flag, and aborts only where the flag is up.
LEMMA AbortsAreFlagged ==
  ASSUME AbortInv, ReaderInv, [RegistryNext]_registryVars
  PROVE  AbortInv' /\ \A t \in Token : cancelled[t] => cancelled'[t]
<1> USE ConstantsAssumption, ConnectionAssumption, TokenFacts DEF TurnState, Debt, Cancelling
<1>1. ASSUME NEW c \in Conv, TryReserve(c)
      PROVE  AbortInv' /\ \A t \in Token : cancelled[t] => cancelled'[t]
  BY <1>1 DEF TryReserve, AbortInv
<1>2. ASSUME NEW c \in Conv, CancelConversation(c)
      PROVE  AbortInv' /\ \A t \in Token : cancelled[t] => cancelled'[t]
  <2>1. turns[c] \in Token
    BY <1>2 DEF CancelConversation, ReaderInv
  <2> QED BY <1>2, <2>1 DEF CancelConversation, AbortInv
<1>3. ASSUME NEW u \in Token, DropClaim(u) \/ EndTurn(u)
      PROVE  AbortInv' /\ \A t \in Token : cancelled[t] => cancelled'[t]
  BY <1>3 DEF DropClaim, EndTurn, AbortInv
<1>4. ASSUME NEW u \in Token, SpawnTurn(u) \/ SetAbort(u)
      PROVE  AbortInv' /\ \A t \in Token : cancelled[t] => cancelled'[t]
  BY <1>4 DEF SpawnTurn, SetAbort, AbortInv
<1>5. ASSUME NEW u \in Token, LocalCancel(u) \/ LocalAbort(u) \/ LocalRelease(u)
      PROVE  AbortInv' /\ \A t \in Token : cancelled[t] => cancelled'[t]
  BY <1>5 DEF LocalCancel, LocalAbort, LocalRelease, AbortInv
<1>6. ASSUME NEW u \in Token, RaiseFlag(u) \/ AbortRemoved(u)
      PROVE  AbortInv' /\ \A t \in Token : cancelled[t] => cancelled'[t]
  BY <1>6 DEF RaiseFlag, AbortRemoved, AbortInv
<1>7. CASE UNCHANGED registryVars
  BY <1>7 DEF registryVars, AbortInv
<1> QED BY <1>1, <1>2, <1>3, <1>4, <1>5, <1>6, <1>7 DEF RegistryNext, RegistryStep, Token

\* Steps that are not the turn task's leave its phase and its record alone,
\* but for the spawn.
LEMMA OthersKeepOutcome ==
  ASSUME NEW k \in Conn, ReaderStep(k) \/ ClientStep(k) \/ Write(k)
  PROVE  \/ UNCHANGED <<phase, record>>
         \/ phase' = [phase EXCEPT ![reader[k].turn] = "running"] /\ UNCHANGED record
<1>1. CASE ReaderStep(k)
  BY <1>1 DEF ReaderStep, RefuseTurn, Acknowledge, Spawn, TrackTurn, CancelAbort,
              CancelRelease, CancelQueue, CancelArm, SessionFlag, SessionAbort, Notify, StopReader,
              WriterExit, taskVars
<1>2. CASE ClientStep(k) \/ Write(k)
  BY <1>2 DEF ClientStep, CancelOwn, Disconnect, RejectBusy, SendMessage, ConfirmContinuation,
              ClaimTurn, CancelBySession, Write, taskVars
<1> QED BY <1>1, <1>2

\* Every step keeps what is known of the outcomes.
LEMMA StepOutcome ==
  ReaderInv /\ AbortInv /\ OutcomeInv /\ [Next]_vars => AbortInv' /\ OutcomeInv'
<1> SUFFICES ASSUME ReaderInv, AbortInv, OutcomeInv, [Next]_vars
             PROVE  AbortInv' /\ OutcomeInv'
  OBVIOUS
<1>0. AbortInv' /\ \A t \in Token : cancelled[t] => cancelled'[t]
  BY StepUsesRegistry, AbortsAreFlagged
<1> USE DEF Recorded, Phase, Awaiting
<1>1. ASSUME UNCHANGED <<phase, record>> PROVE OutcomeInv'
  BY <1>0, <1>1 DEF OutcomeInv, OutcomeRecorded, AbortInv
<1>2. ASSUME NEW k \in Conn, ReaderStep(k) \/ ClientStep(k) \/ Write(k) PROVE OutcomeInv'
  <2>1. CASE phase' = [phase EXCEPT ![reader[k].turn] = "running"] /\ UNCHANGED record
    BY <1>0, <2>1 DEF OutcomeInv, OutcomeRecorded, AbortInv
  <2> QED BY <1>1, <1>2, <2>1, OthersKeepOutcome
<1>3. ASSUME NEW t \in Token, AgentEvent(t) \/ Translate(t) PROVE OutcomeInv'
  BY <1>1, <1>3 DEF AgentEvent, Translate
<1>4. ASSUME NEW t \in Token, NEW p \in Phase \ {"done"}, NEW q \in Phase,
             phase[t] = q, phase' = [phase EXCEPT ![t] = p], UNCHANGED record,
             q \in Recorded \/ p \notin Recorded
      PROVE  OutcomeInv'
  BY <1>0, <1>4 DEF OutcomeInv, OutcomeRecorded, AbortInv
<1>5. ASSUME NEW t \in Token, JudgeDone(t) \/ TurnFails(t) \/ StepWritten(t)
                                \/ OfferOtp(t) \/ OtpDelivered(t)
      PROVE  OutcomeInv'
  BY <1>4, <1>5 DEF JudgeDone, TurnFails, StepWritten, OfferOtp, OtpDelivered, Advance
<1>6. ASSUME NEW t \in Token, EnterTail(t) \/ OtpGate(t) \/ FinalCheck(t) \/ EnterErrorTail(t)
      PROVE  OutcomeInv'
  BY <1>4, <1>6 DEF EnterTail, OtpGate, FinalCheck, EnterErrorTail, Advance
<1>7. ASSUME NEW t \in Token, PersistReply(t) \/ PersistTurnError(t) PROVE OutcomeInv'
  <2>1. PICK p \in {"judging", "returned", "errEmit"}, r \in {"reply", "empty", "turnError", "lost"} :
          phase' = [phase EXCEPT ![t] = p] /\ record' = [record EXCEPT ![t] = r]
    BY <1>7 DEF PersistReply, PersistTurnError, Advance
  <2> QED BY <1>0, <2>1 DEF OutcomeInv, OutcomeRecorded, AbortInv
<1>8. ASSUME NEW t \in Token, EmitResponse(t) \/ EmitError(t) \/ QuietReturn(t) \/ DropAborted(t)
      PROVE  OutcomeInv'
  <2>1. phase' = [phase EXCEPT ![t] = "done"] /\ UNCHANGED record
    BY <1>8 DEF EmitResponse, EmitError, QuietReturn, DropAborted, End
  <2>2. cancelled[t] \/ record[t] # "none"
    BY <1>8 DEF EmitResponse, EmitError, QuietReturn, DropAborted, OutcomeInv, AbortInv
  <2> QED BY <1>0, <2>1, <2>2 DEF OutcomeInv, OutcomeRecorded, AbortInv
<1>9. ASSUME Shutdown \/ UNCHANGED vars PROVE OutcomeInv'
  BY <1>1, <1>9 DEF Shutdown, vars, taskVars
<1> QED BY <1>0, <1>2, <1>3, <1>5, <1>6, <1>7, <1>8, <1>9 DEF Next, TaskStep

\* A turn that ran and was not cancelled leaves its outcome in the
\* conversation, connected or not: a disconnect never stops it.
THEOREM DetachedTurnsFinish == Spec => []OutcomeRecorded
<1>1. Init => ReaderInv /\ AbortInv /\ OutcomeInv
  BY InitReaderInv, InitOutcome
<1>2. ReaderInv /\ AbortInv /\ OutcomeInv /\ [Next]_vars
        => (ReaderInv /\ AbortInv /\ OutcomeInv)'
  BY StepReaderInv, StepOutcome
<1>3. OutcomeInv => OutcomeRecorded
  BY DEF OutcomeInv
<1> QED BY <1>1, <1>2, <1>3, PTL DEF Spec

------------------------------------------------------------------------------
(* What travels to a client.                                                *)

FramesOf(q) == {q[i] : i \in DOMAIN q}
Frames(k) == FramesOf(queue[k])

\* A frame of the turn was told, or is on its way, on whichever connection.
Carried(t, kind) ==
  \/ kind \in got[t]
  \/ \E k \in Conn : \E f \in Frames(k) : f.turn = t /\ f.kind = kind

WireInv ==
  /\ conn \in [Token -> Conn \cup {None}]
  /\ slot \in [Conn -> Token \cup {None}]
  /\ queue \in [Conn -> Seq(Frame)]
  /\ got \in [Token -> SUBSET Kind]
  /\ raisedIn \in [Token -> Stage \cup {None}]

\* What a token that is handed out has, and one that is not has not.
HandedInv ==
  /\ \A t \in Token : /\ state[t] = "free" <=> t >= next_token
                      /\ conn[t] \in Conn <=> t < next_token
                      /\ t >= next_token => ~cancelled[t]
                      /\ state[t] \in {"free", "claimed"} => phase[t] = "none"
  /\ \A v \in Conv : turns[v] # None => turns[v] < next_token
  /\ \A k \in Conn, t \in Token :
       /\ current[k] = t => conn[t] = k
       /\ slot[k] = t => conn[t] = k
       /\ reader[k].turn = t /\ reader[k].at \in Handling \ SessionCancel => conn[t] = k
       /\ reader[k].turn = t /\ reader[k].at \in SessionCancel => t < next_token

\* The inductive invariant behind CancelSilencesTail: the tail's frames exist
\* only once the task is past the look that leads to them, and a raised flag
\* stops it at the next look.
Past(stage) ==
  CASE stage = "beforeTail" -> {"none", "running", "judging", "returned", "failed", "done"}
    [] stage = "beforeOtp" -> {"stepWrite", "otpGate", "final", "done"}
    [] stage = "beforeFinal" -> {"otpOffer", "otpSend", "final", "done"}
    [] OTHER -> Phase
Silenced(stage) ==
  CASE stage = "beforeTail" -> {"otp", "final", "failure"}
    [] stage = "beforeOtp" -> {"otp", "final"}
    [] stage = "beforeFinal" -> {"final"}
    [] OTHER -> {}
TailInv ==
  \A t \in Token :
    /\ Carried(t, "otp") => phase[t] \in {"otpSend", "final", "emit", "done"}
    /\ Carried(t, "final") \/ Carried(t, "failure") => phase[t] = "done"
    /\ raisedIn[t] # None => /\ cancelled[t] /\ phase[t] \in Past(raisedIn[t])
                             /\ \A kind \in Silenced(raisedIn[t]) : ~Carried(t, kind)

\* The inductive invariant behind DrainCompletes.  A client is told, or its
\* queue holds the frame, or a reader is about to send `cancelled`.
Told(t, kinds) ==
  \/ \E kind \in got[t] : kind \in kinds
  \/ \E f \in Frames(conn[t]) : f.turn = t /\ f.kind \in kinds
Waits(t) ==
  \/ reader[conn[t]].at \in {"flagged", "aborted", "released"} /\ reader[conn[t]].turn = t
  \/ \E j \in Conn : reader[j].at \in SessionCancel /\ reader[j].turn = t
Noticed(t) == cancelled[t] => Told(t, {"cancelled"}) \/ Waits(t)
Answered(t) == state[t] = "ended" => Told(t, Terminal) \/ Waits(t)
AnswerInv ==
  /\ \A t \in Token : conn[t] \in Conn /\ Open(conn[t]) => Noticed(t) /\ Answered(t)
  /\ \A k \in Conn, t \in Token :
       /\ Open(k) /\ slot[k] = t => Told(t, {"cancelled"})
       /\ reader[k].at = "queued" /\ reader[k].turn = t => Told(t, {"cancelled"})
  /\ DrainCompletes

\* One frame more at the end of a queue.
LEMMA FrameAppended ==
  ASSUME NEW q \in Seq(Frame), NEW f \in Frame
  PROVE  Append(q, f) \in Seq(Frame) /\ FramesOf(Append(q, f)) = FramesOf(q) \cup {f}
<1> DEFINE t == Append(q, f)
<1>1. /\ t \in Seq(Frame) /\ Len(q) \in Nat /\ Len(t) = Len(q) + 1 /\ t[Len(q) + 1] = f
      /\ \A i \in 1 .. Len(q) : t[i] = q[i]
      /\ DOMAIN t = 1 .. Len(t) /\ DOMAIN q = 1 .. Len(q)
  OBVIOUS
<1> HIDE DEF t
<1>2. \A i \in DOMAIN t : t[i] = f \/ t[i] \in {q[j] : j \in DOMAIN q}
  BY <1>1
<1>3. f \in {t[i] : i \in DOMAIN t}
  BY <1>1
<1>4. \A i \in DOMAIN q : q[i] \in {t[j] : j \in DOMAIN t}
  BY <1>1
<1>5. {t[i] : i \in DOMAIN t} = {q[i] : i \in DOMAIN q} \cup {f}
  BY <1>2, <1>3, <1>4
<1> QED BY <1>1, <1>5 DEF t, FramesOf

\* The writer takes the first frame of a queue.
LEMMA FrameTaken ==
  ASSUME NEW q \in Seq(Frame), q # <<>>
  PROVE  /\ Tail(q) \in Seq(Frame) /\ Head(q) \in Frame
         /\ FramesOf(q) = FramesOf(Tail(q)) \cup {Head(q)}
<1> DEFINE t == Tail(q)
           h == Head(q)
<1>1. /\ t \in Seq(Frame) /\ h \in Frame /\ Len(q) \in Nat /\ Len(q) > 0
      /\ Len(t) = Len(q) - 1 /\ h = q[1]
      /\ \A i \in 1 .. Len(q) - 1 : t[i] = q[i + 1]
      /\ DOMAIN t = 1 .. Len(t) /\ DOMAIN q = 1 .. Len(q)
  BY EmptySeq, HeadTailProperties
<1> HIDE DEF t, h
<1>2. \A i \in DOMAIN q : q[i] = h \/ q[i] \in {t[j] : j \in DOMAIN t}
  <2> SUFFICES ASSUME NEW i \in DOMAIN q, i # 1 PROVE q[i] \in {t[j] : j \in DOMAIN t}
    BY <1>1
  <2>1. i - 1 \in DOMAIN t /\ t[i - 1] = q[i]
    BY <1>1
  <2> QED BY <2>1
<1>3. h \in {q[i] : i \in DOMAIN q}
  BY <1>1
<1>4. \A i \in DOMAIN t : t[i] \in {q[j] : j \in DOMAIN q}
  <2> SUFFICES ASSUME NEW i \in DOMAIN t PROVE t[i] \in {q[j] : j \in DOMAIN q}
    OBVIOUS
  <2>1. i + 1 \in DOMAIN q /\ t[i] = q[i + 1]
    BY <1>1
  <2> QED BY <2>1
<1>5. {q[i] : i \in DOMAIN q} = {t[i] : i \in DOMAIN t} \cup {h}
  BY <1>2, <1>3, <1>4
<1> QED BY <1>1, <1>5 DEF t, h, FramesOf

\* What a send leaves in the queues.
SentTo(k, f) ==
  /\ queue' \in [Conn -> Seq(Frame)]
  /\ \A j \in Conn : /\ Frames(j) \subseteq Frames(j)'
                     /\ \A g \in Frames(j)' : g \in Frames(j) \/ (j = k /\ g = f)
  /\ k \in Conn /\ Open(k) => f \in Frames(k)'

\* A send adds its frame to the one queue, if its receiver is still there.
LEMMA SendAdds ==
  ASSUME WireInv, NEW k, NEW kind \in Kind, NEW t \in Token \cup {None},
         queue' = Sent(k, kind, t)
  PROVE  SentTo(k, [kind |-> kind, turn |-> t])
<1> DEFINE f == [kind |-> kind, turn |-> t]
<1>1. f \in Frame
  BY DEF Frame
<1>2. queue' = IF Open(k) THEN [queue EXCEPT ![k] = Append(@, f)] ELSE queue
  BY DEF Sent
<1> HIDE DEF f
<1>3. queue \in [Conn -> Seq(Frame)]
  BY DEF WireInv
<1>4. \A j \in Conn : /\ Append(queue[j], f) \in Seq(Frame)
                      /\ FramesOf(Append(queue[j], f)) = Frames(j) \cup {f}
  BY <1>1, <1>3, FrameAppended DEF Frames
<1>5. CASE Open(k)
  <2>1. queue' = [queue EXCEPT ![k] = Append(queue[k], f)]
    BY <1>2, <1>5
  <2>2. \A j \in Conn : queue'[j] = IF j = k THEN Append(queue[j], f) ELSE queue[j]
    BY <1>3, <2>1
  <2>3. queue' \in [Conn -> Seq(Frame)]
    BY <1>3, <1>4, <2>1
  <2> QED BY <1>4, <2>2, <2>3 DEF SentTo, Frames, f
<1>6. CASE ~Open(k)
  BY <1>2, <1>3, <1>6 DEF SentTo, Frames
<1> QED BY <1>5, <1>6

\* What a send carries.
LEMMA SendCarries ==
  ASSUME NEW k, NEW kind, NEW t, SentTo(k, [kind |-> kind, turn |-> t]), UNCHANGED got
  PROVE  \A u \in Token, x \in Kind : Carried(u, x)' => Carried(u, x) \/ (u = t /\ x = kind)
<1>1. PICK f : f = [kind |-> kind, turn |-> t]
  OBVIOUS
<1>2. f.kind = kind /\ f.turn = t
  BY <1>1
<1>3. \A j \in Conn : \A g \in Frames(j)' : g \in Frames(j) \/ g = f
  BY <1>1 DEF SentTo
<1> QED BY <1>2, <1>3 DEF Carried

\* The writer: the frame leaves the queue, and is told unless it is gated or of
\* another connection's turn.
LEMMA WriteEffect ==
  ASSUME WireInv, NEW k \in Conn, Write(k)
  PROVE  /\ queue' \in [Conn -> Seq(Frame)] /\ got' \in [Token -> SUBSET Kind]
         /\ \A j \in Conn : j # k => Frames(j)' = Frames(j)
         /\ \E f \in Frame :
              /\ Frames(k) = Frames(k)' \cup {f}
              /\ \A u \in Token :
                   got'[u] = IF /\ f.kind = "cancelled" \/ slot[k] # u
                                /\ f.turn = u /\ conn[u] = k
                                /\ f.kind \notin {"ack", "stream"}
                             THEN got[u] \cup {f.kind} ELSE got[u]
<1>1. PICK f : f = Head(queue[k])
  OBVIOUS
<1>2. queue \in [Conn -> Seq(Frame)] /\ queue[k] \in Seq(Frame) /\ queue[k] # <<>>
  BY DEF WireInv, Write
<1>3. PICK q \in Seq(Frame) : q = queue[k]
  BY <1>2
<1>4. Tail(q) \in Seq(Frame) /\ f \in Frame /\ FramesOf(q) = FramesOf(Tail(q)) \cup {f}
  BY <1>1, <1>2, <1>3, FrameTaken
<1>5. queue' = [queue EXCEPT ![k] = Tail(q)]
  BY <1>3 DEF Write
<1>6. queue' \in [Conn -> Seq(Frame)] /\ \A j \in Conn : j # k => Frames(j)' = Frames(j)
  BY <1>2, <1>4, <1>5 DEF Frames
<1>7. Frames(k) = Frames(k)' \cup {f}
  BY <1>2, <1>3, <1>4, <1>5 DEF Frames
<1>8. f.kind \in Kind /\ f.turn \in Token \cup {None}
  BY <1>4 DEF Frame
<1> DEFINE seen == /\ ~(f.kind # "cancelled" /\ f.turn # None /\ slot[k] = f.turn)
                   /\ f.turn # None /\ conn[f.turn] = k
<1>9. got' = IF seen /\ f.kind \notin {"ack", "stream"}
             THEN [got EXCEPT ![f.turn] = got[f.turn] \cup {f.kind}] ELSE got
  BY <1>1 DEF Write
<1>10. got \in [Token -> SUBSET Kind] /\ None \notin Token
  BY TokenFacts DEF WireInv
<1>11. \A u \in Token :
         got'[u] = IF /\ f.kind = "cancelled" \/ slot[k] # u
                      /\ f.turn = u /\ conn[u] = k
                      /\ f.kind \notin {"ack", "stream"}
                   THEN got[u] \cup {f.kind} ELSE got[u]
  <2>1. CASE seen /\ f.kind \notin {"ack", "stream"}
    BY <1>8, <1>9, <1>10, <2>1
  <2>2. CASE ~(seen /\ f.kind \notin {"ack", "stream"})
    BY <1>8, <1>9, <1>10, <2>2
  <2> QED BY <2>1, <2>2
<1>12. got' \in [Token -> SUBSET Kind]
  <2>1. CASE seen /\ f.kind \notin {"ack", "stream"}
    <3>1. f.turn \in Token /\ got[f.turn] \cup {f.kind} \in SUBSET Kind
      BY <1>8, <1>10, <2>1
    <3> QED BY <1>9, <1>10, <2>1, <3>1
  <2>2. CASE ~(seen /\ f.kind \notin {"ack", "stream"})
    BY <1>9, <1>10, <2>2
  <2> QED BY <2>1, <2>2
<1> QED BY <1>4, <1>6, <1>7, <1>11, <1>12

\* `cancelled` goes to the turn's connection and to the one that asked.
LEMMA NotifyEffect ==
  ASSUME ReaderInv, WireInv, NEW k \in Conn, Notify(k)
  PROVE  /\ queue' \in [Conn -> Seq(Frame)]
         /\ \A j \in Conn : /\ Frames(j) \subseteq Frames(j)'
                            /\ \A g \in Frames(j)' : g \in Frames(j) \/ g.kind = "cancelled"
         /\ \A t \in Token : reader[k].turn = t /\ conn[t] \in Conn /\ Open(conn[t])
              => \E f \in Frames(conn[t])' : f.turn = t /\ f.kind = "cancelled"
<1>1. PICK t : t = reader[k].turn
  OBVIOUS
<1>2. t \in Token
  BY <1>1 DEF Notify, At, ReaderInv, Handling
<1> DEFINE f == [kind |-> "cancelled", turn |-> t]
<1>3. f \in Frame /\ f.kind = "cancelled" /\ f.turn = t
  BY <1>2 DEF Frame, Kind
<1>4. queue' = [j \in Conn |-> IF j \in {k, conn[t]} /\ Open(j)
                               THEN Append(queue[j], f) ELSE queue[j]]
  BY <1>1 DEF Notify
<1> HIDE DEF f
<1>5. queue \in [Conn -> Seq(Frame)]
  BY DEF WireInv
<1>6. \A j \in Conn : /\ Append(queue[j], f) \in Seq(Frame)
                      /\ FramesOf(Append(queue[j], f)) = Frames(j) \cup {f}
  BY <1>3, <1>5, FrameAppended DEF Frames
<1>7. queue' \in [Conn -> Seq(Frame)]
  BY <1>4, <1>5, <1>6
<1>8. \A j \in Conn : Frames(j)' = IF j \in {k, conn[t]} /\ Open(j)
                                   THEN Frames(j) \cup {f} ELSE Frames(j)
  BY <1>4, <1>6 DEF Frames
<1>9. conn[t] \in Conn /\ Open(conn[t]) => f \in Frames(conn[t])'
  <2>1. PICK j : j = conn[t]
    OBVIOUS
  <2>2. conn' = conn
    BY DEF Notify
  <2>3. Frames(conn[t])' = Frames(j)'
    BY <2>1, <2>2 DEF Frames
  <2> QED BY <1>8, <2>1, <2>3
<1> QED BY <1>1, <1>3, <1>7, <1>8, <1>9

\* A disconnect empties the queue of the connection that goes away.
LEMMA DisconnectEffect ==
  ASSUME WireInv, NEW k \in Conn, Disconnect(k)
  PROVE  /\ queue' \in [Conn -> Seq(Frame)] /\ \A j \in Conn : Frames(j)' \subseteq Frames(j)
         /\ \A j \in Conn : j # k => Frames(j)' = Frames(j)
<1>1. queue \in [Conn -> Seq(Frame)] /\ queue' = [queue EXCEPT ![k] = <<>>] /\ <<>> \in Seq(Frame)
  BY DEF WireInv, Disconnect
<1>2. FramesOf(<<>>) = {}
  BY DEF FramesOf
<1> QED BY <1>1, <1>2 DEF Frames

\* A turn's own sends leave the rest of the wire alone.
LEMMA TaskSends ==
  ASSUME WireInv, NEW t \in Token, AgentEvent(t) \/ Translate(t) \/ TaskStep(t)
  PROVE  /\ UNCHANGED <<connVars, got, late, stopping, raisedIn>>
         /\ \/ UNCHANGED queue
            \/ \E kind \in {"stream", "otp", "final", "failure"} :
                 SentTo(conn[t], [kind |-> kind, turn |-> t])
<1> USE DEF connVars, clientVars, Kind
<1>1. UNCHANGED <<connVars, got, late, stopping, raisedIn>>
  <2>1. CASE AgentEvent(t) \/ Translate(t)
    BY <2>1 DEF AgentEvent, Translate
  <2>2. CASE TaskStep(t)
    BY <2>2 DEF TaskStep, PersistReply, JudgeDone, TurnFails, EnterTail, StepWritten, OtpGate,
              OfferOtp, OtpDelivered, FinalCheck, EmitResponse, EnterErrorTail,
              PersistTurnError, EmitError, QuietReturn, DropAborted, Advance, End
  <2> QED BY <2>1, <2>2
<1>2. \/ UNCHANGED queue
      \/ \E kind \in {"stream", "otp", "final", "failure"} : queue' = Sent(conn[t], kind, t)
  BY DEF AgentEvent, Translate, Emitted,
         TaskStep, PersistReply, JudgeDone, TurnFails, EnterTail, StepWritten, OtpGate,
         OfferOtp, OtpDelivered, FinalCheck, EmitResponse, EnterErrorTail,
         PersistTurnError, EmitError, QuietReturn, DropAborted
<1>3. PICK j : j = conn[t]
  OBVIOUS
<1>4. \A kind \in {"stream", "otp", "final", "failure"} :
        queue' = Sent(j, kind, t) => SentTo(j, [kind |-> kind, turn |-> t])
  BY SendAdds
<1> QED BY <1>1, <1>2, <1>3, <1>4

\* The sends of a reader's handlers.
LEMMA ReaderSends ==
  ASSUME ReaderInv, WireInv, NEW k \in Conn,
         \/ RefuseTurn(k) \/ Acknowledge(k) \/ CancelQueue(k) \/ \E v \in Conv : RejectBusy(k, v)
  PROVE  \E kind \in {"ack", "refused", "cancelled"}, t \in Token \cup {None} :
           SentTo(k, [kind |-> kind, turn |-> t])
<1>1. reader[k].turn \in Token \cup {None}
  BY DEF ReaderInv
<1>2. \E kind \in {"ack", "refused", "cancelled"}, t \in Token \cup {None} :
        queue' = Sent(k, kind, t)
  BY <1>1 DEF RefuseTurn, Acknowledge, CancelQueue, RejectBusy
<1> QED BY <1>2, SendAdds DEF Kind

\* The queues stay queues of frames.
LEMMA QueueTypes ==
  ASSUME ReaderInv, WireInv, [Next]_vars
  PROVE  queue' \in [Conn -> Seq(Frame)] /\ got' \in [Token -> SUBSET Kind]
<1>0. queue \in [Conn -> Seq(Frame)] /\ got \in [Token -> SUBSET Kind]
  BY DEF WireInv
<1>1. CASE UNCHANGED <<queue, got>>
  BY <1>0, <1>1
<1>2. ASSUME NEW k \in Conn, Write(k)
      PROVE  queue' \in [Conn -> Seq(Frame)] /\ got' \in [Token -> SUBSET Kind]
  BY <1>2, WriteEffect
<1>3. ASSUME NEW k \in Conn, ReaderStep(k)
      PROVE  queue' \in [Conn -> Seq(Frame)] /\ got' \in [Token -> SUBSET Kind]
  <2>1. CASE RefuseTurn(k) \/ Acknowledge(k) \/ CancelQueue(k)
    <3>1. UNCHANGED got
      BY <2>1 DEF RefuseTurn, Acknowledge, CancelQueue, clientVars
    <3> QED BY <1>0, <2>1, <3>1, ReaderSends DEF SentTo
  <2>2. CASE Notify(k)
    BY <1>0, <2>2, NotifyEffect DEF Notify, clientVars
  <2>3. CASE Spawn(k) \/ TrackTurn(k) \/ CancelAbort(k) \/ CancelRelease(k) \/ CancelArm(k)
               \/ SessionFlag(k) \/ SessionAbort(k) \/ StopReader(k) \/ WriterExit(k)
    BY <1>0, <2>3 DEF Spawn, TrackTurn, CancelAbort, CancelRelease, CancelArm, SessionFlag,
                      SessionAbort, StopReader, WriterExit, clientVars
  <2> QED BY <1>3, <2>1, <2>2, <2>3 DEF ReaderStep
<1>4. ASSUME NEW k \in Conn, ClientStep(k)
      PROVE  queue' \in [Conn -> Seq(Frame)] /\ got' \in [Token -> SUBSET Kind]
  <2>1. CASE \E v \in Conv : RejectBusy(k, v)
    <3>1. UNCHANGED got
      BY <2>1 DEF RejectBusy, clientVars
    <3> QED BY <1>0, <2>1, <3>1, ReaderSends DEF SentTo
  <2>2. CASE Disconnect(k)
    BY <1>0, <2>2, DisconnectEffect DEF Disconnect, clientVars
  <2>3. CASE CancelOwn(k) \/ \E v \in Conv : \/ SendMessage(k, v) \/ ConfirmContinuation(k, v)
                                             \/ CancelBySession(k, v)
    BY <1>0, <2>3 DEF CancelOwn, SendMessage, ConfirmContinuation, ClaimTurn, CancelBySession,
                      clientVars
  <2> QED BY <1>4, <2>1, <2>2, <2>3 DEF ClientStep
<1>5. ASSUME NEW t \in Token, AgentEvent(t) \/ Translate(t) \/ TaskStep(t)
      PROVE  queue' \in [Conn -> Seq(Frame)] /\ got' \in [Token -> SUBSET Kind]
  BY <1>0, <1>5, TaskSends DEF SentTo
<1>6. CASE Shutdown \/ UNCHANGED vars
  BY <1>1, <1>6 DEF Shutdown, vars, clientVars
<1> QED BY <1>2, <1>3, <1>4, <1>5, <1>6 DEF Next

\* Every step keeps the wire well typed.
LEMMA StepWire ==
  ASSUME ReaderInv, OutcomeInv, WireInv, [Next]_vars PROVE WireInv'
<1>0. queue' \in [Conn -> Seq(Frame)] /\ got' \in [Token -> SUBSET Kind]
  BY QueueTypes
<1> DEFINE Rest == /\ conn \in [Token -> Conn \cup {None}]
                   /\ slot \in [Conn -> Token \cup {None}]
                   /\ raisedIn \in [Token -> Stage \cup {None}]
<1>1. ASSUME UNCHANGED <<conn, slot, raisedIn>> PROVE Rest'
  BY <1>1 DEF WireInv
<1>2. ASSUME NEW t \in Token, Raise(t) PROVE raisedIn' \in [Token -> Stage \cup {None}]
  <2>1. StageOf(phase[t]) \in Stage
    BY DEF OutcomeInv, Stage
  <2> QED BY <1>2, <2>1 DEF Raise, WireInv
<1>3. ASSUME NEW k \in Conn, ReaderStep(k) PROVE Rest'
  <2>1. CASE TrackTurn(k)
    BY <2>1 DEF TrackTurn, WireInv
  <2>2. CASE CancelArm(k)
    BY <2>2 DEF CancelArm, WireInv, ReaderInv
  <2>3. CASE SessionFlag(k)
    <3>1. reader[k].turn \in Token
      BY <2>3 DEF SessionFlag, At, ReaderInv, Handling
    <3> QED BY <1>2, <2>3, <3>1 DEF SessionFlag, WireInv
  <2>4. CASE ~TrackTurn(k) /\ ~CancelArm(k) /\ ~SessionFlag(k)
    BY <1>1, <1>3, <2>4 DEF ReaderStep, RefuseTurn, Acknowledge, Spawn, CancelAbort,
         CancelRelease, CancelQueue, SessionAbort, Notify, StopReader, WriterExit
  <2> QED BY <2>1, <2>2, <2>3, <2>4
<1>4. ASSUME NEW k \in Conn, ClientStep(k) PROVE Rest'
  <2>1. CASE CancelOwn(k)
    <3>1. current[k] \in Token
      BY <2>1 DEF CancelOwn, Tracks, ReaderInv
    <3> QED BY <1>2, <2>1, <3>1 DEF CancelOwn, WireInv
  <2>3. ASSUME NEW v \in Conv, SendMessage(k, v) \/ ConfirmContinuation(k, v) PROVE Rest'
    BY <2>3 DEF SendMessage, ConfirmContinuation, ClaimTurn, WireInv
  <2>4. CASE Disconnect(k) \/ \E v \in Conv : RejectBusy(k, v) \/ CancelBySession(k, v)
    BY <1>1, <2>4 DEF Disconnect, RejectBusy, CancelBySession
  <2> QED BY <1>4, <2>1, <2>3, <2>4 DEF ClientStep
<1>5. ASSUME NEW k \in Conn, Write(k) PROVE Rest'
  BY <1>1, <1>5 DEF Write, connVars
<1>6. ASSUME NEW t \in Token, AgentEvent(t) \/ Translate(t) \/ TaskStep(t) PROVE Rest'
  BY <1>1, <1>6, TaskSends DEF connVars
<1>7. ASSUME Shutdown \/ UNCHANGED vars PROVE Rest'
  <2>1. UNCHANGED <<conn, slot, raisedIn>>
    BY <1>7 DEF Shutdown, vars, connVars
  <2> QED BY <1>1, <2>1
<1> HIDE DEF Rest
<1>8. Rest'
  BY <1>3, <1>4, <1>5, <1>6, <1>7 DEF Next
<1> QED BY <1>0, <1>8 DEF WireInv, Rest

------------------------------------------------------------------------------
(* A cancel silences the tail.                                              *)

TailKind == {"otp", "final", "failure"}

\* Only the turn task itself sends what belongs to its tail.
LEMMA OnlyTailsCarry ==
  ASSUME ReaderInv, WireInv, NEW k \in Conn, ReaderStep(k) \/ ClientStep(k) \/ Write(k)
  PROVE  \A u \in Token, x \in TailKind : Carried(u, x)' => Carried(u, x)
<1>0. TailKind \subseteq Kind
  BY DEF TailKind, Kind
<1>1. CASE UNCHANGED <<queue, got>>
  BY <1>1 DEF Carried, Frames
<1>2. CASE Write(k)
  <2>1. \A j \in Conn : j # k => Frames(j)' = Frames(j)
    BY <1>2, WriteEffect
  <2>2. PICK f \in Frame :
          /\ Frames(k) = Frames(k)' \cup {f}
          /\ \A u \in Token :
               got'[u] = IF /\ f.kind = "cancelled" \/ slot[k] # u
                            /\ f.turn = u /\ conn[u] = k
                            /\ f.kind \notin {"ack", "stream"}
                         THEN got[u] \cup {f.kind} ELSE got[u]
    BY <1>2, WriteEffect
  <2>3. \A j \in Conn : Frames(j)' \subseteq Frames(j)
    BY <2>1, <2>2
  <2>4. \A u \in Token, x \in TailKind : x \in got'[u] =>
          x \in got[u] \/ (f \in Frames(k) /\ f.turn = u /\ f.kind = x)
    BY <2>2
  <2> QED BY <2>3, <2>4 DEF Carried
<1>3. CASE RefuseTurn(k) \/ Acknowledge(k) \/ CancelQueue(k) \/ \E v \in Conv : RejectBusy(k, v)
  <2>1. UNCHANGED got
    BY <1>3 DEF RefuseTurn, Acknowledge, CancelQueue, RejectBusy, clientVars
  <2>2. PICK kind \in {"ack", "refused", "cancelled"}, t \in Token \cup {None} :
          SentTo(k, [kind |-> kind, turn |-> t])
    BY <1>3, ReaderSends
  <2>3. \A u \in Token, x \in Kind : Carried(u, x)' => Carried(u, x) \/ (u = t /\ x = kind)
    BY <2>1, <2>2, SendCarries
  <2> QED BY <1>0, <2>2, <2>3 DEF TailKind
<1>4. CASE Notify(k)
  <2>1. UNCHANGED got /\ \A j \in Conn : \A g \in Frames(j)' : g \in Frames(j) \/ g.kind = "cancelled"
    BY <1>4, NotifyEffect DEF Notify, clientVars
  <2> QED BY <2>1 DEF Carried, TailKind
<1>5. CASE Disconnect(k)
  <2>1. UNCHANGED got /\ \A j \in Conn : Frames(j)' \subseteq Frames(j)
    BY <1>5, DisconnectEffect DEF Disconnect, clientVars
  <2> QED BY <2>1 DEF Carried
<1>6. CASE \/ Spawn(k) \/ TrackTurn(k) \/ CancelAbort(k) \/ CancelRelease(k) \/ CancelArm(k)
           \/ SessionFlag(k) \/ SessionAbort(k) \/ StopReader(k) \/ WriterExit(k) \/ CancelOwn(k)
           \/ \E v \in Conv : \/ SendMessage(k, v) \/ ConfirmContinuation(k, v)
                              \/ CancelBySession(k, v)
  BY <1>1, <1>6 DEF Spawn, TrackTurn, CancelAbort, CancelRelease, CancelArm, SessionFlag,
     SessionAbort, StopReader, WriterExit, CancelOwn, SendMessage, ConfirmContinuation,
     ClaimTurn, CancelBySession, clientVars
<1> QED BY <1>2, <1>3, <1>4, <1>5, <1>6 DEF ReaderStep, ClientStep

\* What a raised flag records is where the task is, and what lies before it.
LEMMA StageFacts ==
  ASSUME NEW p \in Phase
  PROVE  /\ p \in Past(StageOf(p)) /\ StageOf(p) # None
         /\ p \in {"otpSend", "final", "emit", "done"} => "otp" \notin Silenced(StageOf(p))
         /\ p = "done" => Silenced(StageOf(p)) = {}
         /\ Silenced(StageOf(p)) \subseteq TailKind
<1>1. StageOf(p) # None
  BY StageAssumption DEF Stage
<1>2. CASE p \in {"none", "running", "judging", "returned", "failed"}
  <2>1. StageOf(p) = "beforeTail"
    BY <1>2 DEF StageOf
  <2> QED BY <1>1, <1>2, <2>1 DEF Past, Silenced, TailKind
<1>3. CASE p \in {"stepWrite", "otpGate"}
  <2>1. StageOf(p) = "beforeOtp"
    BY <1>3 DEF StageOf
  <2> QED BY <1>1, <1>3, <2>1 DEF Past, Silenced, TailKind
<1>4. CASE p \in {"otpOffer", "otpSend", "final"}
  <2>1. StageOf(p) = "beforeFinal"
    BY <1>4 DEF StageOf
  <2> QED BY <1>1, <1>4, <2>1 DEF Past, Silenced, TailKind
<1>5. CASE p \in {"emit", "errWrite", "errEmit", "done"}
  <2>1. StageOf(p) = "unchecked"
    BY <1>5 DEF StageOf
  <2> QED BY <1>1, <1>5, <2>1 DEF Past, Silenced, TailKind
<1> QED BY <1>2, <1>3, <1>4, <1>5 DEF Phase, Awaiting

\* What each stage lets through.
LEMMA StagePaths ==
  ASSUME NEW g
  PROVE  /\ g = "beforeTail" \/ g = "beforeOtp" \/ g = "beforeFinal"
              \/ (Past(g) = Phase /\ Silenced(g) = {})
         /\ Past("beforeTail") = {"none", "running", "judging", "returned", "failed", "done"}
         /\ Past("beforeOtp") = {"stepWrite", "otpGate", "final", "done"}
         /\ Past("beforeFinal") = {"otpOffer", "otpSend", "final", "done"}
         /\ Silenced("beforeTail") = TailKind
         /\ Silenced("beforeOtp") = {"otp", "final"}
         /\ Silenced("beforeFinal") = {"final"}
BY DEF Past, Silenced, TailKind

\* Steps that move no task and raise no flag.
LEMMA TailStays ==
  ASSUME TailInv, UNCHANGED <<phase, raisedIn>>, \A t \in Token : cancelled[t] => cancelled'[t],
         \A u \in Token, x \in TailKind : Carried(u, x)' => Carried(u, x)
  PROVE  TailInv'
<1>1. \A g : Silenced(g) \subseteq TailKind
  BY StagePaths DEF TailKind
<1> QED BY <1>1 DEF TailInv, TailKind

\* Raising a flag.
LEMMA TailRaised ==
  ASSUME TailInv, OutcomeInv, WireInv, UNCHANGED <<phase>>, NEW t \in Token, Raise(t), cancelled'[t],
         \A u \in Token : cancelled[u] => cancelled'[u],
         \A u \in Token, x \in TailKind : Carried(u, x)' => Carried(u, x)
  PROVE  TailInv'
<1>1. \A g : Silenced(g) \subseteq TailKind
  BY StagePaths DEF TailKind
<1>2. raisedIn' = [raisedIn EXCEPT ![t] = IF raisedIn[t] = None THEN StageOf(phase[t]) ELSE raisedIn[t]]
  BY DEF Raise
<1>3. \A u \in Token : u # t => raisedIn'[u] = raisedIn[u]
  BY <1>2 DEF WireInv
<1>4. raisedIn'[t] = IF raisedIn[t] = None THEN StageOf(phase[t]) ELSE raisedIn[t]
  BY <1>2 DEF WireInv
<1>5. PICK p \in Phase : p = phase[t]
  BY DEF OutcomeInv
<1>6. CASE raisedIn[t] # None
  BY <1>1, <1>3, <1>4, <1>6 DEF TailInv, TailKind
<1>7. CASE raisedIn[t] = None
  <2>1. /\ Carried(t, "otp") => "otp" \notin Silenced(StageOf(p))
        /\ Carried(t, "final") \/ Carried(t, "failure") => Silenced(StageOf(p)) = {}
    BY <1>5, StageFacts DEF TailInv
  <2>2. \A kind \in Silenced(StageOf(p)) : ~Carried(t, kind)
    BY <1>1, <2>1 DEF TailKind
  <2>3. p \in Past(StageOf(p))
    BY StageFacts
  <2> QED BY <1>1, <1>3, <1>4, <1>5, <1>7, <2>2, <2>3 DEF TailInv, TailKind
<1> QED BY <1>6, <1>7

\* The task moves on, and sends S.
LEMMA TailMoves ==
  ASSUME TailInv, OutcomeInv, NEW t \in Token, NEW q \in Phase, NEW S \in SUBSET TailKind,
         phase' = [phase EXCEPT ![t] = q], UNCHANGED raisedIn,
         \A u \in Token : cancelled[u] => cancelled'[u],
         \A u \in Token, x \in TailKind : Carried(u, x)' => Carried(u, x) \/ (u = t /\ x \in S),
         Carried(t, "otp") \/ "otp" \in S => q \in {"otpSend", "final", "emit", "done"},
         Carried(t, "final") \/ Carried(t, "failure") \/ "final" \in S \/ "failure" \in S
           => q = "done",
         raisedIn[t] # None => q \in Past(raisedIn[t]) /\ \A x \in S : x \notin Silenced(raisedIn[t])
  PROVE  TailInv'
<1>1. \A g : Silenced(g) \subseteq TailKind
  BY StagePaths DEF TailKind
<1>2. phase'[t] = q /\ \A u \in Token : u # t => phase'[u] = phase[u]
  BY DEF OutcomeInv
<1>3. ASSUME NEW u \in Token, u # t
      PROVE  /\ Carried(u, "otp")' => phase'[u] \in {"otpSend", "final", "emit", "done"}
             /\ Carried(u, "final")' \/ Carried(u, "failure")' => phase'[u] = "done"
             /\ raisedIn'[u] # None => /\ cancelled'[u] /\ phase'[u] \in Past(raisedIn[u])
                                       /\ \A kind \in Silenced(raisedIn[u]) : ~Carried(u, kind)'
  BY <1>1, <1>2, <1>3 DEF TailInv, TailKind
<1>4. /\ Carried(t, "otp")' => phase'[t] \in {"otpSend", "final", "emit", "done"}
      /\ Carried(t, "final")' \/ Carried(t, "failure")' => phase'[t] = "done"
      /\ raisedIn'[t] # None => /\ cancelled'[t] /\ phase'[t] \in Past(raisedIn[t])
                                /\ \A kind \in Silenced(raisedIn[t]) : ~Carried(t, kind)'
  BY <1>1, <1>2 DEF TailInv, TailKind
<1> QED BY <1>3, <1>4 DEF TailInv

\* Without a frame.
LEMMA TailMovesQuietly ==
  ASSUME TailInv, OutcomeInv, NEW t \in Token, NEW q \in Phase,
         phase' = [phase EXCEPT ![t] = q], UNCHANGED <<raisedIn, queue, got>>,
         \A u \in Token : cancelled[u] => cancelled'[u],
         Carried(t, "otp") => q \in {"otpSend", "final", "emit", "done"},
         Carried(t, "final") \/ Carried(t, "failure") => q = "done",
         raisedIn[t] # None => q \in Past(raisedIn[t])
  PROVE  TailInv'
<1>1. \A u \in Token, x \in TailKind : Carried(u, x)' => Carried(u, x)
  BY DEF Carried, Frames
<1>2. {} \in SUBSET TailKind
  OBVIOUS
<1> QED BY <1>1, <1>2, TailMoves

\* With one.
LEMMA TailMovesTelling ==
  ASSUME TailInv, OutcomeInv, WireInv, NEW t \in Token, NEW q \in Phase, NEW kind \in TailKind,
         phase' = [phase EXCEPT ![t] = q], UNCHANGED <<raisedIn, got>>, queue' = Emitted(kind, t),
         \A u \in Token : cancelled[u] => cancelled'[u],
         Carried(t, "otp") \/ kind = "otp" => q \in {"otpSend", "final", "emit", "done"},
         Carried(t, "final") \/ Carried(t, "failure") \/ kind \in {"final", "failure"} => q = "done",
         raisedIn[t] # None => q \in Past(raisedIn[t]) /\ kind \notin Silenced(raisedIn[t])
  PROVE  TailInv'
<1>0. TailKind \subseteq Kind
  BY DEF TailKind, Kind
<1>1. PICK k : k = conn[t]
  OBVIOUS
<1>2. SentTo(k, [kind |-> kind, turn |-> t])
  BY <1>0, <1>1, SendAdds DEF Emitted
<1>3. \A u \in Token, x \in TailKind : Carried(u, x)' => Carried(u, x) \/ (u = t /\ x \in {kind})
  BY <1>0, <1>2, SendCarries
<1>4. {kind} \in SUBSET TailKind
  OBVIOUS
<1> QED BY <1>3, <1>4, TailMoves

\* Every step of a turn task keeps TailInv.
LEMMA TaskTail ==
  ASSUME TailInv, OutcomeInv, AbortInv, WireInv, NEW t \in Token,
         AgentEvent(t) \/ Translate(t) \/ TaskStep(t),
         \A u \in Token : cancelled[u] => cancelled'[u]
  PROVE  TailInv'
<1>0. UNCHANGED <<raisedIn, got>>
  BY TaskSends
<1>g. PICK g : g = raisedIn[t]
  OBVIOUS
<1>p. /\ Carried(t, "otp") => phase[t] \in {"otpSend", "final", "emit", "done"}
      /\ Carried(t, "final") \/ Carried(t, "failure") => phase[t] = "done"
      /\ g # None => cancelled[t] /\ phase[t] \in Past(g)
  BY <1>g DEF TailInv
<1>1. CASE AgentEvent(t)
  <2>1. UNCHANGED <<phase, queue>>
    BY <1>1 DEF AgentEvent
  <2> QED BY <1>0, <2>1, TailStays DEF Carried, Frames
<1>2. CASE Translate(t)
  <2>1. UNCHANGED phase /\ queue' = Sent(conn[t], "stream", t)
    BY <1>2 DEF Translate, Emitted
  <2>2. PICK k : k = conn[t]
    OBVIOUS
  <2>3. SentTo(k, [kind |-> "stream", turn |-> t])
    BY <2>1, <2>2, SendAdds DEF Kind
  <2>4. PICK x : x = "stream"
    OBVIOUS
  <2>5. \A u \in Token, y \in Kind : Carried(u, y)' => Carried(u, y) \/ (u = t /\ y = x)
    BY <1>0, <2>3, <2>4, SendCarries
  <2>6. \A u \in Token, y \in TailKind : Carried(u, y)' => Carried(u, y)
    BY <2>4, <2>5 DEF TailKind, Kind
  <2> QED BY <1>0, <2>1, <2>6, TailStays
<1>3. CASE PersistReply(t) \/ JudgeDone(t) \/ TurnFails(t)
  <2>1. PICK q \in {"judging", "returned", "failed"} : phase' = [phase EXCEPT ![t] = q]
    BY <1>3 DEF PersistReply, JudgeDone, TurnFails, Advance
  <2>2. UNCHANGED queue /\ phase[t] \in {"running", "judging"}
    BY <1>3 DEF PersistReply, JudgeDone, TurnFails, Advance
  <2>3. g # None => q \in Past(g)
    BY <1>p, <2>2, StagePaths DEF Phase, Awaiting
  <2>4. q \in Phase
    BY DEF Phase, Awaiting
  <2> QED BY <1>0, <1>g, <1>p, <2>1, <2>2, <2>3, <2>4, TailMovesQuietly
<1>4. CASE EnterTail(t) \/ FinalCheck(t) \/ EnterErrorTail(t)
  <2>1. PICK q \in {"stepWrite", "otpGate", "emit", "errWrite"} : phase' = [phase EXCEPT ![t] = q]
    BY <1>4 DEF EnterTail, FinalCheck, EnterErrorTail, Advance
  <2>2. /\ UNCHANGED queue /\ ~cancelled[t]
        /\ phase[t] \in {"returned", "failed"} \/ (phase[t] = "final" /\ phase' = [phase EXCEPT ![t] = "emit"])
    BY <1>4 DEF EnterTail, FinalCheck, EnterErrorTail, Advance
  <2>3. g = None
    BY <1>p, <2>2
  <2>4. q \in Phase /\ (phase[t] = "final" => q = "emit")
    BY <2>1, <2>2 DEF Phase, Awaiting, OutcomeInv
  <2> QED BY <1>0, <1>g, <1>p, <2>1, <2>2, <2>3, <2>4, TailMovesQuietly
<1>5. CASE StepWritten(t) \/ OtpGate(t)
  <2>1. PICK q \in {"otpGate", "otpOffer", "final"} : phase' = [phase EXCEPT ![t] = q]
           /\ (q = "otpOffer" => ~cancelled[t]) /\ (phase[t] = "stepWrite" => q = "otpGate")
           /\ (phase[t] = "otpGate" => q # "otpGate")
    BY <1>5 DEF StepWritten, OtpGate, Advance
  <2>2. UNCHANGED queue /\ phase[t] \in {"stepWrite", "otpGate"}
    BY <1>5 DEF StepWritten, OtpGate, Advance
  <2>3. g # None => q \in Past(g)
    BY <1>p, <2>1, <2>2, StagePaths DEF Phase, Awaiting
  <2>4. q \in Phase
    BY DEF Phase, Awaiting
  <2> QED BY <1>0, <1>g, <1>p, <2>1, <2>2, <2>3, <2>4, TailMovesQuietly
<1>6. CASE OfferOtp(t) \/ OtpDelivered(t)
  <2>1. PICK q \in {"otpSend", "final"} : phase' = [phase EXCEPT ![t] = q]
    BY <1>6 DEF OfferOtp, OtpDelivered, Advance
  <2>2. queue' = Emitted("otp", t) /\ phase[t] \in {"otpOffer", "otpSend"}
    BY <1>6 DEF OfferOtp, OtpDelivered, Advance
  <2>3. g # None => q \in Past(g) /\ "otp" \notin Silenced(g)
    BY <1>p, <2>1, <2>2, StagePaths DEF Phase, Awaiting
  <2>4. q \in Phase /\ "otp" \in TailKind
    BY DEF Phase, Awaiting, TailKind
  <2> QED BY <1>0, <1>g, <1>p, <2>1, <2>2, <2>3, <2>4, TailMovesTelling
<1>7. CASE PersistTurnError(t)
  <2>1. phase' = [phase EXCEPT ![t] = "errEmit"] /\ UNCHANGED queue /\ phase[t] = "errWrite"
    BY <1>7 DEF PersistTurnError, Advance
  <2>2. g # None => "errEmit" \in Past(g)
    BY <1>p, <2>1, StagePaths DEF Phase, Awaiting
  <2>3. "errEmit" \in Phase
    BY DEF Phase
  <2> QED BY <1>0, <1>g, <1>p, <2>1, <2>2, <2>3, TailMovesQuietly
<1>8. CASE EmitResponse(t) \/ EmitError(t)
  <2>1. PICK kind \in {"final", "failure"} : queue' = Emitted(kind, t)
    BY <1>8 DEF EmitResponse, EmitError
  <2>2. phase' = [phase EXCEPT ![t] = "done"] /\ phase[t] \in {"emit", "errEmit"}
    BY <1>8 DEF EmitResponse, EmitError, End
  <2>3. g # None => "done" \in Past(g) /\ kind \notin Silenced(g)
    BY <1>p, <2>2, StagePaths DEF Phase, Awaiting
  <2>4. "done" \in Phase /\ kind \in TailKind
    BY DEF Phase, TailKind
  <2> QED BY <1>0, <1>g, <1>p, <2>1, <2>2, <2>3, <2>4, TailMovesTelling
<1>9. CASE QuietReturn(t) \/ DropAborted(t)
  <2>1. phase' = [phase EXCEPT ![t] = "done"] /\ UNCHANGED queue
    BY <1>9 DEF QuietReturn, DropAborted, End
  <2>2. g # None => "done" \in Past(g)
    BY StagePaths DEF Phase
  <2>3. "done" \in Phase
    BY DEF Phase
  <2> QED BY <1>0, <1>g, <1>p, <2>1, <2>2, <2>3, TailMovesQuietly
<1> QED BY <1>1, <1>2, <1>3, <1>4, <1>5, <1>6, <1>7, <1>8, <1>9 DEF TaskStep

------------------------------------------------------------------------------
(* Tokens that are handed out.                                              *)

\* A reader or a current_turn names a turn of its connection, or one that is
\* handed out.
Names(k, t) ==
  /\ current[k] = t => conn[t] = k
  /\ slot[k] = t => conn[t] = k
  /\ reader[k].turn = t /\ reader[k].at \in Handling \ SessionCancel => conn[t] = k
  /\ reader[k].turn = t /\ reader[k].at \in SessionCancel => t < next_token

\* A step of the registry that hands out no token.
Onward ==
  /\ UNCHANGED next_token
  /\ \A t \in Token : \/ state'[t] = state[t]
                      \/ state[t] # "free" /\ state'[t] \notin {"free", "claimed"}
  /\ \A t \in Token : cancelled'[t] => cancelled[t] \/ state[t] # "free"
  /\ \A v \in Conv : turns'[v] = turns[v] \/ turns'[v] = None

\* What a registry step does, but for the claim.
LEMMA RegistryOnward ==
  ASSUME ReaderInv, AbortInv, HandedInv, NEW t \in Token,
         \/ DropClaim(t) \/ SpawnTurn(t) \/ SetAbort(t) \/ LocalCancel(t)
         \/ LocalAbort(t) \/ LocalRelease(t) \/ EndTurn(t) \/ UNCHANGED registryVars
  PROVE  Onward
<1>1. CASE DropClaim(t) \/ EndTurn(t) \/ LocalRelease(t)
  BY <1>1 DEF DropClaim, EndTurn, LocalRelease, Released, Onward, ReaderInv, AbortInv
<1>2. CASE SpawnTurn(t) \/ SetAbort(t) \/ LocalCancel(t) \/ LocalAbort(t)
  BY <1>2 DEF SpawnTurn, SetAbort, LocalCancel, LocalAbort, Onward, ReaderInv, AbortInv
<1>3. CASE UNCHANGED registryVars
  BY <1>3 DEF registryVars, Onward
<1> QED BY <1>1, <1>2, <1>3

\* The unlocked rest of a cancel, of a turn that was handed out.
LEMMA CancelOnward ==
  ASSUME AbortInv, NEW t \in Token, RaiseFlag(t) \/ AbortRemoved(t), state[t] # "free"
  PROVE  Onward
<1>1. CASE RaiseFlag(t)
  BY <1>1 DEF RaiseFlag, Onward, AbortInv
<1>2. CASE AbortRemoved(t)
  BY <1>2 DEF AbortRemoved, Onward, AbortInv
<1> QED BY <1>1, <1>2

\* A step that hands out no token keeps HandedInv, from what it does to the
\* names and the phases.
LEMMA HandedKept ==
  ASSUME ReaderInv, HandedInv, Onward, UNCHANGED conn,
         \A t \in Token : phase'[t] = phase[t] \/ state'[t] \notin {"free", "claimed"},
         \A k \in Conn, t \in Token : Names(k, t)'
  PROVE  HandedInv'
<1>1. next_token' = next_token /\ next_token \in Nat /\ \A t \in Token : t \in Nat
  BY ConstantsAssumption, ConnectionAssumption, TokenFacts DEF Onward, ReaderInv
<1>2. \A t \in Token : /\ state'[t] = "free" <=> t >= next_token'
                       /\ conn'[t] \in Conn <=> t < next_token'
                       /\ t >= next_token' => ~cancelled'[t]
                       /\ state'[t] \in {"free", "claimed"} => phase'[t] = "none"
  BY <1>1 DEF HandedInv, Onward
<1>3. \A v \in Conv : turns'[v] # None => turns'[v] < next_token'
  BY <1>1 DEF HandedInv, Onward
<1> QED BY <1>2, <1>3 DEF HandedInv, Names

\* Names that a step leaves alone.
LEMMA SameNames ==
  ASSUME HandedInv, UNCHANGED <<conn, next_token>>, NEW k \in Conn, NEW t \in Token,
         UNCHANGED <<current[k], slot[k], reader[k]>>
  PROVE  Names(k, t)'
BY DEF HandedInv, Names

\* A reader moves on with the turn it is at, or goes idle; current_turn and the
\* gate are cleared or get that turn.
LEMMA ReaderNames ==
  ASSUME ReaderInv, WireInv, HandedInv, UNCHANGED <<conn, next_token>>, NEW k \in Conn,
         NEW p, NEW u \in Token \cup {None}, Goto(k, p, u),
         p \in Handling /\ u # None => IF p \in SessionCancel THEN u < next_token ELSE conn[u] = k,
         NEW a \in Token \cup {None}, a # None => conn[a] = k,
         NEW b \in Token \cup {None}, b # None => conn[b] = k,
         current' = current \/ current' = [current EXCEPT ![k] = a],
         slot' = slot \/ slot' = [slot EXCEPT ![k] = b]
  PROVE  \A j \in Conn, t \in Token : Names(j, t)'
<1>1. /\ reader'[k].at = p /\ reader'[k].turn = u
      /\ \A j \in Conn : j # k => reader'[j] = reader[j]
  BY DEF Goto, ReaderInv
<1>2. /\ current'[k] \in {current[k], a} /\ slot'[k] \in {slot[k], b}
      /\ \A j \in Conn : j # k => current'[j] = current[j] /\ slot'[j] = slot[j]
  BY DEF ReaderInv, WireInv
<1>3. ASSUME NEW j \in Conn, NEW t \in Token, j # k PROVE Names(j, t)'
  BY <1>1, <1>2, <1>3, SameNames
<1>4. ASSUME NEW t \in Token PROVE Names(k, t)'
  <2>1. None \notin Token
    BY TokenFacts
  <2>2. (current'[k] = t => conn[t] = k) /\ (slot'[k] = t => conn[t] = k)
    BY <1>2, <2>1 DEF HandedInv
  <2>3. reader'[k].turn = t /\ reader'[k].at \in Handling \ SessionCancel => conn[t] = k
    BY <1>1, <2>1
  <2>4. reader'[k].turn = t /\ reader'[k].at \in SessionCancel => t < next_token
    BY <1>1, <2>1 DEF Handling, SessionCancel
  <2>5. conn' = conn /\ next_token' = next_token
    OBVIOUS
  <2> QED BY <2>2, <2>3, <2>4, <2>5 DEF Names
<1> QED BY <1>3, <1>4

\* A reader's step that hands out no token.
LEMMA ReaderHanded ==
  ASSUME ReaderInv, WireInv, HandedInv, Onward, UNCHANGED conn, NEW k \in Conn,
         NEW p, NEW u \in Token \cup {None}, Goto(k, p, u),
         p \in Handling /\ u # None => IF p \in SessionCancel THEN u < next_token ELSE conn[u] = k,
         NEW a \in Token \cup {None}, a # None => conn[a] = k,
         NEW b \in Token \cup {None}, b # None => conn[b] = k,
         current' = current \/ current' = [current EXCEPT ![k] = a],
         slot' = slot \/ slot' = [slot EXCEPT ![k] = b],
         \A t \in Token : phase'[t] = phase[t] \/ state'[t] \notin {"free", "claimed"}
  PROVE  HandedInv'
<1>1. UNCHANGED <<conn, next_token>>
  BY DEF Onward
<1>2. \A j \in Conn, t \in Token : Names(j, t)'
  BY <1>1, ReaderNames
<1> QED BY <1>2, HandedKept

\* The turn a reader is inside a handler for.
LEMMA HandlersTurn ==
  ASSUME ReaderInv, HandedInv, NEW k \in Conn, reader[k].at \in Handling
  PROVE  /\ reader[k].turn \in Token
         /\ reader[k].at \notin SessionCancel => conn[reader[k].turn] = k
         /\ reader[k].at \in SessionCancel => reader[k].turn < next_token
BY DEF ReaderInv, HandedInv

\* The steps of a reader inside a handler keep HandedInv.
LEMMA HandlersHanded ==
  ASSUME ReaderInv, AbortInv, OutcomeInv, WireInv, HandedInv, NEW k \in Conn, ReaderStep(k)
  PROVE  HandedInv'
<1> USE DEF Handling, SessionCancel
<1>0. PICK u : u = reader[k].turn
  OBVIOUS
<1>n. None \in Token \cup {None}
  OBVIOUS
<1>1. CASE RefuseTurn(k) \/ CancelArm(k) \/ Notify(k) \/ StopReader(k) \/ WriterExit(k)
  <2>1. PICK p \in {"idle", "draining", "drained"} : Goto(k, p, None)
    BY <1>1 DEF RefuseTurn, CancelArm, SessionFlag, SessionAbort, Notify, StopReader, WriterExit
  <2>2. UNCHANGED <<conn, phase>>
    BY <1>1 DEF RefuseTurn, CancelArm, SessionFlag, SessionAbort, Notify, StopReader, WriterExit,
                taskVars
  <2>3. \/ UNCHANGED registryVars
        \/ u \in Token /\ DropClaim(u)
    BY <1>0, <1>1, HandlersTurn DEF RefuseTurn, CancelArm, SessionFlag, SessionAbort, Notify,
                                    StopReader, WriterExit, At
  <2>4. Onward
    <3>1. CASE UNCHANGED registryVars
      BY <3>1 DEF Onward, registryVars
    <3>2. CASE u \in Token /\ DropClaim(u)
      BY <3>2, RegistryOnward
    <3> QED BY <2>3, <3>1, <3>2
  <2>5. current' = current \/ current' = [current EXCEPT ![k] = None]
    BY <1>1 DEF RefuseTurn, CancelArm, SessionFlag, SessionAbort, Notify, StopReader, WriterExit
  <2>6. slot' = slot \/ (slot' = [slot EXCEPT ![k] = u] /\ u \in Token /\ conn[u] = k)
    BY <1>0, <1>1, HandlersTurn DEF RefuseTurn, CancelArm, SessionFlag, SessionAbort, Notify,
                                    StopReader, WriterExit, At
  <2>7. PICK b \in Token \cup {None} : /\ b # None => conn[b] = k
                                       /\ slot' = slot \/ slot' = [slot EXCEPT ![k] = b]
    BY <2>6
  <2>8. p \notin Handling /\ \A t \in Token : phase'[t] = phase[t]
    BY <2>2
  <2> QED BY <1>n, <2>1, <2>2, <2>4, <2>5, <2>7, <2>8, ReaderHanded
<1>2. CASE Acknowledge(k) \/ Spawn(k) \/ CancelAbort(k) \/ CancelRelease(k) \/ CancelQueue(k)
  <2>1. PICK p \in Handling : Goto(k, p, u) /\ p \notin SessionCancel
    BY <1>0, <1>2 DEF Acknowledge, Spawn, CancelAbort, CancelRelease, CancelQueue
  <2>2. UNCHANGED <<conn, current, slot>>
    BY <1>2 DEF Acknowledge, Spawn, CancelAbort, CancelRelease, CancelQueue
  <2>3. u \in Token /\ conn[u] = k
    BY <1>0, <1>2, HandlersTurn DEF Acknowledge, Spawn, CancelAbort, CancelRelease, CancelQueue, At
  <2>4. UNCHANGED registryVars \/ SpawnTurn(u) \/ LocalAbort(u) \/ LocalRelease(u)
    BY <1>0, <1>2 DEF Acknowledge, Spawn, CancelAbort, CancelRelease, CancelQueue
  <2>5. Onward
    BY <2>3, <2>4, RegistryOnward
  <2>6. UNCHANGED phase \/ (SpawnTurn(u) /\ phase' = [phase EXCEPT ![u] = "running"])
    BY <1>0, <1>2 DEF Acknowledge, Spawn, CancelAbort, CancelRelease, CancelQueue, taskVars
  <2>7. \A t \in Token : phase'[t] = phase[t] \/ state'[t] \notin {"free", "claimed"}
    <3>1. CASE UNCHANGED phase
      BY <3>1
    <3>2. CASE SpawnTurn(u) /\ phase' = [phase EXCEPT ![u] = "running"]
      BY <2>3, <3>2 DEF SpawnTurn, AbortInv, OutcomeInv
    <3> QED BY <2>6, <3>1, <3>2
  <2> QED BY <1>n, <2>1, <2>2, <2>3, <2>5, <2>7, ReaderHanded
<1>3. CASE TrackTurn(k)
  <2>1. /\ Goto(k, "idle", None) /\ UNCHANGED <<conn, phase>> /\ SetAbort(u)
        /\ slot' = [slot EXCEPT ![k] = None] /\ current' = [current EXCEPT ![k] = u]
    BY <1>0, <1>3 DEF TrackTurn, taskVars
  <2>2. u \in Token /\ conn[u] = k
    BY <1>0, <1>3, HandlersTurn DEF TrackTurn, At
  <2>3. Onward
    BY <2>1, <2>2, RegistryOnward
  <2>4. PICK p : p = "idle"
    OBVIOUS
  <2>5. p \notin Handling /\ Goto(k, p, None) /\ \A t \in Token : phase'[t] = phase[t]
    BY <2>1, <2>4
  <2> QED BY <1>n, <2>1, <2>2, <2>3, <2>5, ReaderHanded
<1>4. CASE SessionFlag(k) \/ SessionAbort(k)
  <2>1. PICK p \in SessionCancel : Goto(k, p, u)
    BY <1>0, <1>4 DEF SessionFlag, SessionAbort
  <2>2. /\ UNCHANGED <<conn, current, slot>> /\ (RaiseFlag(u) \/ AbortRemoved(u))
        /\ \A t \in Token : phase'[t] = phase[t]
    BY <1>0, <1>4 DEF SessionFlag, SessionAbort, taskVars
  <2>3. u \in Token /\ u < next_token
    BY <1>0, <1>4, HandlersTurn DEF SessionFlag, SessionAbort, At
  <2>4. state[u] # "free"
    BY <2>3, ConstantsAssumption, TokenFacts DEF ReaderInv, HandedInv
  <2>5. Onward
    BY <2>2, <2>3, <2>4, CancelOnward
  <2> QED BY <1>n, <2>1, <2>2, <2>3, <2>5, ReaderHanded
<1> QED BY <1>1, <1>2, <1>3, <1>4 DEF ReaderStep

\* A claim hands out the next token.
LEMMA ClaimHanded ==
  ASSUME ReaderInv, AbortInv, OutcomeInv, WireInv, HandedInv, NEW k \in Conn, NEW v \in Conv,
         ClaimTurn(k, v)
  PROVE  HandedInv'
<1>0. PICK n : n = next_token
  OBVIOUS
<1>1. n \in Token /\ n \in Nat /\ n < MaxTurns /\ MaxTurns \in Nat
  BY <1>0, ConstantsAssumption, ConnectionAssumption, TokenFacts DEF ClaimTurn, TryReserve,
                                        ReaderInv
<1>2. next_token' = n + 1 /\ UNCHANGED <<cancelled, phase, slot>>
  BY <1>0 DEF ClaimTurn, TryReserve, taskVars
<1>3. \A t \in Token : /\ t \in Nat /\ t # None
                       /\ conn'[t] = IF t = n THEN k ELSE conn[t]
                       /\ state'[t] = IF t = n THEN "claimed" ELSE state[t]
  BY <1>0, <1>1, ConstantsAssumption, ConnectionAssumption, TokenFacts DEF ClaimTurn, TryReserve,
                                        WireInv, AbortInv
<1>4. \A t \in Token : /\ state'[t] = "free" <=> t >= next_token'
                       /\ conn'[t] \in Conn <=> t < next_token'
                       /\ t >= next_token' => ~cancelled'[t]
                       /\ state'[t] \in {"free", "claimed"} => phase'[t] = "none"
  BY <1>0, <1>1, <1>2, <1>3 DEF HandedInv
<1>5. \A w \in Conv : turns'[w] # None => turns'[w] < next_token'
  <2>1. \A w \in Conv : turns'[w] = IF w = v THEN n ELSE turns[w]
    BY <1>0 DEF ClaimTurn, TryReserve, ReaderInv
  <2>2. \A w \in Conv : turns[w] # None => turns[w] \in Nat /\ turns[w] < n
    BY <1>0, <1>3 DEF ReaderInv, HandedInv
  <2> QED BY <1>1, <1>2, <2>1, <2>2
<1>6. /\ \A j \in Conn : reader'[j] = IF j = k THEN [at |-> "reserved", turn |-> n] ELSE reader[j]
      /\ \A j \in Conn : current'[j] \in {current[j], None}
  BY <1>0 DEF ClaimTurn, Goto, Forgotten, ReaderInv
<1>7. \A j \in Conn, t \in Token : conn[t] = j => conn'[t] = j
  BY <1>0, <1>1, <1>3 DEF HandedInv
<1>8. ASSUME NEW j \in Conn, NEW t \in Token PROVE Names(j, t)'
  <2>1. current'[j] = t => conn'[t] = j
    BY <1>3, <1>6, <1>7 DEF HandedInv
  <2>2. slot'[j] = t => conn'[t] = j
    BY <1>2, <1>7 DEF HandedInv
  <2>3. reader'[j].turn = t /\ reader'[j].at \in Handling \ SessionCancel => conn'[t] = j
    BY <1>3, <1>6, <1>7 DEF HandedInv
  <2>4. reader'[j].turn = t /\ reader'[j].at \in SessionCancel => t < next_token'
    BY <1>0, <1>1, <1>2, <1>3, <1>6 DEF HandedInv, SessionCancel
  <2> QED BY <2>1, <2>2, <2>3, <2>4 DEF Names
<1> QED BY <1>4, <1>5, <1>8 DEF HandedInv, Names

\* What clients do keeps HandedInv.
LEMMA ClientsHanded ==
  ASSUME ReaderInv, AbortInv, OutcomeInv, WireInv, HandedInv, NEW k \in Conn, ClientStep(k)
  PROVE  HandedInv'
<1>n. None \in Token \cup {None}
  OBVIOUS
<1>1. CASE CancelOwn(k)
  <2>0. PICK u : u = current[k]
    OBVIOUS
  <2>1. u \in Token /\ conn[u] = k
    BY <1>1, <2>0 DEF CancelOwn, Tracks, ReaderInv, HandedInv
  <2>2. /\ LocalCancel(u) /\ Goto(k, "flagged", u) /\ current' = [current EXCEPT ![k] = None]
        /\ UNCHANGED <<conn, slot, phase>>
    BY <1>1, <2>0 DEF CancelOwn, taskVars
  <2>3. Onward
    BY <2>1, <2>2, RegistryOnward
  <2>4. PICK p : p = "flagged"
    OBVIOUS
  <2>5. Goto(k, p, u) /\ p \notin SessionCancel /\ \A t \in Token : phase'[t] = phase[t]
    BY <2>2, <2>4 DEF SessionCancel
  <2> QED BY <1>n, <2>1, <2>2, <2>3, <2>5, ReaderHanded
<1>2. CASE Disconnect(k)
  <2>1. /\ Goto(k, "gone", None) /\ current' = [current EXCEPT ![k] = None]
        /\ UNCHANGED <<conn, slot, phase>>
    BY <1>2 DEF Disconnect, taskVars
  <2>2. Onward
    BY <1>2 DEF Disconnect, registryVars, Onward
  <2>3. PICK p : p = "gone"
    OBVIOUS
  <2>4. Goto(k, p, None) /\ p \notin Handling /\ \A t \in Token : phase'[t] = phase[t]
    BY <2>1, <2>3 DEF Handling
  <2> QED BY <1>n, <2>1, <2>2, <2>4, ReaderHanded
<1>3. ASSUME NEW v \in Conv, RejectBusy(k, v) PROVE HandedInv'
  <2>1. Onward /\ UNCHANGED <<conn, next_token, slot, reader, phase>>
    BY <1>3 DEF RejectBusy, registryVars, Onward, taskVars
  <2>2. None \notin Token /\ \A j \in Conn : current'[j] \in {current[j], None}
    BY <1>3, TokenFacts DEF RejectBusy, Forgotten, ReaderInv
  <2>3. \A j \in Conn, t \in Token : Names(j, t)'
    BY <2>1, <2>2 DEF HandedInv, Names
  <2>4. \A t \in Token : phase'[t] = phase[t]
    BY <2>1
  <2> QED BY <2>1, <2>3, <2>4, HandedKept
<1>4. ASSUME NEW v \in Conv, SendMessage(k, v) \/ ConfirmContinuation(k, v) PROVE HandedInv'
  BY <1>4, ClaimHanded DEF SendMessage, ConfirmContinuation
<1>5. ASSUME NEW v \in Conv, CancelBySession(k, v) PROVE HandedInv'
  <2>0. PICK u : u = turns[v]
    OBVIOUS
  <2>1. u \in Token /\ u < next_token /\ state[u] # "free"
    BY <1>5, <2>0, ConstantsAssumption, ConnectionAssumption, TokenFacts
    DEF CancelBySession, CancelConversation, ReaderInv, HandedInv
  <2>2. /\ CancelConversation(v) /\ Goto(k, "taken", u) /\ current' = [current EXCEPT ![k] = None]
        /\ UNCHANGED <<conn, slot, phase>>
    BY <1>5, <2>0 DEF CancelBySession, taskVars
  <2>3. Onward
    BY <2>0, <2>1, <2>2 DEF CancelConversation, Onward, ReaderInv, AbortInv
  <2>4. PICK p : p = "taken"
    OBVIOUS
  <2>5. Goto(k, p, u) /\ p \in SessionCancel /\ \A t \in Token : phase'[t] = phase[t]
    BY <2>2, <2>4 DEF SessionCancel
  <2> QED BY <1>n, <2>1, <2>2, <2>3, <2>5, ReaderHanded
<1> QED BY <1>1, <1>2, <1>3, <1>4, <1>5 DEF ClientStep

\* A task moves only once it is spawned, and moves only itself.
LEMMA TaskMoves ==
  ASSUME OutcomeInv, NEW t \in Token, AgentEvent(t) \/ Translate(t) \/ TaskStep(t)
  PROVE  /\ \A u \in Token \ {t} : phase'[u] = phase[u]
         /\ phase'[t] = phase[t] \/ phase[t] # "none"
<1>1. CASE AgentEvent(t) \/ Translate(t)
  BY <1>1 DEF AgentEvent, Translate
<1>2. CASE TaskStep(t)
  <2>1. (\E q : phase' = [phase EXCEPT ![t] = q]) /\ phase[t] # "none"
    BY <1>2 DEF TaskStep, PersistReply, JudgeDone, TurnFails, EnterTail, StepWritten, OtpGate,
              OfferOtp, OtpDelivered, FinalCheck, EmitResponse, EnterErrorTail,
              PersistTurnError, EmitError, QuietReturn, DropAborted, Advance, End, Awaiting
  <2> QED BY <2>1 DEF OutcomeInv
<1> QED BY <1>1, <1>2

\* Every step keeps what is known of the tokens.
LEMMA StepHanded ==
  ReaderInv /\ AbortInv /\ OutcomeInv /\ WireInv /\ HandedInv /\ [Next]_vars => HandedInv'
<1> SUFFICES ASSUME ReaderInv, AbortInv, OutcomeInv, WireInv, HandedInv, [Next]_vars
             PROVE  HandedInv'
  OBVIOUS
<1>1. ASSUME NEW k \in Conn, ReaderStep(k) \/ ClientStep(k) PROVE HandedInv'
  BY <1>1, HandlersHanded, ClientsHanded
<1>2. ASSUME NEW k \in Conn, Write(k) PROVE HandedInv'
  BY <1>2 DEF Write, registryVars, connVars, taskVars, HandedInv
<1>3. ASSUME NEW t \in Token, AgentEvent(t) \/ Translate(t) \/ TaskStep(t) PROVE HandedInv'
  <2>1. EndTurn(t) \/ UNCHANGED registryVars
    BY <1>3, TaskUsesRegistry
  <2>2. Onward
    BY <2>1, RegistryOnward
  <2>3. UNCHANGED connVars
    BY <1>3, TaskKeepsReaders
  <2>4. \A j \in Conn, u \in Token : Names(j, u)'
    BY <2>2, <2>3 DEF connVars, Names, HandedInv, Onward
  <2>5. \A u \in Token : phase'[u] = phase[u] \/ state'[u] \notin {"free", "claimed"}
    BY <1>3, <2>2, TaskMoves DEF HandedInv, Onward
  <2> QED BY <2>2, <2>3, <2>4, <2>5, HandedKept DEF connVars
<1>4. CASE Shutdown \/ UNCHANGED vars
  BY <1>4 DEF Shutdown, vars, registryVars, connVars, taskVars, HandedInv
<1> QED BY <1>1, <1>2, <1>3, <1>4 DEF Next

------------------------------------------------------------------------------
(* A cancel silences the tail.                                              *)

\* Nothing is told and no flag is raised yet.
LEMMA InitTail == Init => WireInv /\ HandedInv /\ TailInv
<1> SUFFICES ASSUME Init PROVE WireInv /\ HandedInv /\ TailInv
  OBVIOUS
<1> USE ConstantsAssumption, ConnectionAssumption, TokenFacts
<1>1. <<>> \in Seq(Frame) /\ FramesOf(<<>>) = {}
  BY DEF FramesOf
<1>2. WireInv
  BY <1>1 DEF Init, WireInv
<1>3. HandedInv
  BY DEF Init, RegistryInit, HandedInv, Handling, SessionCancel, Token
<1>4. \A t \in Token, x \in Kind : ~Carried(t, x)
  BY <1>1 DEF Init, Carried, Frames
<1>5. TailInv
  BY <1>4 DEF Init, TailInv, Kind
<1> QED BY <1>2, <1>3, <1>5

\* The steps outside the turn tasks keep TailInv.
LEMMA OthersTail ==
  ASSUME ReaderInv, AbortInv, OutcomeInv, WireInv, HandedInv, TailInv, NEW k \in Conn,
         ReaderStep(k) \/ ClientStep(k) \/ Write(k),
         \A u \in Token : cancelled[u] => cancelled'[u]
  PROVE  TailInv'
<1>1. \A u \in Token, x \in TailKind : Carried(u, x)' => Carried(u, x)
  BY OnlyTailsCarry
<1>2. CASE UNCHANGED <<phase, raisedIn>>
  BY <1>1, <1>2, TailStays
<1>3. CASE Spawn(k)
  <2>0. PICK t : t = reader[k].turn
    OBVIOUS
  <2>1. t \in Token
    BY <1>3, <2>0, HandlersTurn DEF Spawn, At, Handling
  <2>2. /\ state[t] = "claimed" /\ phase' = [phase EXCEPT ![t] = "running"]
        /\ UNCHANGED <<raisedIn, queue, got>>
    BY <1>3, <2>0 DEF Spawn, SpawnTurn, clientVars
  <2>3. phase[t] = "none"
    BY <2>1, <2>2 DEF HandedInv
  <2>4. PICK g : g = raisedIn[t]
    OBVIOUS
  <2>5. /\ ~Carried(t, "otp") /\ ~Carried(t, "final") /\ ~Carried(t, "failure")
        /\ g # None => "none" \in Past(g)
    BY <2>1, <2>3, <2>4 DEF TailInv
  <2>6. "running" \in Phase /\ (g # None => "running" \in Past(g))
    BY <2>5, StagePaths DEF Phase, Awaiting
  <2> QED BY <2>1, <2>2, <2>4, <2>5, <2>6, TailMovesQuietly
<1>4. CASE CancelOwn(k)
  <2>0. PICK t : t = current[k]
    OBVIOUS
  <2>1. t \in Token
    BY <1>4, <2>0 DEF CancelOwn, Tracks, ReaderInv
  <2>2. Raise(t) /\ UNCHANGED <<phase>> /\ cancelled'[t]
    BY <1>4, <2>0, <2>1 DEF CancelOwn, LocalCancel, taskVars, AbortInv
  <2> QED BY <1>1, <2>1, <2>2, TailRaised
<1>5. CASE SessionFlag(k)
  <2>0. PICK t : t = reader[k].turn
    OBVIOUS
  <2>1. t \in Token
    BY <1>5, <2>0, HandlersTurn DEF SessionFlag, At, Handling
  <2>2. Raise(t) /\ UNCHANGED <<phase>> /\ cancelled'[t]
    BY <1>5, <2>0, <2>1 DEF SessionFlag, RaiseFlag, taskVars, AbortInv
  <2> QED BY <1>1, <2>1, <2>2, TailRaised
<1>6. CASE \/ RefuseTurn(k) \/ Acknowledge(k) \/ TrackTurn(k) \/ CancelAbort(k) \/ CancelRelease(k)
           \/ CancelQueue(k) \/ CancelArm(k) \/ SessionAbort(k) \/ Notify(k) \/ StopReader(k)
           \/ WriterExit(k)
  BY <1>2, <1>6 DEF RefuseTurn, Acknowledge, TrackTurn, CancelAbort, CancelRelease, CancelQueue,
     CancelArm, SessionAbort, Notify, StopReader, WriterExit, taskVars
<1>7. CASE \/ Disconnect(k) \/ Write(k)
           \/ \E v \in Conv : \/ RejectBusy(k, v) \/ SendMessage(k, v) \/ ConfirmContinuation(k, v)
                              \/ CancelBySession(k, v)
  BY <1>2, <1>7 DEF Disconnect, Write, RejectBusy, SendMessage, ConfirmContinuation, ClaimTurn,
     CancelBySession, taskVars
<1> QED BY <1>3, <1>4, <1>5, <1>6, <1>7 DEF ReaderStep, ClientStep

\* Every step keeps TailInv.
LEMMA StepTail ==
  ReaderInv /\ AbortInv /\ OutcomeInv /\ WireInv /\ HandedInv /\ TailInv /\ [Next]_vars => TailInv'
<1> SUFFICES ASSUME ReaderInv, AbortInv, OutcomeInv, WireInv, HandedInv, TailInv, [Next]_vars
             PROVE  TailInv'
  OBVIOUS
<1>0. \A u \in Token : cancelled[u] => cancelled'[u]
  BY StepUsesRegistry, AbortsAreFlagged
<1>1. ASSUME NEW k \in Conn, ReaderStep(k) \/ ClientStep(k) \/ Write(k) PROVE TailInv'
  BY <1>0, <1>1, OthersTail
<1>2. ASSUME NEW t \in Token, AgentEvent(t) \/ Translate(t) \/ TaskStep(t) PROVE TailInv'
  BY <1>0, <1>2, TaskTail
<1>3. CASE Shutdown \/ UNCHANGED vars
  <2>1. UNCHANGED <<phase, raisedIn, queue, got>>
    BY <1>3 DEF Shutdown, vars, taskVars, clientVars
  <2>2. \A u \in Token, x \in TailKind : Carried(u, x)' => Carried(u, x)
    BY <2>1 DEF Carried, Frames
  <2> QED BY <1>0, <2>1, <2>2, TailStays
<1> QED BY <1>1, <1>2, <1>3 DEF Next

\* All that is known of connections and turns, DrainCompletes' own part aside.
TurnInv == ReaderInv /\ AbortInv /\ OutcomeInv /\ WireInv /\ HandedInv /\ TailInv

\* Every behaviour keeps it.
THEOREM TurnsHold == Spec => []TurnInv
<1>1. Init => TurnInv
  BY InitReaderInv, InitOutcome, InitTail DEF TurnInv
<1>2. TurnInv /\ [Next]_vars => TurnInv'
  BY StepReaderInv, StepOutcome, StepWire, StepHanded, StepTail DEF TurnInv
<1> QED BY <1>1, <1>2, PTL DEF Spec

\* However far a turn was when a cancel raised its flag, its client is sent
\* nothing of what the tail had still to look at the flag for: the three looks
\* of the turn task catch every cancel that comes before them.
THEOREM CancelsSilenceTails == Spec => []CancelSilencesTail
<1>1. TurnInv => CancelSilencesTail
  <2> SUFFICES ASSUME TailInv, NEW t \in Token
               PROVE  /\ raisedIn[t] = "beforeTail" => got[t] \cap {"otp", "final", "failure"} = {}
                      /\ raisedIn[t] = "beforeOtp" => got[t] \cap {"otp", "final"} = {}
                      /\ raisedIn[t] = "beforeFinal" => "final" \notin got[t]
    BY DEF TurnInv, CancelSilencesTail
  <2>1. None \notin {"beforeTail", "beforeOtp", "beforeFinal"}
    <3>1. /\ StageOf("none") = "beforeTail" /\ StageOf("otpGate") = "beforeOtp"
          /\ StageOf("final") = "beforeFinal"
      BY DEF StageOf
    <3>2. {"none", "otpGate", "final"} \subseteq Phase
      BY DEF Phase
    <3> QED BY <3>1, <3>2, StageAssumption DEF Stage
  <2>2. raisedIn[t] # None => \A x \in Silenced(raisedIn[t]) : x \notin got[t]
    BY DEF TailInv, Carried
  <2> QED BY <2>1, <2>2, StagePaths DEF TailKind
<1> QED BY <1>1, TurnsHold, PTL

------------------------------------------------------------------------------
(* A drained connection has told its clients everything.                    *)

\* What a client was told stays told.
LEMMA GotGrows ==
  ASSUME WireInv, [Next]_vars PROVE \A t \in Token : got[t] \subseteq got'[t]
<1>1. ASSUME NEW k \in Conn, ReaderStep(k) PROVE UNCHANGED got
  BY <1>1 DEF ReaderStep, RefuseTurn, Acknowledge, Spawn, TrackTurn, CancelAbort, CancelRelease,
     CancelQueue, CancelArm, SessionFlag, SessionAbort, Notify, StopReader, WriterExit, clientVars
<1>2. ASSUME NEW k \in Conn, ClientStep(k) PROVE UNCHANGED got
  BY <1>2 DEF ClientStep, CancelOwn, Disconnect, RejectBusy, SendMessage, ConfirmContinuation,
     ClaimTurn, CancelBySession, clientVars
<1>3. ASSUME NEW k \in Conn, Write(k) PROVE \A t \in Token : got[t] \subseteq got'[t]
  BY <1>3, WriteEffect
<1>4. ASSUME NEW t \in Token, AgentEvent(t) \/ Translate(t) \/ TaskStep(t) PROVE UNCHANGED got
  BY <1>4, TaskSends
<1>5. CASE Shutdown \/ UNCHANGED vars
  BY <1>5 DEF Shutdown, vars, clientVars
<1> QED BY <1>1, <1>2, <1>3, <1>4, <1>5 DEF Next

\* A reader's step moves its own reader only.
LEMMA ReaderMoves ==
  ASSUME ReaderInv, NEW k \in Conn, ReaderStep(k) \/ ClientStep(k)
  PROVE  /\ \A j \in Conn \ {k} : reader'[j] = reader[j]
         /\ UNCHANGED reader \/ \E p \in ReaderAt : \E t : Goto(k, p, t)
<1>1. UNCHANGED reader \/ \E p \in ReaderAt : \E t : Goto(k, p, t)
  <2>1. CASE ReaderStep(k)
    BY <2>1 DEF ReaderStep, RefuseTurn, Acknowledge, Spawn, TrackTurn, CancelAbort, CancelRelease,
       CancelQueue, CancelArm, SessionFlag, SessionAbort, Notify, StopReader, WriterExit, ReaderAt
  <2>2. CASE ClientStep(k)
    BY <2>2 DEF ClientStep, CancelOwn, Disconnect, RejectBusy, SendMessage, ConfirmContinuation,
       ClaimTurn, CancelBySession, ReaderAt
  <2> QED BY <2>1, <2>2
<1> QED BY <1>1 DEF Goto, ReaderInv

\* No connection opens again, and only the writer's exit drains one.
LEMMA StaysShut ==
  ASSUME ReaderInv, [Next]_vars, NEW k \in Conn
  PROVE  /\ Open(k)' => Open(k)
         /\ At(k, "drained")' => At(k, "drained") \/ WriterExit(k)
<1> DEFINE Same == reader'[k] = reader[k]
           Goal == /\ Open(k)' => Open(k)
                   /\ At(k, "drained")' => At(k, "drained") \/ WriterExit(k)
<1>0. ASSUME Same PROVE Goal
  BY <1>0 DEF Open, At
<1> HIDE DEF Goal
<1>1. ASSUME NEW j \in Conn, j # k, ReaderStep(j) \/ ClientStep(j) PROVE Goal
  BY <1>0, <1>1, ReaderMoves
<1>2. CASE ReaderStep(k)
  <2>1. CASE WriterExit(k)
    BY <2>1 DEF WriterExit, Goto, At, Open, ReaderInv, Goal
  <2>2. CASE \/ RefuseTurn(k) \/ Acknowledge(k) \/ Spawn(k) \/ TrackTurn(k)
             \/ CancelAbort(k) \/ CancelRelease(k) \/ CancelQueue(k) \/ CancelArm(k)
             \/ SessionFlag(k) \/ SessionAbort(k) \/ Notify(k) \/ StopReader(k)
    BY <2>2 DEF RefuseTurn, Acknowledge, Spawn, TrackTurn, CancelAbort, CancelRelease,
       CancelQueue, CancelArm, SessionFlag, SessionAbort, Notify, StopReader, Goto, At, Open,
       ReaderInv, Goal
  <2> QED BY <1>2, <2>1, <2>2 DEF ReaderStep
<1>3. CASE ClientStep(k)
  <2>1. Open(k) /\ reader'[k].at # "drained"
    BY <1>3 DEF ClientStep, CancelOwn, Disconnect, RejectBusy, SendMessage, ConfirmContinuation,
       ClaimTurn, CancelBySession, Takes, Goto, At, Open, ReaderInv
  <2> QED BY <2>1 DEF Goal, At
<1>4. ASSUME NEW j \in Conn, Write(j) PROVE Goal
  BY <1>0, <1>4 DEF Write, connVars
<1>5. ASSUME NEW t \in Token, AgentEvent(t) \/ Translate(t) \/ TaskStep(t) PROVE Goal
  <2>1. UNCHANGED connVars
    BY <1>5, TaskKeepsReaders
  <2> QED BY <1>0, <2>1 DEF connVars
<1>6. ASSUME Shutdown \/ UNCHANGED vars PROVE Goal
  <2>1. UNCHANGED connVars
    BY <1>6 DEF Shutdown, vars
  <2> QED BY <1>0, <2>1 DEF connVars
<1>7. ASSUME NEW j \in Conn, ReaderStep(j) \/ ClientStep(j) PROVE Goal
  <2>1. CASE j = k
    BY <1>2, <1>3, <1>7, <2>1 DEF Goal
  <2> QED BY <1>1, <1>7, <2>1
<1>8. Goal
  BY <1>4, <1>5, <1>6, <1>7 DEF Next
<1> QED BY <1>8 DEF Goal

\* Only its own writer takes frames from the queue of an open connection.
LEMMA WireGrows ==
  ASSUME ReaderInv, WireInv, [Next]_vars, NEW k \in Conn, Open(k)'
  PROVE  Frames(k) \subseteq Frames(k)' \/ Write(k)
<1>1. CASE UNCHANGED queue
  BY <1>1 DEF Frames
<1>2. ASSUME NEW j \in Conn, ReaderStep(j) PROVE Frames(k) \subseteq Frames(k)'
  <2>1. CASE RefuseTurn(j) \/ Acknowledge(j) \/ CancelQueue(j)
    BY <2>1, ReaderSends DEF SentTo
  <2>2. CASE Notify(j)
    BY <2>2, NotifyEffect
  <2>3. CASE \/ Spawn(j) \/ TrackTurn(j) \/ CancelAbort(j) \/ CancelRelease(j) \/ CancelArm(j)
             \/ SessionFlag(j) \/ SessionAbort(j) \/ StopReader(j) \/ WriterExit(j)
    BY <2>3 DEF Spawn, TrackTurn, CancelAbort, CancelRelease, CancelArm, SessionFlag, SessionAbort,
       StopReader, WriterExit, Frames
  <2> QED BY <1>2, <2>1, <2>2, <2>3 DEF ReaderStep
<1>3. ASSUME NEW j \in Conn, ClientStep(j) PROVE Frames(k) \subseteq Frames(k)'
  <2>1. CASE \E v \in Conv : RejectBusy(j, v)
    BY <2>1, ReaderSends DEF SentTo
  <2>2. CASE Disconnect(j)
    <3>1. j # k
      BY <2>2 DEF Disconnect, Goto, Open, ReaderInv
    <3> QED BY <2>2, <3>1, DisconnectEffect
  <2>3. CASE CancelOwn(j) \/ \E v \in Conv : \/ SendMessage(j, v) \/ ConfirmContinuation(j, v)
                                             \/ CancelBySession(j, v)
    BY <2>3 DEF CancelOwn, SendMessage, ConfirmContinuation, ClaimTurn, CancelBySession, Frames
  <2> QED BY <1>3, <2>1, <2>2, <2>3 DEF ClientStep
<1>4. ASSUME NEW j \in Conn, Write(j), j # k PROVE Frames(k) \subseteq Frames(k)'
  BY <1>4, WriteEffect
<1>5. ASSUME NEW t \in Token, AgentEvent(t) \/ Translate(t) \/ TaskStep(t)
      PROVE  Frames(k) \subseteq Frames(k)'
  <2>1. CASE UNCHANGED queue
    BY <2>1 DEF Frames
  <2>2. ASSUME NEW f, SentTo(conn[t], f) PROVE Frames(k) \subseteq Frames(k)'
    BY <2>2 DEF SentTo
  <2> QED BY <1>5, <2>1, <2>2, TaskSends
<1>6. CASE Shutdown \/ UNCHANGED vars
  BY <1>1, <1>6 DEF Shutdown, vars
<1> QED BY <1>2, <1>3, <1>4, <1>5, <1>6 DEF Next

\* What an open connection's client was told, or is about to be, is not lost:
\* the gate drops frames only once `cancelled` is among them.
LEMMA ToldStays ==
  ASSUME ReaderInv, WireInv, AnswerInv, [Next]_vars, NEW t \in Token, NEW k \in Conn,
         conn[t] = k, conn'[t] = k, Open(k)'
  PROVE  /\ Told(t, {"cancelled"}) => Told(t, {"cancelled"})'
         /\ Told(t, Terminal) => Told(t, Terminal)'
<1>0. got[t] \subseteq got'[t] /\ Open(k)
  BY GotGrows, StaysShut
<1>1. CASE Frames(k) \subseteq Frames(k)'
  <2>1. \A f \in Frames(conn[t]) : f \in Frames(conn[t])'
    BY <1>1 DEF Frames
  <2> QED BY <1>0, <2>1 DEF Told
<1>2. CASE Write(k)
  <2>1. PICK f \in Frame :
          /\ Frames(k) = Frames(k)' \cup {f}
          /\ \A u \in Token :
               got'[u] = IF /\ f.kind = "cancelled" \/ slot[k] # u
                            /\ f.turn = u /\ conn[u] = k
                            /\ f.kind \notin {"ack", "stream"}
                         THEN got[u] \cup {f.kind} ELSE got[u]
    BY <1>2, WriteEffect
  <2>2. /\ Frames(conn[t]) = Frames(k) /\ Frames(conn[t])' = Frames(k)'
        /\ \A g \in Frames(k) : g \in Frames(k)' \/ g = f
    BY <2>1 DEF Frames
  <2>3. f.turn = t /\ f.kind = "cancelled" => "cancelled" \in got'[t]
    BY <2>1
  <2>4. Told(t, {"cancelled"}) => Told(t, {"cancelled"})'
    BY <1>0, <2>2, <2>3 DEF Told
  <2>5. "cancelled" \in Terminal /\ "ack" \notin Terminal /\ "stream" \notin Terminal
    BY DEF Terminal
  <2>6. CASE slot[k] = t
    <3>1. Told(t, {"cancelled"})'
      BY <1>0, <2>4, <2>6 DEF AnswerInv
    <3> QED BY <2>4, <2>5, <3>1 DEF Told
  <2>7. CASE slot[k] # t
    <3>1. f.turn = t /\ f.kind \in Terminal => f.kind \in got'[t]
      BY <2>1, <2>5, <2>7
    <3> QED BY <1>0, <2>2, <2>4, <3>1 DEF Told
  <2> QED BY <2>6, <2>7
<1> QED BY <1>1, <1>2, WireGrows

\* A reader that owes a client `cancelled` does nothing else first.
LEMMA ReaderGoes ==
  ASSUME ReaderInv, [Next]_vars, NEW j \in Conn,
         reader[j].at \in {"flagged", "aborted", "released", "queued"} \cup SessionCancel
  PROVE  \/ reader'[j] = reader[j]
         \/ CancelAbort(j) \/ CancelRelease(j) \/ CancelQueue(j) \/ CancelArm(j)
         \/ SessionFlag(j) \/ SessionAbort(j) \/ Notify(j)
<1>1. ASSUME NEW k \in Conn, ReaderStep(k) \/ ClientStep(k)
      PROVE  \/ reader'[j] = reader[j]
             \/ CancelAbort(j) \/ CancelRelease(j) \/ CancelQueue(j) \/ CancelArm(j)
             \/ SessionFlag(j) \/ SessionAbort(j) \/ Notify(j)
  <2>1. CASE k # j
    BY <1>1, <2>1, ReaderMoves
  <2>2. CASE k = j
    <3>1. ~ClientStep(j)
      BY DEF ClientStep, CancelOwn, Disconnect, RejectBusy, SendMessage, ConfirmContinuation,
         ClaimTurn, CancelBySession, Takes, At, SessionCancel
    <3>2. ~(RefuseTurn(j) \/ Acknowledge(j) \/ Spawn(j) \/ TrackTurn(j) \/ StopReader(j) \/ WriterExit(j))
      BY DEF RefuseTurn, Acknowledge, Spawn, TrackTurn, StopReader, WriterExit, At, SessionCancel
    <3> QED BY <1>1, <2>2, <3>1, <3>2 DEF ReaderStep
  <2> QED BY <2>1, <2>2
<1>2. ASSUME NEW k \in Conn, Write(k) PROVE reader'[j] = reader[j]
  BY <1>2 DEF Write, connVars
<1>3. ASSUME NEW t \in Token, AgentEvent(t) \/ Translate(t) \/ TaskStep(t) PROVE reader'[j] = reader[j]
  <2>1. UNCHANGED connVars
    BY <1>3, TaskKeepsReaders
  <2> QED BY <2>1 DEF connVars
<1>4. CASE Shutdown \/ UNCHANGED vars
  BY <1>4 DEF Shutdown, vars, connVars
<1> QED BY <1>1, <1>2, <1>3, <1>4 DEF Next

\* A cancel puts its frame into the queue of the turn's connection.
LEMMA CancelTells ==
  ASSUME ReaderInv, WireInv, NEW t \in Token, NEW k \in Conn, conn[t] = k, conn'[t] = k, Open(k),
         \/ CancelQueue(k) /\ reader[k].turn = t
         \/ \E j \in Conn : Notify(j) /\ reader[j].turn = t
  PROVE  Told(t, {"cancelled"})'
<1>0. Frames(conn[t])' = Frames(k)'
  BY DEF Frames
<1>1. CASE CancelQueue(k) /\ reader[k].turn = t
  <2>1. PICK c \in Kind : c = "cancelled"
    BY DEF Kind
  <2>2. queue' = Sent(k, c, t)
    BY <1>1, <2>1 DEF CancelQueue
  <2>3. SentTo(k, [kind |-> c, turn |-> t])
    BY <2>2, SendAdds
  <2>4. [kind |-> c, turn |-> t] \in Frames(k)'
    BY <2>3 DEF SentTo
  <2> QED BY <1>0, <2>1, <2>4 DEF Told
<1>2. ASSUME NEW j \in Conn, Notify(j), reader[j].turn = t PROVE Told(t, {"cancelled"})'
  <2>1. \E f \in Frames(conn[t])' : f.turn = t /\ f.kind = "cancelled"
    BY <1>2, NotifyEffect
  <2> QED BY <2>1 DEF Told
<1> QED BY <1>1, <1>2

\* A client that waits for `cancelled` goes on waiting or gets it.
LEMMA WaitsStays ==
  ASSUME ReaderInv, WireInv, [Next]_vars, NEW t \in Token, NEW k \in Conn,
         conn[t] = k, conn'[t] = k, Open(k)', Waits(t)
  PROVE  Waits(t)' \/ Told(t, {"cancelled"})'
<1>0. Open(k)
  BY StaysShut
<1>1. CASE reader[k].at \in {"flagged", "aborted", "released"} /\ reader[k].turn = t
  <2>1. CASE reader'[k] = reader[k]
    BY <1>1, <2>1 DEF Waits
  <2>2. CASE CancelAbort(k) \/ CancelRelease(k)
    <3>1. reader'[k].at \in {"aborted", "released"} /\ reader'[k].turn = t
      BY <1>1, <2>2 DEF CancelAbort, CancelRelease, Goto, ReaderInv
    <3> QED BY <3>1 DEF Waits
  <2>3. CASE CancelQueue(k)
    BY <1>0, <1>1, <2>3, CancelTells
  <2>4. ~CancelArm(k) /\ ~SessionFlag(k) /\ ~SessionAbort(k) /\ ~Notify(k)
    BY <1>1 DEF CancelArm, SessionFlag, SessionAbort, Notify, At
  <2> QED BY <1>1, <2>1, <2>2, <2>3, <2>4, ReaderGoes
<1>2. ASSUME NEW j \in Conn, reader[j].at \in SessionCancel, reader[j].turn = t
      PROVE  Waits(t)' \/ Told(t, {"cancelled"})'
  <2>1. CASE reader'[j] = reader[j]
    BY <1>2, <2>1 DEF Waits
  <2>2. CASE Notify(j)
    BY <1>0, <1>2, <2>2, CancelTells
  <2>3. ~CancelAbort(j) /\ ~CancelRelease(j) /\ ~CancelQueue(j) /\ ~CancelArm(j)
    BY <1>2 DEF CancelAbort, CancelRelease, CancelQueue, CancelArm, At, SessionCancel
  <2>4. CASE SessionFlag(j) \/ SessionAbort(j)
    <3>1. reader'[j].at \in SessionCancel /\ reader'[j].turn = t
      BY <1>2, <2>4 DEF SessionFlag, SessionAbort, Goto, ReaderInv, SessionCancel
    <3> QED BY <3>1 DEF Waits
  <2> QED BY <1>2, <2>1, <2>2, <2>3, <2>4, ReaderGoes
<1> QED BY <1>1, <1>2 DEF Waits

\* A flag is raised by a reader that goes on to tell the client.
LEMMA FlagsWait ==
  ASSUME ReaderInv, AbortInv, HandedInv, [Next]_vars, NEW t \in Token, cancelled'[t], ~cancelled[t]
  PROVE  Waits(t)'
<1>0. cancelled' # cancelled
  OBVIOUS
<1>1. ASSUME NEW k \in Conn, ReaderStep(k), ~SessionFlag(k) PROVE UNCHANGED cancelled
  BY <1>1 DEF ReaderStep, RefuseTurn, Acknowledge, Spawn, TrackTurn, CancelAbort, CancelRelease,
     CancelQueue, CancelArm, SessionAbort, Notify, StopReader, WriterExit, registryVars,
     DropClaim, SpawnTurn, SetAbort, LocalAbort, LocalRelease, AbortRemoved
<1>2. ASSUME NEW k \in Conn, CancelOwn(k) PROVE Waits(t)'
  <2>0. PICK u : u = current[k]
    OBVIOUS
  <2>1. u \in Token /\ conn[u] = k /\ conn' = conn
    BY <1>2, <2>0 DEF CancelOwn, Tracks, ReaderInv, HandedInv
  <2>2. cancelled' = [cancelled EXCEPT ![u] = TRUE] /\ Goto(k, "flagged", u)
    BY <1>2, <2>0 DEF CancelOwn, LocalCancel
  <2>3. t = u
    BY <2>1, <2>2 DEF AbortInv
  <2>4. reader'[k].at = "flagged" /\ reader'[k].turn = u
    BY <2>2 DEF Goto, ReaderInv
  <2> QED BY <2>1, <2>3, <2>4 DEF Waits
<1>3. ASSUME NEW k \in Conn, SessionFlag(k) PROVE Waits(t)'
  <2>0. PICK u : u = reader[k].turn
    OBVIOUS
  <2>1. u \in Token
    BY <1>3, <2>0, HandlersTurn DEF SessionFlag, At, Handling
  <2>2. cancelled' = [cancelled EXCEPT ![u] = TRUE] /\ Goto(k, "raised", u)
    BY <1>3, <2>0 DEF SessionFlag, RaiseFlag
  <2>3. t = u
    BY <2>1, <2>2 DEF AbortInv
  <2>4. reader'[k].at \in SessionCancel /\ reader'[k].turn = u
    BY <2>2 DEF Goto, ReaderInv, SessionCancel
  <2> QED BY <2>3, <2>4 DEF Waits
<1>4. ASSUME NEW k \in Conn, NEW v \in Conv,
             \/ Disconnect(k) \/ RejectBusy(k, v) \/ SendMessage(k, v) \/ ConfirmContinuation(k, v)
             \/ CancelBySession(k, v)
      PROVE  UNCHANGED cancelled
  BY <1>4 DEF Disconnect, RejectBusy, SendMessage, ConfirmContinuation, ClaimTurn, TryReserve,
     CancelBySession, CancelConversation, registryVars
<1>5. ASSUME NEW k \in Conn, Write(k) \/ Disconnect(k) PROVE UNCHANGED cancelled
  BY <1>5 DEF Write, Disconnect, registryVars
<1>6. ASSUME NEW u \in Token, AgentEvent(u) \/ Translate(u) \/ TaskStep(u) PROVE UNCHANGED cancelled
  <2>1. EndTurn(u) \/ UNCHANGED registryVars
    BY <1>6, TaskUsesRegistry
  <2> QED BY <2>1 DEF EndTurn, registryVars
<1>7. ASSUME Shutdown \/ UNCHANGED vars PROVE UNCHANGED cancelled
  BY <1>7 DEF Shutdown, vars, registryVars
<1> QED BY <1>0, <1>1, <1>2, <1>3, <1>4, <1>5, <1>6, <1>7 DEF Next, ClientStep

\* A reader's step ends a turn only by refusing it.
LEMMA ReadersEnd ==
  ASSUME ReaderInv, AbortInv, NEW k \in Conn, ReaderStep(k) \/ ClientStep(k), NEW t \in Token,
         state'[t] = "ended", state[t] # "ended"
  PROVE  RefuseTurn(k) /\ reader[k].turn = t
<1>1. CASE RefuseTurn(k)
  <2>1. state' = [state EXCEPT ![reader[k].turn] = "ended"]
    BY <1>1 DEF RefuseTurn, DropClaim
  <2> QED BY <1>1, <2>1 DEF AbortInv
<1>2. CASE \/ Acknowledge(k) \/ Spawn(k) \/ TrackTurn(k) \/ CancelAbort(k) \/ CancelRelease(k)
           \/ CancelQueue(k) \/ CancelArm(k) \/ SessionFlag(k) \/ SessionAbort(k) \/ Notify(k)
           \/ StopReader(k) \/ WriterExit(k)
  BY <1>2 DEF Acknowledge, Spawn, TrackTurn, CancelAbort, CancelRelease,
     CancelQueue, CancelArm, SessionFlag, SessionAbort, Notify, StopReader, WriterExit,
     registryVars,
     SpawnTurn, SetAbort, LocalAbort, LocalRelease, RaiseFlag, AbortRemoved, AbortInv
<1>3. CASE CancelOwn(k) \/ Disconnect(k)
  BY <1>3 DEF CancelOwn, LocalCancel, Disconnect, registryVars
<1>4. ASSUME NEW v \in Conv,
             RejectBusy(k, v) \/ SendMessage(k, v) \/ ConfirmContinuation(k, v) \/ CancelBySession(k, v)
      PROVE  FALSE
  BY <1>4 DEF RejectBusy, SendMessage, ConfirmContinuation, CancelBySession, ClaimTurn,
     TryReserve, CancelConversation, registryVars, AbortInv
<1> QED BY <1>1, <1>2, <1>3, <1>4 DEF ReaderStep, ClientStep

\* A send on an open connection tells.
LEMMA SendTells ==
  ASSUME WireInv, NEW t \in Token, NEW k \in Conn, conn'[t] = k, Open(k),
         NEW kind \in Terminal, queue' = Sent(k, kind, t)
  PROVE  Told(t, Terminal)'
<1>1. kind \in Kind
  BY DEF Terminal, Kind
<1>2. SentTo(k, [kind |-> kind, turn |-> t])
  BY <1>1, SendAdds
<1>3. [kind |-> kind, turn |-> t] \in Frames(k)'
  BY <1>2 DEF SentTo
<1>4. Frames(conn[t])' = Frames(k)'
  BY DEF Frames
<1> QED BY <1>3, <1>4 DEF Told

\* A turn ends by telling its client, or with its flag up.
LEMMA EndsTold ==
  ASSUME ReaderInv, AbortInv, WireInv, HandedInv, [Next]_vars, NEW t \in Token, NEW k \in Conn,
         conn[t] = k, conn'[t] = k, Open(k)', state'[t] = "ended", state[t] # "ended"
  PROVE  cancelled[t] \/ Told(t, Terminal)'
<1>0. Open(k) /\ {"refused", "final", "failure"} \subseteq Terminal
  BY StaysShut DEF Terminal
<1>1. ASSUME NEW j \in Conn, ReaderStep(j) \/ ClientStep(j) PROVE Told(t, Terminal)'
  <2>1. RefuseTurn(j) /\ reader[j].turn = t
    BY <1>1, ReadersEnd
  <2>2. conn[t] = j
    BY <2>1, HandlersTurn DEF RefuseTurn, At, Handling, SessionCancel
  <2>3. PICK kind \in Terminal : kind = "refused"
    BY <1>0
  <2>4. queue' = Sent(k, kind, t)
    BY <2>1, <2>2, <2>3 DEF RefuseTurn
  <2> QED BY <1>0, <2>4, SendTells
<1>2. ASSUME NEW u \in Token, AgentEvent(u) \/ Translate(u) \/ TaskStep(u)
      PROVE  cancelled[t] \/ Told(t, Terminal)'
  <2>1. EndTurn(u) \/ UNCHANGED registryVars
    BY <1>2, TaskUsesRegistry
  <2>2. EndTurn(u) /\ t = u
    BY <2>1 DEF EndTurn, registryVars, AbortInv
  <2>3. ~AgentEvent(u) /\ ~Translate(u)
    BY <2>2 DEF AgentEvent, Translate, registryVars
  <2>4. ASSUME NEW p, NEW q, Advance(u, p, q) PROVE FALSE
    BY <2>2, <2>4 DEF Advance, registryVars
  <2>5. EmitResponse(t) \/ EmitError(t) \/ QuietReturn(t) \/ DropAborted(t)
    BY <1>2, <2>2, <2>3, <2>4 DEF TaskStep, PersistReply, JudgeDone, TurnFails, EnterTail,
       StepWritten, OtpGate, OfferOtp, OtpDelivered, FinalCheck, EnterErrorTail, PersistTurnError
  <2>6. CASE QuietReturn(t) \/ DropAborted(t)
    BY <2>6 DEF QuietReturn, DropAborted, AbortInv
  <2>7. CASE EmitResponse(t) \/ EmitError(t)
    <3>1. PICK kind \in Terminal : queue' = Sent(k, kind, t)
      BY <1>0, <2>7 DEF EmitResponse, EmitError, Emitted
    <3> QED BY <1>0, <3>1, SendTells
  <2> QED BY <2>5, <2>6, <2>7
<1>3. ASSUME NEW j \in Conn, Write(j) PROVE FALSE
  BY <1>3 DEF Write, registryVars
<1>4. CASE Shutdown \/ UNCHANGED vars
  BY <1>4 DEF Shutdown, vars, registryVars
<1> QED BY <1>1, <1>2, <1>3, <1>4 DEF Next

\* A turn keeps its connection; a new one starts uncancelled on an open one.
LEMMA ConnStays ==
  ASSUME ReaderInv, AbortInv, WireInv, HandedInv, [Next]_vars, NEW t \in Token
  PROVE  \/ conn'[t] = conn[t]
         \/ /\ conn[t] \notin Conn /\ state'[t] = "claimed" /\ ~cancelled'[t]
            /\ \E k \in Conn : conn'[t] = k /\ reader'[k].at = "reserved"
<1>1. CASE UNCHANGED conn
  BY <1>1
<1>2. ASSUME NEW k \in Conn, NEW v \in Conv, ClaimTurn(k, v)
      PROVE  \/ conn'[t] = conn[t]
             \/ /\ conn[t] \notin Conn /\ state'[t] = "claimed" /\ ~cancelled'[t]
                /\ conn'[t] = k /\ reader'[k].at = "reserved"
  <2>0. PICK n : n = next_token
    OBVIOUS
  <2>1. n \in Token /\ n >= next_token /\ ~(n < next_token)
    BY <1>2, <2>0, ConstantsAssumption, ConnectionAssumption, TokenFacts DEF ClaimTurn,
                                        TryReserve, ReaderInv
  <2>2. /\ conn' = [conn EXCEPT ![n] = k] /\ state' = [state EXCEPT ![n] = "claimed"]
        /\ cancelled' = cancelled /\ reader'[k].at = "reserved"
    BY <1>2, <2>0 DEF ClaimTurn, TryReserve, Goto, ReaderInv
  <2>3. CASE t = n
    BY <2>1, <2>2, <2>3 DEF HandedInv, WireInv, AbortInv
  <2>4. CASE t # n
    BY <2>2, <2>4 DEF WireInv
  <2> QED BY <2>3, <2>4
<1>3. ASSUME NEW k \in Conn, ReaderStep(k) PROVE UNCHANGED conn
  BY <1>3 DEF ReaderStep, RefuseTurn, Acknowledge, Spawn, TrackTurn, CancelAbort, CancelRelease,
     CancelQueue, CancelArm, SessionFlag, SessionAbort, Notify, StopReader, WriterExit
<1>4. ASSUME NEW k \in Conn, CancelOwn(k) \/ Disconnect(k) \/ Write(k) PROVE UNCHANGED conn
  BY <1>4 DEF CancelOwn, Disconnect, Write, connVars
<1>5. ASSUME NEW k \in Conn, NEW v \in Conv, RejectBusy(k, v) \/ CancelBySession(k, v)
      PROVE  UNCHANGED conn
  BY <1>5 DEF RejectBusy, CancelBySession
<1>6. ASSUME NEW u \in Token, AgentEvent(u) \/ Translate(u) \/ TaskStep(u) PROVE UNCHANGED conn
  <2>1. UNCHANGED connVars
    BY <1>6, TaskKeepsReaders
  <2> QED BY <2>1 DEF connVars
<1>7. ASSUME Shutdown \/ UNCHANGED vars PROVE UNCHANGED conn
  BY <1>7 DEF Shutdown, vars, connVars
<1> QED BY <1>1, <1>2, <1>3, <1>4, <1>5, <1>6, <1>7
        DEF Next, ClientStep, SendMessage, ConfirmContinuation

\* The gate names the turn whose `cancelled` the reader queued before.
LEMMA GateStays ==
  ASSUME ReaderInv, WireInv, [Next]_vars, NEW k \in Conn
  PROVE  /\ slot'[k] \in {slot[k], None} \/ (CancelArm(k) /\ slot'[k] = reader[k].turn)
         /\ reader'[k].at = "queued" => reader'[k] = reader[k] \/ CancelQueue(k)
<1> DEFINE Goal == /\ slot'[k] \in {slot[k], None} \/ (CancelArm(k) /\ slot'[k] = reader[k].turn)
                   /\ reader'[k].at = "queued" => reader'[k] = reader[k] \/ CancelQueue(k)
<1>0. ASSUME UNCHANGED connVars PROVE Goal
  BY <1>0 DEF connVars
<1>1. ASSUME NEW j \in Conn, ReaderStep(j) PROVE Goal
  <2>1. CASE TrackTurn(j)
    BY <2>1 DEF TrackTurn, Goto, ReaderInv, WireInv
  <2>2. CASE CancelArm(j)
    BY <2>2 DEF CancelArm, Goto, ReaderInv, WireInv
  <2>3. CASE \/ RefuseTurn(j) \/ Acknowledge(j) \/ Spawn(j) \/ CancelAbort(j) \/ CancelRelease(j)
             \/ SessionFlag(j) \/ SessionAbort(j) \/ Notify(j) \/ StopReader(j) \/ WriterExit(j)
    BY <2>3 DEF RefuseTurn, Acknowledge, Spawn, CancelAbort, CancelRelease, SessionFlag,
       SessionAbort, Notify, StopReader, WriterExit, Goto, ReaderInv
  <2>4. CASE CancelQueue(j)
    BY <2>4 DEF CancelQueue, Goto, ReaderInv
  <2> QED BY <1>1, <2>1, <2>2, <2>3, <2>4 DEF ReaderStep
<1>2. ASSUME NEW j \in Conn, ClientStep(j) PROVE Goal
  BY <1>2 DEF ClientStep, CancelOwn, Disconnect, RejectBusy, SendMessage, ConfirmContinuation,
     ClaimTurn, CancelBySession, Goto, ReaderInv
<1> HIDE DEF Goal
<1>3. ASSUME NEW j \in Conn, Write(j) PROVE Goal
  BY <1>0, <1>3 DEF Write
<1>4. ASSUME NEW t \in Token, AgentEvent(t) \/ Translate(t) \/ TaskStep(t) PROVE Goal
  BY <1>0, <1>4, TaskKeepsReaders
<1>5. ASSUME Shutdown \/ UNCHANGED vars PROVE Goal
  BY <1>0, <1>5 DEF Shutdown, vars
<1>6. Goal
  BY <1>1, <1>2, <1>3, <1>4, <1>5 DEF Next
<1> QED BY <1>6 DEF Goal

\* A writer that exits leaves nobody unanswered.
LEMMA ExitAnswered ==
  ASSUME ReaderInv, AbortInv, WireInv, HandedInv, AnswerInv, NEW k \in Conn, WriterExit(k),
         NEW t \in Token, conn[t] = k
  PROVE  got[t] \cap Terminal # {}
<1>1. /\ reader[k].at = "draining" /\ queue[k] = <<>> /\ Open(k)
      /\ ~Live(t) /\ \A j \in Conn : ~(reader[j].at \in SessionCancel /\ reader[j].turn = t)
  BY DEF WriterExit, At, HasSender, Cancels, SessionCancel, Open
<1>2. state[t] = "ended"
  <2>1. t \in Nat /\ next_token \in Nat /\ ~(t >= next_token)
    BY ConstantsAssumption, ConnectionAssumption, TokenFacts DEF ReaderInv, HandedInv
  <2>2. state[t] # "free"
    BY <2>1 DEF HandedInv
  <2> QED BY <1>1, <2>2 DEF AbortInv, Live, TurnState
<1>3. ~Waits(t)
  BY <1>1 DEF Waits
<1>4. Told(t, Terminal)
  BY <1>1, <1>2, <1>3 DEF AnswerInv, Answered
<1>5. Frames(conn[t]) = {}
  BY <1>1 DEF Frames, FramesOf
<1> QED BY <1>4, <1>5 DEF Told

\* Nobody is owed an answer yet.
LEMMA InitAnswer == Init => AnswerInv
<1> SUFFICES ASSUME Init PROVE AnswerInv
  OBVIOUS
<1>1. \A t \in Token : conn[t] \notin Conn
  BY ConstantsAssumption, ConnectionAssumption DEF Init
<1>2. \A k \in Conn : slot[k] \notin Token /\ reader[k].at = "idle"
  BY TokenFacts DEF Init
<1> QED BY <1>1, <1>2 DEF AnswerInv, DrainCompletes, At

\* Every step keeps every client told, or about to be.
LEMMA StepAnswer ==
  ASSUME ReaderInv, AbortInv, WireInv, HandedInv, AnswerInv, [Next]_vars, HandedInv'
  PROVE  AnswerInv'
<1>0. "cancelled" \in Terminal
  BY DEF Terminal
<1>1. ASSUME NEW t \in Token, conn'[t] \in Conn, Open(conn[t])' PROVE (Noticed(t) /\ Answered(t))'
  <2>0. PICK k \in Conn : k = conn'[t]
    BY <1>1
  <2>1. Open(k)' /\ Open(k)
    BY <1>1, <2>0, StaysShut DEF Open
  <2>2. CASE conn'[t] # conn[t]
    BY <2>2, ConnStays DEF Noticed, Answered
  <2>3. CASE conn'[t] = conn[t]
    <3>1. conn[t] = k /\ conn'[t] = k
      BY <2>0, <2>3
    <3>2. Noticed(t) /\ Answered(t)
      BY <2>1, <3>1 DEF AnswerInv
    <3>3. /\ Told(t, {"cancelled"}) => Told(t, {"cancelled"})'
          /\ Told(t, Terminal) => Told(t, Terminal)'
      BY <2>1, <3>1, ToldStays
    <3>4. Waits(t) => Waits(t)' \/ Told(t, {"cancelled"})'
      BY <2>1, <3>1, WaitsStays
    <3>5. Told(t, {"cancelled"})' => Told(t, Terminal)'
      BY <1>0 DEF Told
    <3>6. cancelled[t] => Told(t, {"cancelled"})' \/ Waits(t)'
      BY <3>2, <3>3, <3>4 DEF Noticed
    <3>7. cancelled'[t] => Told(t, {"cancelled"})' \/ Waits(t)'
      BY <3>6, FlagsWait
    <3>8. state'[t] = "ended" => Told(t, Terminal)' \/ Waits(t)'
      <4>1. CASE state[t] = "ended"
        BY <3>2, <3>3, <3>4, <3>5, <4>1 DEF Answered
      <4>2. CASE state[t] # "ended" /\ state'[t] = "ended"
        BY <2>1, <3>1, <3>5, <3>6, <4>2, EndsTold
      <4> QED BY <4>1, <4>2
    <3> QED BY <3>7, <3>8 DEF Noticed, Answered
  <2> QED BY <2>2, <2>3
<1>2. ASSUME NEW k \in Conn, NEW t \in Token, Open(k)', slot'[k] = t PROVE Told(t, {"cancelled"})'
  <2>1. conn'[t] = k
    BY <1>2 DEF HandedInv
  <2>2. slot[k] = t \/ (CancelArm(k) /\ reader[k].turn = t)
    BY <1>2, TokenFacts, GateStays
  <2>3. conn[t] = k
    BY <2>2, HandlersTurn DEF HandedInv, CancelArm, At, Handling, SessionCancel
  <2>4. Told(t, {"cancelled"})
    BY <1>2, <2>2, StaysShut DEF AnswerInv, CancelArm, At
  <2> QED BY <1>2, <2>1, <2>3, <2>4, ToldStays
<1>3. ASSUME NEW k \in Conn, NEW t \in Token, reader'[k].at = "queued", reader'[k].turn = t
      PROVE  Told(t, {"cancelled"})'
  <2>1. conn'[t] = k
    BY <1>3 DEF HandedInv, Handling, SessionCancel
  <2>2. Open(k)' /\ Open(k)
    BY <1>3, StaysShut DEF Open
  <2>3. CASE reader'[k] = reader[k]
    <3>1. conn[t] = k /\ Told(t, {"cancelled"})
      BY <1>3, <2>3 DEF HandedInv, Handling, SessionCancel, AnswerInv
    <3> QED BY <2>1, <2>2, <3>1, ToldStays
  <2>4. CASE CancelQueue(k)
    <3>1. reader[k].turn = t /\ conn[t] = k
      BY <1>3, <2>1, <2>4 DEF CancelQueue, Goto, ReaderInv
    <3> QED BY <2>1, <2>2, <2>4, <3>1, CancelTells
  <2> QED BY <1>3, <2>3, <2>4, GateStays
<1>4. ASSUME NEW k \in Conn, NEW t \in Token, reader'[k].at = "drained", conn'[t] = k
      PROVE  got'[t] \cap Terminal # {}
  <2>1. conn[t] = k
    BY <1>4, ConnStays
  <2>2. got[t] \cap Terminal # {}
    <3>1. reader[k].at = "drained" \/ WriterExit(k)
      BY <1>4, StaysShut DEF At
    <3> QED BY <2>1, <3>1, ExitAnswered DEF AnswerInv, DrainCompletes, At
  <2> QED BY <2>2, GotGrows
<1>5. (DrainCompletes)'
  BY <1>4 DEF DrainCompletes, At
<1> QED BY <1>1, <1>2, <1>3, <1>5 DEF AnswerInv

\* A connection that drained for a shutdown has told the client of every turn
\* started on it how the turn ended: the writer waits for the turns, their
\* translators and the readers that still owe a `cancelled`, and the gate
\* swallows an answer only after `cancelled`.
THEOREM DrainsComplete == Spec => []DrainCompletes
<1>1. Init => TurnInv /\ AnswerInv
  BY InitReaderInv, InitOutcome, InitTail, InitAnswer DEF TurnInv
<1>2. TurnInv /\ AnswerInv /\ [Next]_vars => (TurnInv /\ AnswerInv)'
  <2> SUFFICES ASSUME TurnInv, AnswerInv, [Next]_vars PROVE TurnInv' /\ AnswerInv'
    OBVIOUS
  <2>1. ReaderInv /\ AbortInv /\ OutcomeInv /\ WireInv /\ HandedInv /\ TailInv
    BY DEF TurnInv
  <2>2. ReaderInv' /\ AbortInv' /\ OutcomeInv' /\ WireInv' /\ HandedInv' /\ TailInv'
    BY <2>1, StepReaderInv, StepOutcome, StepWire, StepHanded, StepTail
  <2> QED BY <2>1, <2>2, StepAnswer DEF TurnInv
<1>3. AnswerInv => DrainCompletes
  BY DEF AnswerInv
<1> QED BY <1>1, <1>2, <1>3, PTL DEF Spec
===============================================================================

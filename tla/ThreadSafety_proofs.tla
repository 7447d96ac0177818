------------------------- MODULE ThreadSafety_proofs -------------------------
(***************************************************************************)
(* The turns of a conversation, for every set of turns, runs and items:    *)
(* one terminal outcome per turn, the session and the run follow the turn  *)
(* admitted last, revisions and continuations form a line, and the queue's *)
(* revision covers what a client sees.                                     *)
(***************************************************************************)
EXTENDS ThreadService_proofs, TurnAgreement_proofs

-----------------------------------------------------------------------------
(* The transactions a step of the service may make. *)

(* A refused request may create the state row. *)
CreatesRow ==
  /\ ~queueRow
  /\ UNCHANGED <<sessionVars, lineageVars, admissionVars, runStatus, events,
                 inputVars, nextOrder, revision, paused>>

Transaction ==
  \/ UNCHANGED tableVars
  \/ CreatesRow
  \/ \E t \in Turns : \E r \in Turns \cup {NULL} : Reserve(t, r)
  \/ \E t \in Turns : AdmitWithPrompt(t)
  \/ \E t, p \in Turns : AdmitContinuation(t, p)
  \/ \E i \in Items : \E v, n \in Nat : \E e \in BOOLEAN :
       ReserveQueuedStart(i, v, n, e)
  \/ \E t \in Turns : \E c \in {"runtime", "dispatcher"} : ClaimExecution(t, c)
  \/ \E t \in Turns : MarkRecoveryRequired(t, executionClaim[t])
  \/ \E i \in Items : \E d \in {"queue", "steer"} : \E t \in Turns \cup {NULL} :
       Enqueue(i, d, t)
  \/ \E i \in Items : \E v \in Nat :
       \/ Update(i, v) \/ Remove(i, v)
       \/ RecordReceipt(i, v, "conflict", "cancelled")
       \/ \E t \in Turns : ClaimForSteering(i, v, t)
  \/ \E t \in Turns : AppendStarted(t) \/ RetryTerminal(t)
  \/ \E t \in Turns : \E i \in Items :
       AppendAccepted(t, i) \/ \E a \in Nat : AppendApplied(t, i, a)
  \/ \E t \in Turns : \E type \in TerminalTypes :
       AppendTerminal(t, type) \/ AppendEmptySettlement(t, type)

(* A statement of POST /api/sessions. *)
SaveTransaction == \E r : EnsureSession(r) \/ EnsureRun(r)

(* A save makes its statement and says so. *)
LEMMA SaveIsTransaction ==
  ASSUME TypeInv, SaveNext
  PROVE  Transaction \/ (SaveTransaction /\ saveStep' # saveStep)
<1>0. saveStep \in [Saves -> {"unsent", "session", "run", "done"}]
  BY DEF TypeInv, ProcessTypeOK
<1>1. PICK p \in Saves :
        SaveSession(p) \/ SaveRun(p) \/ SaveActiveRun(p) \/ SaveGivesUp(p)
  BY DEF SaveNext
<1>2. ASSUME SaveSession(p) \/ SaveRun(p) \/ SaveActiveRun(p)
      PROVE  SaveTransaction /\ saveStep' # saveStep
  <2>1. SaveTransaction
    BY <1>2 DEF SaveSession, SaveRun, SaveActiveRun, SaveTransaction
  <2>2. saveStep'[p] # saveStep[p]
    BY <1>0, <1>2 DEF SaveSession, SaveRun, SaveActiveRun
  <2>3. QED
    BY <2>1, <2>2
<1>3. SaveGivesUp(p) => Transaction
  BY DEF SaveGivesUp, Transaction
<1>4. QED
  BY <1>1, <1>2, <1>3

(* Every other step of the service makes at most one transaction of the    *)
(* tables.                                                                 *)
LEMMA NextIsTransaction ==
  ASSUME TypeInv, [Next]_vars
  PROVE  Transaction \/ (SaveTransaction /\ saveStep' # saveStep)
<1> USE TablesAssumption, ServiceAssumption
<1>0. /\ FailingTurns \subseteq Turns /\ SteeredItems \subseteq Items
      /\ ChatTurns \subseteq Turns /\ ResumeTurns \subseteq Turns
  BY DEF ServiceAssumption, Turns
<1>1. /\ revision \in Nat
      /\ \A i \in Items : version[i] \in Nat
      /\ \A i \in Items : steering[i] \subseteq Nat /\ refused[i] \subseteq Nat
  BY DEF TypeInv, TablesTypeOK, ProcessTypeOK
<1>2. CASE ClientNext
  <2>1. ASSUME NEW t \in ChatTurns, NEW r \in Turns \cup {NULL}, StartTurn(t, r)
        PROVE  Transaction
    BY <1>0, <2>1 DEF StartTurn, Transaction
  <2>2. ASSUME NEW t \in ChatTurns, Chat(t) PROVE Transaction
    BY <1>0, <2>2 DEF Chat, Transaction
  <2>3. ASSUME NEW t \in ResumeTurns, NEW p \in Turns, Resume(t, p)
        PROVE  Transaction
    BY <1>0, <2>3 DEF Resume, Transaction
  <2>4. ASSUME NEW i \in Items, StartItem(i) PROVE Transaction
    BY <1>1, <2>4 DEF StartItem, Transaction
  <2>5. ASSUME NEW i \in Items, EnqueueItem(i) PROVE Transaction
    BY <2>5 DEF EnqueueItem, Transaction
  <2>6. ASSUME NEW i \in Items, EditItem(i) \/ RemoveItem(i) PROVE Transaction
    BY <1>1, <2>6 DEF EditItem, RemoveItem, Transaction
  <2>7. RefusedRequest => Transaction
    BY DEF RefusedRequest, CreatesRow, Transaction
  <2>8. QED
    BY <1>2, <2>1, <2>2, <2>3, <2>4, <2>5, <2>6, <2>7 DEF ClientNext
<1>3. CASE SteerNext
  <2>1. ASSUME NEW i \in SteeredItems, NEW t \in Turns, SteerNew(i, t)
        PROVE  Transaction
    BY <1>0, <2>1 DEF SteerNew, Transaction
  <2>2. ASSUME NEW i \in SteeredItems, NEW t \in Turns, SteerQueued(i, t)
        PROVE  Transaction
    BY <1>0, <1>1, <2>2 DEF SteerQueued, Transaction
  <2>3. ASSUME NEW i \in SteeredItems, NEW v \in searched[i], SteerAccepted(i, v)
        PROVE  Transaction
    <3>1. i \in Items /\ target[i] \in Turns
      BY <1>0 DEF TypeInv, SteerHolds
    <3>2. QED
      BY <2>3, <3>1 DEF SteerAccepted, Transaction
  <2>4. ASSUME NEW i \in SteeredItems, NEW v \in refused[i], SteerCancel(i, v)
        PROVE  Transaction
    <3>1. i \in Items /\ v \in Nat
      BY <1>0, <1>1
    <3>2. QED
      BY <2>4, <3>1 DEF SteerCancel, Transaction
  <2>5. ASSUME NEW i \in SteeredItems, NEW v,
               \/ SteerAgain(i) \/ SteerSearches(i, v) \/ SteerRefused(i, v)
               \/ SteerUnknown(i, v) \/ SteerNotCancelled(i, v)
        PROVE  Transaction
    BY <2>5 DEF SteerAgain, SteerSearches, SteerRefused, SteerUnknown,
                SteerNotCancelled, Transaction
  <2>6. QED
    BY <1>3, <2>1, <2>2, <2>3, <2>4, <2>5 DEF SteerNext
<1>4. CASE DrainNext
  <2>1. ASSUME NEW d \in Drainers, DrainReadState(d) \/ DrainGivesUp(d)
        PROVE  Transaction
    BY <2>1 DEF DrainReadState, DrainGivesUp, Transaction
  <2>2. ASSUME NEW d \in Drainers, DrainReadInputs(d) PROVE Transaction
    BY <2>2 DEF DrainReadInputs, Transaction
  <2>3. ASSUME NEW d \in Drainers, DrainStart(d) PROVE Transaction
    <3>1. drainQueue[d] \in QueueReads /\ drainRevision[d] \in Nat
      BY DEF TypeInv, ProcessTypeOK
    <3>2. PICK i \in DOMAIN drainQueue[d] :
            ReserveQueuedStart(i, drainQueue[d][i], drainRevision[d], FALSE)
      BY <2>3 DEF DrainStart
    <3>3. i \in Items /\ drainQueue[d][i] \in Nat
      BY <3>1, QueueReadsType DEF TypeInv
    <3>4. QED
      BY <3>1, <3>2, <3>3 DEF Transaction
  <2>4. QED
    BY <1>4, <2>1, <2>2, <2>3 DEF DrainNext
<1>5. CASE TurnNext
  <2>1. ASSUME NEW t \in Turns,
               RuntimeClaims(t) \/ DispatcherClaims(t) \/ StartupMarks(t)
        PROVE  Transaction
    BY <2>1 DEF RuntimeClaims, DispatcherClaims, StartupMarks, Transaction
  <2>2. ASSUME NEW t \in Turns,
               \/ RuntimeBegins(t) \/ RuntimeRegisters(t) \/ RuntimeFails(t)
               \/ StopFindsNoOwner(t) \/ StopReads(t) \/ StopGivesUp(t)
               \/ Crash(t)
        PROVE  Transaction
    BY <2>2 DEF RuntimeBegins, RuntimeRegisters, RuntimeFails, StopFindsNoOwner,
                StopReads, StopGivesUp, Crash, Transaction
  <2>3. ASSUME NEW t \in Turns, RuntimeStarts(t) \/ RuntimeRetries(t)
        PROVE  Transaction
    BY <2>3 DEF RuntimeStarts, RuntimeRetries, Transaction
  <2>4. ASSUME NEW t \in Turns, NEW i \in Items, NEW a \in 1..Len(events[t]),
               RuntimeApplies(t, i, a)
        PROVE  Transaction
    <3>1. a \in Nat
      BY DEF TypeInv, TablesTypeOK
    <3>2. QED
      BY <2>4, <3>1 DEF RuntimeApplies, Transaction
  <2>5. ASSUME NEW t \in Turns, NEW type \in TerminalTypes,
               RuntimeFinishes(t, type) \/ RuntimeUnacknowledged(t, type)
        PROVE  Transaction
    BY <2>5 DEF RuntimeFinishes, RuntimeUnacknowledged, Transaction
  <2>6. "turn.failed" \in TerminalTypes /\ "turn.interrupted" \in TerminalTypes
    BY DEF TerminalTypes
  <2>7. ASSUME NEW t \in Turns, NEW type \in {"turn.failed", "turn.interrupted"},
               SettleStartup(t, type)
        PROVE  Transaction
    BY <2>6, <2>7 DEF SettleStartup, Transaction
  <2>8. ASSUME NEW t \in Turns, StopSettles(t) PROVE Transaction
    BY <2>6, <2>8 DEF StopSettles, Transaction
  <2>9. QED
    BY <1>0, <1>5, <2>1, <2>2, <2>3, <2>4, <2>5, <2>7, <2>8 DEF TurnNext
<1>6. CASE UNCHANGED vars
  BY <1>6 DEF vars, Transaction
<1>7. CASE SaveNext
  BY <1>7, SaveIsTransaction
<1>8. QED
  BY <1>2, <1>3, <1>4, <1>5, <1>6, <1>7 DEF Next

-----------------------------------------------------------------------------
(* Every transaction is one of these. *)
LEMMA TransactionIsTurnStep ==
  ASSUME Unadmitted, Transaction
  PROVE  TurnStep
<1>0. \A i \in Items : QueuedTurn[i] \in Turns
  BY DEF Turns
<1>1. UNCHANGED tableVars => TurnStep
  BY DEF tableVars, turnTables, admissionVars, TurnStep
<1>2. ASSUME NEW t \in Turns, NEW r \in Turns \cup {NULL}, Reserve(t, r)
      PROVE  TurnStep
  <2>1. Reserves(t, r)
    BY <1>2 DEF Reserve, Reserves
  <2>2. QED
    BY <2>1 DEF TurnStep
<1>3. ASSUME NEW t \in Turns, AdmitWithPrompt(t) PROVE TurnStep
  <2>1. Admits(t)
    BY <1>3 DEF AdmitWithPrompt, Admits
  <2>2. QED
    BY <2>1 DEF TurnStep
<1>4. ASSUME NEW t \in Turns, NEW p \in Turns, AdmitContinuation(t, p)
      PROVE  TurnStep
  <2>1. revisionOf[t] = NULL
    BY <1>4 DEF AdmitContinuation, Unadmitted, Admitted
  <2>2. Admits(t)
    BY <1>4, <2>1 DEF AdmitContinuation, Admits
  <2>3. QED
    BY <2>2 DEF TurnStep
<1>5. ASSUME NEW i \in Items, NEW v, NEW n, NEW e, ReserveQueuedStart(i, v, n, e)
      PROVE  TurnStep
  <2> DEFINE t == QueuedTurn[i]
  <2>1. /\ admissionState[t] = "none"
        /\ Activate(t)
        /\ UNCHANGED <<events, revisionOf, continuationOf>>
    BY <1>5, Zenon DEF ReserveQueuedStart
  <2>2. t \in Turns
    BY <1>0
  <2>3. revisionOf[t] = NULL
    BY <2>1, <2>2 DEF Unadmitted, Admitted
  <2> HIDE DEF t
  <2>4. Admits(t)
    BY <2>1, <2>3 DEF Admits
  <2>5. QED
    BY <2>2, <2>4 DEF TurnStep
<1>6. ASSUME NEW t \in Turns, NEW c, ClaimExecution(t, c) PROVE TurnStep
  <2>1. Claims(t)
    BY <1>6 DEF ClaimExecution, Claims, Admitted
  <2>2. QED
    BY <2>1 DEF TurnStep
<1>7. ASSUME NEW t \in Turns, NEW c, MarkRecoveryRequired(t, c) PROVE TurnStep
  <2>1. Admitted(t)
    BY <1>7 DEF MarkRecoveryRequired, Unadmitted
  <2>2. Claims(t)
    BY <1>7, <2>1 DEF MarkRecoveryRequired, Claims
  <2>3. QED
    BY <2>2 DEF TurnStep
<1>8. \A i, d, t : Enqueue(i, d, t) => TurnStep
  BY DEF Enqueue, TurnStep, turnTables, admissionVars
<1>9. \A i, v : Update(i, v) => TurnStep
  BY DEF Update, TurnStep, turnTables, admissionVars
<1>10. \A i, v, t : ClaimForSteering(i, v, t) => TurnStep
  BY DEF ClaimForSteering, TurnStep, turnTables, admissionVars
<1>11. \A i, v : Remove(i, v) => TurnStep
  BY DEF Remove, TurnStep, turnTables, admissionVars
<1>12. \A i, v, r, s : RecordReceipt(i, v, r, s) => TurnStep
  BY DEF RecordReceipt, TurnStep, turnTables, admissionVars
<1>13. ASSUME NEW t \in Turns, AppendStarted(t) PROVE TurnStep
  <2>1. "turn.started" \in EventTypes \ TerminalTypes
    BY DEF EventTypes, TerminalTypes
  <2>2. Appends(t)
    BY <1>13, <2>1 DEF AppendStarted, Appends, admissionVars
  <2>3. QED
    BY <2>2 DEF TurnStep
<1>14. ASSUME NEW t \in Turns, NEW i \in Items, AppendAccepted(t, i)
       PROVE  TurnStep
  <2>1. "turn.input.accepted" \in EventTypes \ TerminalTypes
    BY DEF EventTypes, TerminalTypes
  <2>2. /\ AppendOne(t, "turn.input.accepted", i)
        /\ UNCHANGED <<sessionVars, lineageVars, admissionVars, runStatus>>
    BY <1>14, Zenon DEF AppendAccepted
  <2>3. Appends(t)
    BY <2>1, <2>2 DEF Appends, admissionVars
  <2>4. QED
    BY <2>3 DEF TurnStep
<1>15. ASSUME NEW t \in Turns, NEW i \in Items, NEW a, AppendApplied(t, i, a)
       PROVE  TurnStep
  <2>1. "turn.input.applied" \in EventTypes \ TerminalTypes
    BY DEF EventTypes, TerminalTypes
  <2>2. Appends(t)
    BY <1>15, <2>1 DEF AppendApplied, Appends, admissionVars
  <2>3. QED
    BY <2>2 DEF TurnStep
<1>16. ASSUME NEW t \in Turns, NEW type \in TerminalTypes, AppendTerminal(t, type)
       PROVE  TurnStep
  <2>1. Settles(t, type)
    BY <1>16 DEF AppendTerminal, Settles
  <2>2. QED
    BY <2>1 DEF TurnStep
<1>17. ASSUME NEW t \in Turns, NEW type \in TerminalTypes,
              AppendEmptySettlement(t, type)
       PROVE  TurnStep
  <2>1. Settles(t, type)
    BY <1>17 DEF AppendEmptySettlement, Settles
  <2>2. QED
    BY <2>1 DEF TurnStep
<1>18. ASSUME NEW t \in Turns, RetryTerminal(t) PROVE TurnStep
  <2>1. LastType(t) \in TerminalTypes
    BY <1>18 DEF RetryTerminal, TerminalStream
  <2>2. Settles(t, LastType(t))
    BY <1>18 DEF RetryTerminal, Settles
  <2>3. QED
    BY <2>1, <2>2 DEF TurnStep
<1>19. CreatesRow => TurnStep
  BY DEF CreatesRow, TurnStep, turnTables, admissionVars
<1>20. QED
  BY <1>1, <1>2, <1>3, <1>4, <1>5, <1>6, <1>7, <1>8, <1>9, <1>10, <1>11,
     <1>12, <1>13, <1>14, <1>15, <1>16, <1>17, <1>18, <1>19
  DEF Transaction

-----------------------------------------------------------------------------
(* A step of the service has one of the forms. *)
LEMMA NextIsTurnStep ==
  ASSUME TypeInv, TurnsInv, [Next]_vars
  PROVE  TurnStep \/ (Rewrites /\ saveStep' # saveStep)
<1>1. Transaction => TurnStep
  BY TransactionIsTurnStep DEF TurnsInv
<1>2. SaveTransaction => Rewrites
  BY DEF SaveTransaction, EnsureSession, EnsureRun, Rewrites, sessionVars,
         admissionVars
<1>3. QED
  BY <1>1, <1>2, NextIsTransaction

(* A step of the service preserves the invariant of the turns. *)
LEMMA TurnsInvStep ==
  ASSUME TypeInv, TurnsInv, [Next]_vars
  PROVE  TurnsInv'
BY NextIsTurnStep, TablesAssumption, TurnStepKeepsInv DEF TypeInv

(* The empty conversation satisfies the invariant of the turns. *)
LEMMA TurnsInvInit == Init => TurnsInv
<1> SUFFICES ASSUME Init PROVE TurnsInv
  OBVIOUS
<1> USE DEF Init, TablesInit, Admitted
<1>1. Unadmitted /\ OrdersDistinct
  BY DEF Unadmitted, OrdersDistinct
<1>2. SettledOnce
  BY DEF SettledOnce, TerminalStream, LastType, TerminalTypes
<1>3. CurrentIsLast
  BY DEF CurrentIsLast
<1>4. LinearLineage
  BY DEF LinearLineage
<1>5. QED
  BY <1>1, <1>2, <1>3, <1>4 DEF TurnsInv

(* The inductive invariant of the turns. *)
THEOREM ServiceTurnsInv == Spec => [](TypeInv /\ TurnsInv)
<1>1. Init => TypeInv /\ TurnsInv
  BY TypeInvInit, TurnsInvInit
<1>2. TypeInv /\ TurnsInv /\ [Next]_vars => (TypeInv /\ TurnsInv)'
  BY TypeInvStep, TurnsInvStep
<1>3. QED
  BY <1>1, <1>2, PTL DEF Spec

(* appendBatch writes at most one terminal event per turn, last in its     *)
(* stream, and settles the admission with it, whatever claims, retries,    *)
(* startup settlements and stops race for it.                              *)
THEOREM ServiceSettledOnce == Spec => []SettledOnce
<1>1. TurnsInv => SettledOnce
  BY DEF TurnsInv
<1>2. QED
  BY <1>1, ServiceTurnsInv, PTL

(* Apart from POST /api/sessions, the session row follows the turn         *)
(* admitted last: it moves only to a turn as that is admitted, agrees with *)
(* it from then on, and projectTerminalStatus of an earlier turn neither   *)
(* frees nor holds it.                                                     *)
THEOREM ServiceActiveTurn == Spec => ActiveTurn
<1>1. TypeInv /\ TurnsInv /\ [Next]_vars =>
        [/\ currentTurn' # currentTurn =>
              /\ admissionState[currentTurn'] # "admitted"
              /\ admissionState'[currentTurn'] = "admitted"
              /\ admissionOrder'[currentTurn'] = admissionSequence'
              /\ SessionAgrees'
         /\ saveStep' = saveStep =>
              /\ SessionAgrees => SessionAgrees'
              /\ (activeRun' # activeRun /\ currentTurn' = currentTurn) =>
                   /\ activeRun = RunOf[currentTurn] /\ activeRun' = NULL
                   /\ executionState'[currentTurn] = "settled"]_vars
  <2> SUFFICES ASSUME TypeInv, TurnsInv, [Next]_vars
               PROVE  \/ SessionFollows
                      \/ currentTurn' = currentTurn /\ saveStep' # saveStep
    BY DEF SessionFollows
  <2>1. TurnStep => SessionFollows
    BY TablesAssumption, TurnStepFollows DEF TypeInv
  <2>2. Rewrites => currentTurn' = currentTurn
    BY DEF Rewrites
  <2>3. QED
    BY <2>1, <2>2, NextIsTurnStep
<1>2. QED
  BY <1>1, ServiceTurnsInv, PTL DEF Spec, ActiveTurn

(* Apart from POST /api/sessions, runs.status follows the run's last       *)
(* admitted turn: the NOT EXISTS of SETTLE_RUN_STATUS_SQL is enough for    *)
(* every order of terminal events.                                         *)
THEOREM ServiceRunStatus == Spec => RunStatusFollowsLastTurn
<1>1. TypeInv /\ TurnsInv /\ [Next]_vars =>
        [saveStep' = saveStep =>
           \A t \in Turns :
             \/ RunAgrees(t)
             \/ executionState'[t] = "settled" /\ executionState[t] # "settled"
             => RunAgrees(t)']_vars
  <2> SUFFICES ASSUME TypeInv, TurnsInv, [Next]_vars, saveStep' = saveStep
               PROVE  RunsFollow
    BY DEF RunsFollow
  <2>1. TurnStep
    BY NextIsTurnStep
  <2>2. QED
    BY <2>1, TablesAssumption, TurnStepFollows DEF TypeInv
<1>2. QED
  BY <1>1, ServiceTurnsInv, PTL DEF Spec, RunStatusFollowsLastTurn

(* Revisions and continuations form a line: admitWithPrompt and            *)
(* admitContinuation only ever extend the turn admitted last.              *)
THEOREM ServiceLinearLineage == Spec => []LinearLineage
<1>1. TurnsInv => LinearLineage
  BY DEF TurnsInv
<1>2. QED
  BY <1>1, ServiceTurnsInv, PTL

-----------------------------------------------------------------------------
(* The revision of the queue. *)

(* A transaction that leaves the revision alone leaves alone what list     *)
(* shows.                                                                  *)
Covered ==
  queueRow =>
    \/ revision' > revision
    \/ UNCHANGED <<revision, activeRun, paused, itemState, version, delivery,
                   receipt>>

(* A positive bump of the revision covers any change of the snapshot. *)
LEMMA BumpCovers ==
  ASSUME revision \in Nat, NEW n \in Nat, n > 0, Bump(n)
  PROVE  Covered
BY DEF Bump, Covered

(* A transaction that changes the snapshot of a stored row moves the revision. *)
LEMMA TransactionIsCovered ==
  ASSUME TablesTypeOK, Transaction
  PROVE  Covered
<1> USE TablesAssumption
<1>0. revision \in Nat
  BY DEF TablesTypeOK
<1>1. UNCHANGED tableVars => Covered
  BY DEF tableVars, sessionVars, inputVars, queueVars, Covered
<1>2. CreatesRow => Covered
  BY DEF CreatesRow, Covered
<1>3. ASSUME NEW t, NEW r, Reserve(t, r) PROVE Covered
  BY <1>0, <1>3, BumpCovers DEF Reserve
<1>4. ASSUME NEW t, AdmitWithPrompt(t) PROVE Covered
  BY <1>0, <1>4, BumpCovers DEF AdmitWithPrompt
<1>5. ASSUME NEW t, NEW p, AdmitContinuation(t, p) PROVE Covered
  BY <1>0, <1>5, BumpCovers DEF AdmitContinuation
<1>6. ASSUME NEW i, NEW v, NEW n, NEW e, ReserveQueuedStart(i, v, n, e)
      PROVE  Covered
  <2> DEFINE m == IF paused THEN 3 ELSE 2
  <2>1. Bump(m)
    BY <1>6, Zenon DEF ReserveQueuedStart
  <2>2. m \in Nat /\ m > 0
    OBVIOUS
  <2> HIDE DEF m
  <2>3. QED
    BY <1>0, <2>1, <2>2, BumpCovers
<1>7. ASSUME NEW t, NEW c, ClaimExecution(t, c) \/ MarkRecoveryRequired(t, c)
      PROVE  Covered
  BY <1>0, <1>7, BumpCovers DEF ClaimExecution, MarkRecoveryRequired
<1>8. LockAndIncrement => Covered
  BY <1>0 DEF LockAndIncrement, Covered
<1>9. ASSUME NEW i, NEW d, NEW t, Enqueue(i, d, t) PROVE Covered
  BY <1>8, <1>9 DEF Enqueue
<1>10. ASSUME NEW i, NEW v, NEW t,
              \/ Update(i, v) \/ Remove(i, v)
              \/ RecordReceipt(i, v, "conflict", "cancelled")
              \/ ClaimForSteering(i, v, t)
       PROVE  Covered
  BY <1>8, <1>10 DEF Update, Remove, RecordReceipt, ClaimForSteering
<1>11. ASSUME NEW t, AppendStarted(t) PROVE Covered
  <2>1. Bump(1)
    BY <1>11, Zenon DEF AppendStarted
  <2>2. QED
    BY <1>0, <2>1, BumpCovers
<1>12. ASSUME NEW t, NEW i, AppendAccepted(t, i) PROVE Covered
  <2>1. \/ Bump(1)
        \/ /\ UNCHANGED <<itemState, receipt, version, revision>>
           /\ UNCHANGED <<sessionVars, delivery, paused>>
    BY <1>12, Zenon DEF AppendAccepted
  <2>2. Bump(1) => Covered
    BY <1>0, BumpCovers
  <2>3. QED
    BY <2>1, <2>2 DEF sessionVars, Covered
<1>13. ASSUME NEW t, NEW i, NEW a, AppendApplied(t, i, a) PROVE Covered
  BY <1>0, <1>13, BumpCovers DEF AppendApplied
<1>14. ASSUME NEW t \in Turns, NEW type, NEW n \in Nat,
              ProjectTerminal(t, type, n)
       PROVE  Covered
  <2>1. PICK m \in Nat : m > 0 /\ Bump(m)
    BY <1>14, ProjectTerminalBump
  <2>2. QED
    BY <1>0, <2>1, BumpCovers
<1>15. ASSUME NEW t \in Turns, RetryTerminal(t) PROVE Covered
  BY <1>14, <1>15 DEF RetryTerminal
<1>16. ASSUME NEW t \in Turns, NEW type,
              AppendTerminal(t, type) \/ AppendEmptySettlement(t, type)
       PROVE  Covered
  BY <1>14, <1>16 DEF AppendTerminal, AppendEmptySettlement
<1>17. QED
  BY <1>1, <1>2, <1>3, <1>4, <1>5, <1>6, <1>7, <1>9, <1>10, <1>11, <1>12,
     <1>13, <1>15, <1>16, ZenonT(30)
  DEF Transaction

(* Optimistic concurrency of the queue is sound: every transaction that    *)
(* changes what list shows of the queue moves the revision that a client   *)
(* sends back, though half of the increments are made by triggers; so does *)
(* every change of the active run but the one of POST /api/sessions.       *)
THEOREM ServiceRevisionCovers == Spec => RevisionCoversSnapshot
<1>1. TypeInv /\ [Next]_vars =>
        [queueRow => /\ revision' >= revision
                     /\ QueueView' # QueueView => revision' > revision
                     /\ activeRun' # activeRun =>
                          revision' > revision \/ saveStep' # saveStep]_vars
  <2> SUFFICES ASSUME TypeInv, [Next]_vars, queueRow
               PROVE  /\ revision' >= revision
                      /\ QueueView' # QueueView => revision' > revision
                      /\ activeRun' # activeRun =>
                           revision' > revision \/ saveStep' # saveStep
    OBVIOUS
  <2>1. TablesTypeOK /\ TablesTypeOK'
    BY TypeInvStep DEF TypeInv
  <2>2. revision \in Nat /\ revision' \in Nat
    BY <2>1 DEF TablesTypeOK
  <2>3. UNCHANGED <<paused, itemState, version, delivery, receipt>>
          => QueueView' = QueueView
    BY DEF QueueView
  <2>4. CASE Transaction
    <3>1. Covered
      BY <2>1, <2>4, TransactionIsCovered
    <3>2. QED
      BY <2>2, <2>3, <3>1 DEF Covered
  <2>5. CASE SaveTransaction /\ saveStep' # saveStep
    <3>1. UNCHANGED <<revision, paused, itemState, version, delivery, receipt>>
      BY <2>5 DEF SaveTransaction, EnsureSession, EnsureRun, inputVars, queueVars
    <3>2. QED
      BY <2>2, <2>3, <2>5, <3>1
  <2>6. QED
    BY <2>4, <2>5, NextIsTransaction
<1>2. QED
  BY <1>1, ServiceTypeInv, PTL DEF Spec, RevisionCoversSnapshot
=============================================================================

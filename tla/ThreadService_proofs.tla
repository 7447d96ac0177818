------------------------ MODULE ThreadService_proofs ------------------------
(***************************************************************************)
(* Proofs about ThreadService.  A step of the service makes at most one    *)
(* repository transaction, so the invariants of the tables are proved for  *)
(* the transactions and carried to Next by a lemma that says which         *)
(* transactions a step may make.                                           *)
(***************************************************************************)
EXTENDS ThreadService, ThreadTables_proofs

-----------------------------------------------------------------------------
(* Type correctness: the service. *)

(* The variables of the processes. *)
ProcessTypeOK ==
  /\ saveStep \in [Saves -> {"unsent", "session", "run", "done"}]
  /\ owner \in [Turns -> {"none", "claimed", "starting", "live", "settling",
                          "retrying"}]
  /\ stopStep \in [Turns -> {"none", "running", "recovery_required", "read"}]
  /\ stopping \in [Turns -> Nat]
  /\ steering \in [Items -> SUBSET Nat]
  /\ searched \in [Items -> SUBSET Nat]
  /\ refused \in [Items -> SUBSET Nat]
  /\ drainStep \in [Drainers -> {"idle", "state", "inputs"}]
  /\ drainRevision \in [Drainers -> Nat]
  /\ drainQueue \in [Drainers -> QueueReads]

(* A steered item names its turn, and only stored steered items are asked  *)
(* of a runtime.                                                           *)
SteerHolds ==
  \A i \in Items :
    /\ delivery[i] = "steer" => target[i] \in Turns
    /\ steering[i] \cup searched[i] # {} =>
         delivery[i] = "steer" /\ itemState[i] # "none"

TypeInv == TablesTypeOK /\ ProcessTypeOK /\ SteerHolds

(* A transaction that moves items on keeps what the steering relies on. *)
LEMMA SteerHoldsStays ==
  ASSUME SteerHolds, ItemsStay, UNCHANGED <<steering, searched>>
  PROVE  SteerHolds'
BY DEF SteerHolds, ItemsStay

(* A drainer has read nothing, or a queue of stored items with versions. *)
LEMMA QueueReadsType ==
  ASSUME TablesTypeOK
  PROVE  /\ NothingRead \in QueueReads
         /\ [i \in PendingQueue |-> version[i]] \in QueueReads
         /\ \A q \in QueueReads : \A i \in DOMAIN q : i \in Items /\ q[i] \in Nat
<1>1. NothingRead \in [{} -> Nat] /\ {} \in SUBSET Items
  BY DEF NothingRead
<1>2. PendingQueue \in SUBSET Items
  BY DEF PendingQueue
<1>3. [i \in PendingQueue |-> version[i]] \in [PendingQueue -> Nat]
  BY <1>2 DEF TablesTypeOK
<1>4. \A q \in SUBSET Items : \A f \in [q -> Nat] : f \in QueueReads
  BY DEF QueueReads
<1>5. ASSUME NEW q \in QueueReads, NEW i \in DOMAIN q
      PROVE  i \in Items /\ q[i] \in Nat
  <2>1. PICK r \in SUBSET Items : q \in [r -> Nat]
    BY DEF QueueReads
  <2>2. QED
    BY <2>1
<1>6. QED
  BY <1>1, <1>2, <1>3, <1>4, <1>5

(* Every step keeps the tables and the processes well typed. *)
LEMMA TypeInvStep ==
  ASSUME TypeInv, [Next]_vars
  PROVE  TypeInv'
<1> USE TablesAssumption, ServiceAssumption
<1>1. TablesTypeOK /\ ProcessTypeOK /\ SteerHolds
  BY DEF TypeInv
<1>2. SteeredItems \subseteq Items /\ FailingTurns \subseteq Turns
  BY DEF ServiceAssumption
<1>3. SUFFICES TablesTypeOK' /\ ProcessTypeOK' /\ SteerHolds'
  BY DEF TypeInv
<1>4. CASE Next
  <2> USE <1>1, <1>2
  <2>1. ASSUME NEW t \in ChatTurns, NEW r \in Turns \cup {NULL},
               StartTurn(t, r)
        PROVE  TablesTypeOK' /\ ProcessTypeOK' /\ SteerHolds'
    <3>1. t \in Turns /\ Reserve(t, r)
      BY <2>1 DEF StartTurn, Turns
    <3>2. TablesTypeOK' /\ ItemsStay
      BY <3>1, ReserveType, TransactionsKeepItems
    <3>3. ProcessTypeOK' /\ SteerHolds'
      BY <2>1, <3>2, SteerHoldsStays
      DEF StartTurn, Turns, ProcessTypeOK, stopVars, turnVars, steerVars,
          drainVars
    <3>4. QED
      BY <3>2, <3>3
  <2>2. ASSUME NEW t \in ChatTurns,
               Chat(t)
        PROVE  TablesTypeOK' /\ ProcessTypeOK' /\ SteerHolds'
    <3>1. t \in Turns /\ AdmitWithPrompt(t)
      BY <2>2 DEF Chat, Turns
    <3>2. TablesTypeOK' /\ ItemsStay
      BY <3>1, AdmitWithPromptType, TransactionsKeepItems
    <3>3. ProcessTypeOK' /\ SteerHolds'
      BY <2>2, <3>2, SteerHoldsStays
      DEF Chat, Turns, ProcessTypeOK, stopVars, turnVars, steerVars,
          drainVars
    <3>4. QED
      BY <3>2, <3>3
  <2>3. ASSUME NEW t \in ResumeTurns, NEW p \in Turns,
               Resume(t, p)
        PROVE  TablesTypeOK' /\ ProcessTypeOK' /\ SteerHolds'
    <3>1. t \in Turns /\ AdmitContinuation(t, p)
      BY <2>3 DEF Resume, Turns
    <3>2. TablesTypeOK' /\ ItemsStay
      BY <3>1, AdmitContinuationType, TransactionsKeepItems
    <3>3. ProcessTypeOK' /\ SteerHolds'
      BY <2>3, <3>2, SteerHoldsStays
      DEF Resume, Turns, ProcessTypeOK, stopVars, turnVars, steerVars,
          drainVars
    <3>4. QED
      BY <3>2, <3>3
  <2>4. ASSUME NEW i \in Items,
               StartItem(i)
        PROVE  TablesTypeOK' /\ ProcessTypeOK' /\ SteerHolds'
    <3>1. ReserveQueuedStart(i, version[i], revision, TRUE) /\ version[i] \in Nat /\ revision \in Nat
      BY <2>4 DEF StartItem, TablesTypeOK
    <3>2. TablesTypeOK' /\ ItemsStay
      BY <3>1, ReserveQueuedStartType, ItemTransactionsKeepItems
    <3>3. ProcessTypeOK' /\ SteerHolds'
      BY <2>4, <3>2, SteerHoldsStays
      DEF StartItem, TablesTypeOK, ProcessTypeOK, stopVars, turnVars,
          steerVars, drainVars
    <3>4. QED
      BY <3>2, <3>3
  <2>5. ASSUME NEW i \in Items,
               EnqueueItem(i)
        PROVE  TablesTypeOK' /\ ProcessTypeOK' /\ SteerHolds'
    <3>1. TablesTypeOK'
      BY <2>5, EnqueueType DEF EnqueueItem
    <3>2. SteerHolds'
      BY <2>5 DEF EnqueueItem, Enqueue, SteerHolds, TablesTypeOK, steerVars
    <3>3. QED
      BY <2>5, <3>1, <3>2
      DEF EnqueueItem, ProcessTypeOK, stopVars, turnVars, steerVars,
          drainVars
  <2>6. ASSUME NEW i \in Items,
               EditItem(i)
        PROVE  TablesTypeOK' /\ ProcessTypeOK' /\ SteerHolds'
    <3>1. Update(i, version[i]) /\ version[i] \in Nat
      BY <2>6 DEF EditItem, TablesTypeOK
    <3>2. TablesTypeOK' /\ ItemsStay
      BY <3>1, UpdateType, ItemTransactionsKeepItems
    <3>3. ProcessTypeOK' /\ SteerHolds'
      BY <2>6, <3>2, SteerHoldsStays
      DEF EditItem, TablesTypeOK, ProcessTypeOK, stopVars, turnVars,
          steerVars, drainVars
    <3>4. QED
      BY <3>2, <3>3
  <2>7. ASSUME NEW i \in Items,
               RemoveItem(i)
        PROVE  TablesTypeOK' /\ ProcessTypeOK' /\ SteerHolds'
    <3>1. Remove(i, version[i]) /\ version[i] \in Nat
      BY <2>7 DEF RemoveItem, TablesTypeOK
    <3>2. TablesTypeOK' /\ ItemsStay
      BY <3>1, RemoveType, ItemTransactionsKeepItems
    <3>3. ProcessTypeOK' /\ SteerHolds'
      BY <2>7, <3>2, SteerHoldsStays
      DEF RemoveItem, TablesTypeOK, ProcessTypeOK, stopVars, turnVars,
          steerVars, drainVars
    <3>4. QED
      BY <3>2, <3>3
  <2>8. CASE RefusedRequest
    <3>1. TablesTypeOK'
      BY <2>8 DEF RefusedRequest, TablesTypeOK, sessionVars, lineageVars,
                   admissionVars, inputVars
    <3>2. ItemsStay
      BY <2>8 DEF RefusedRequest, ItemsStay, inputVars
    <3>3. QED
      BY <2>8, <3>1, <3>2, SteerHoldsStays
      DEF RefusedRequest, ProcessTypeOK, stopVars, turnVars, steerVars,
          drainVars
  <2>9. ASSUME NEW i \in SteeredItems, NEW t \in Turns,
               SteerNew(i, t)
        PROVE  TablesTypeOK' /\ ProcessTypeOK' /\ SteerHolds'
    <3>1. TablesTypeOK'
      BY <2>9, EnqueueType DEF SteerNew
    <3>2. SteerHolds'
      BY <2>9 DEF SteerNew, Enqueue, SteerHolds, TablesTypeOK, ProcessTypeOK
    <3>3. QED
      BY <2>9, <3>1, <3>2
      DEF SteerNew, ProcessTypeOK, stopVars, turnVars, drainVars
  <2>10. ASSUME NEW i \in SteeredItems, NEW t \in Turns,
               SteerQueued(i, t)
        PROVE  TablesTypeOK' /\ ProcessTypeOK' /\ SteerHolds'
    <3>0. version[i] \in Nat
      BY DEF TablesTypeOK
    <3>1. TablesTypeOK'
      BY <2>10, <3>0, ClaimForSteeringType DEF SteerQueued
    <3>2. SteerHolds'
      BY <2>10 DEF SteerQueued, ClaimForSteering, SteerHolds, TablesTypeOK,
                   ProcessTypeOK
    <3>3. /\ steering' = [steering EXCEPT ![i] = @ \cup {version[i] + 1}]
          /\ UNCHANGED <<saveStep, turnVars, searched, refused, drainVars>>
      BY <2>10 DEF SteerQueued
    <3>4. version[i] + 1 \in Nat
      BY <3>0
    <3>5. QED
      BY <3>1, <3>2, <3>3, <3>4
      DEF ProcessTypeOK, stopVars, turnVars, drainVars
  <2>11. ASSUME NEW i \in SteeredItems,
               SteerAgain(i)
        PROVE  TablesTypeOK' /\ ProcessTypeOK' /\ SteerHolds'
    <3>0. version[i] \in Nat
      BY DEF TablesTypeOK
    <3>1. TablesTypeOK'
      BY <2>11, UnchangedType DEF SteerAgain
    <3>2. SteerHolds'
      BY <2>11 DEF SteerAgain, SteerHolds, ProcessTypeOK, tableVars, inputVars
    <3>3. QED
      BY <2>11, <3>0, <3>1, <3>2
      DEF SteerAgain, ProcessTypeOK, stopVars, turnVars, drainVars
  <2>12. ASSUME NEW i \in SteeredItems, NEW v \in steering[i],
               SteerSearches(i, v)
        PROVE  TablesTypeOK' /\ ProcessTypeOK' /\ SteerHolds'
    <3>1. TablesTypeOK'
      BY <2>12, UnchangedType DEF SteerSearches
    <3>2. SteerHolds'
      BY <2>12 DEF SteerSearches, SteerHolds, ProcessTypeOK, tableVars,
         inputVars,
                   steerVars
    <3>3. QED
      BY <2>12, <3>1, <3>2
      DEF SteerSearches, ProcessTypeOK, stopVars, turnVars, drainVars
  <2>13. ASSUME NEW i \in SteeredItems, NEW v \in searched[i],
               SteerAccepted(i, v)
        PROVE  TablesTypeOK' /\ ProcessTypeOK' /\ SteerHolds'
    <3>0. target[i] \in Turns
      BY DEF SteerHolds
    <3>1. TablesTypeOK' /\ ItemsStay
      BY <2>13, <3>0, AppendAcceptedType, ItemTransactionsKeepItems
      DEF SteerAccepted
    <3>2. SteerHolds'
      BY <2>13, <3>1 DEF SteerAccepted, SteerHolds, ProcessTypeOK, ItemsStay
    <3>3. QED
      BY <2>13, <3>1, <3>2
      DEF SteerAccepted, ProcessTypeOK, stopVars, turnVars, drainVars
  <2>14. ASSUME NEW i \in SteeredItems, NEW v \in searched[i],
               SteerRefused(i, v)
        PROVE  TablesTypeOK' /\ ProcessTypeOK' /\ SteerHolds'
    <3>1. TablesTypeOK'
      BY <2>14, UnchangedType DEF SteerRefused
    <3>2. SteerHolds'
      BY <2>14 DEF SteerRefused, SteerHolds, ProcessTypeOK, tableVars,
         inputVars,
                   steerVars
    <3>3. QED
      BY <2>14, <3>1, <3>2
      DEF SteerRefused, ProcessTypeOK, stopVars, turnVars, drainVars
  <2>15. ASSUME NEW i \in SteeredItems, NEW v \in steering[i] \cup searched[i],
               SteerUnknown(i, v)
        PROVE  TablesTypeOK' /\ ProcessTypeOK' /\ SteerHolds'
    <3>1. TablesTypeOK'
      BY <2>15, UnchangedType DEF SteerUnknown
    <3>2. SteerHolds'
      BY <2>15 DEF SteerUnknown, SteerHolds, ProcessTypeOK, tableVars,
         inputVars,
                   steerVars
    <3>3. QED
      BY <2>15, <3>1, <3>2
      DEF SteerUnknown, ProcessTypeOK, stopVars, turnVars, drainVars
  <2>16. ASSUME NEW i \in SteeredItems, NEW v \in refused[i],
               SteerCancel(i, v)
        PROVE  TablesTypeOK' /\ ProcessTypeOK' /\ SteerHolds'
    <3>0. v \in Nat
      BY DEF ProcessTypeOK
    <3>1. TablesTypeOK' /\ ItemsStay
      BY <2>16, <3>0, RecordReceiptType, ItemTransactionsKeepItems
      DEF SteerCancel
    <3>2. SteerHolds'
      BY <2>16, <3>1, SteerHoldsStays DEF SteerCancel
    <3>3. QED
      BY <2>16, <3>1, <3>2
      DEF SteerCancel, ProcessTypeOK, stopVars, turnVars, drainVars
  <2>17. ASSUME NEW i \in SteeredItems, NEW v \in refused[i],
               SteerNotCancelled(i, v)
        PROVE  TablesTypeOK' /\ ProcessTypeOK' /\ SteerHolds'
    <3>1. TablesTypeOK'
      BY <2>17, UnchangedType DEF SteerNotCancelled
    <3>2. SteerHolds'
      BY <2>17 DEF SteerNotCancelled, SteerHolds, ProcessTypeOK, tableVars,
         inputVars,
                   steerVars
    <3>3. QED
      BY <2>17, <3>1, <3>2
      DEF SteerNotCancelled, ProcessTypeOK, stopVars, turnVars, drainVars
  <2>18. ASSUME NEW d \in Drainers,
               DrainReadState(d)
        PROVE  TablesTypeOK' /\ ProcessTypeOK' /\ SteerHolds'
    <3>0. revision \in Nat
      BY DEF TablesTypeOK
    <3>1. TablesTypeOK' /\ ItemsStay
      BY <2>18, UnchangedType, TransactionsKeepItems DEF DrainReadState
    <3>2. SteerHolds'
      BY <2>18, <3>1, SteerHoldsStays DEF DrainReadState, steerVars
    <3>3. QED
      BY <2>18, <3>0, <3>1, <3>2
      DEF DrainReadState, ProcessTypeOK, stopVars, turnVars, steerVars,
          drainVars
  <2>19. ASSUME NEW d \in Drainers,
               DrainReadInputs(d)
        PROVE  TablesTypeOK' /\ ProcessTypeOK' /\ SteerHolds'
    <3>0. [i \in PendingQueue |-> version[i]] \in QueueReads
      BY QueueReadsType
    <3>1. TablesTypeOK' /\ ItemsStay
      BY <2>19, UnchangedType, TransactionsKeepItems DEF DrainReadInputs
    <3>2. SteerHolds'
      BY <2>19, <3>1, SteerHoldsStays DEF DrainReadInputs, steerVars
    <3>3. QED
      BY <2>19, <3>0, <3>1, <3>2
      DEF DrainReadInputs, ProcessTypeOK, stopVars, turnVars, steerVars,
          drainVars
  <2>20. ASSUME NEW d \in Drainers,
               DrainStart(d)
        PROVE  TablesTypeOK' /\ ProcessTypeOK' /\ SteerHolds'
    <3>0. drainQueue[d] \in QueueReads /\ drainRevision[d] \in Nat
      BY DEF ProcessTypeOK
    <3>1. PICK i \in DOMAIN drainQueue[d] :
            ReserveQueuedStart(i, drainQueue[d][i], drainRevision[d], FALSE)
      BY <2>20 DEF DrainStart
    <3>2. TablesTypeOK' /\ ItemsStay
      BY <3>0, <3>1, QueueReadsType, ReserveQueuedStartType,
         ItemTransactionsKeepItems
    <3>3. SteerHolds'
      BY <2>20, <3>2, SteerHoldsStays DEF DrainStart, steerVars
    <3>4. DrainIdle(d) /\ UNCHANGED <<saveStep, turnVars, steerVars>>
      BY <2>20 DEF DrainStart
    <3>5. QED
      BY <3>2, <3>3, <3>4, QueueReadsType
      DEF DrainIdle, ProcessTypeOK, stopVars, turnVars, steerVars
  <2>21. ASSUME NEW d \in Drainers,
               DrainGivesUp(d)
        PROVE  TablesTypeOK' /\ ProcessTypeOK' /\ SteerHolds'
    <3>1. TablesTypeOK' /\ ItemsStay
      BY <2>21, UnchangedType, TransactionsKeepItems DEF DrainGivesUp,
         DrainIdle
    <3>2. SteerHolds'
      BY <2>21, <3>1, SteerHoldsStays DEF DrainGivesUp, DrainIdle, steerVars
    <3>3. QED
      BY <2>21, <3>1, <3>2, QueueReadsType
      DEF DrainGivesUp, DrainIdle, ProcessTypeOK, stopVars, turnVars,
          steerVars, drainVars
  <2>22. ASSUME NEW t \in Turns,
               RuntimeClaims(t)
        PROVE  TablesTypeOK' /\ ProcessTypeOK' /\ SteerHolds'
    <3>1. ClaimExecution(t, "runtime")
      BY <2>22 DEF RuntimeClaims
    <3>2. TablesTypeOK' /\ ItemsStay
      BY <3>1, ClaimExecutionType, TransactionsKeepItems
    <3>3. SteerHolds'
      BY <2>22, <3>2, SteerHoldsStays DEF RuntimeClaims, steerVars
    <3>4. QED
      BY <2>22, <3>2, <3>3
      DEF RuntimeClaims, ProcessTypeOK, stopVars, turnVars, steerVars,
          drainVars
  <2>23. ASSUME NEW t \in Turns,
               RuntimeRegisters(t)
        PROVE  TablesTypeOK' /\ ProcessTypeOK' /\ SteerHolds'
    <3>1. TablesTypeOK' /\ ItemsStay
      BY <2>23, UnchangedType, TransactionsKeepItems DEF RuntimeRegisters
    <3>2. SteerHolds'
      BY <2>23, <3>1, SteerHoldsStays DEF RuntimeRegisters, steerVars
    <3>3. QED
      BY <2>23, <3>1, <3>2
      DEF RuntimeRegisters, ProcessTypeOK, stopVars, turnVars, steerVars,
          drainVars
  <2>24. ASSUME NEW t \in Turns,
               RuntimeStarts(t)
        PROVE  TablesTypeOK' /\ ProcessTypeOK' /\ SteerHolds'
    <3>1. AppendStarted(t)
      BY <2>24 DEF RuntimeStarts
    <3>2. TablesTypeOK' /\ ItemsStay
      BY <3>1, AppendStartedType, TransactionsKeepItems
    <3>3. SteerHolds'
      BY <2>24, <3>2, SteerHoldsStays DEF RuntimeStarts, steerVars
    <3>4. QED
      BY <2>24, <3>2, <3>3
      DEF RuntimeStarts, ProcessTypeOK, stopVars, turnVars, steerVars,
          drainVars
  <2>25. ASSUME NEW t \in Turns, NEW i \in Items, NEW a,
               RuntimeApplies(t, i, a)
        PROVE  TablesTypeOK' /\ ProcessTypeOK' /\ SteerHolds'
    <3>1. AppendApplied(t, i, a)
      BY <2>25 DEF RuntimeApplies
    <3>2. TablesTypeOK' /\ ItemsStay
      BY <3>1, AppendAppliedType, ItemTransactionsKeepItems
    <3>3. SteerHolds'
      BY <2>25, <3>2, SteerHoldsStays DEF RuntimeApplies, steerVars
    <3>4. QED
      BY <2>25, <3>2, <3>3
      DEF RuntimeApplies, ProcessTypeOK, stopVars, turnVars, steerVars,
          drainVars
  <2>26. ASSUME NEW t \in Turns, NEW type \in TerminalTypes,
               RuntimeFinishes(t, type)
        PROVE  TablesTypeOK' /\ ProcessTypeOK' /\ SteerHolds'
    <3>1. AppendTerminal(t, type)
      BY <2>26 DEF RuntimeFinishes
    <3>2. TablesTypeOK' /\ ItemsStay
      BY <3>1, AppendTerminalType, TransactionsKeepItems DEF AppendTerminal
    <3>3. SteerHolds'
      BY <2>26, <3>2, SteerHoldsStays DEF RuntimeFinishes, steerVars
    <3>4. QED
      BY <2>26, <3>2, <3>3
      DEF RuntimeFinishes, ProcessTypeOK, stopVars, steerVars, drainVars
  <2>27. ASSUME NEW t \in FailingTurns, NEW type \in TerminalTypes,
               RuntimeUnacknowledged(t, type)
        PROVE  TablesTypeOK' /\ ProcessTypeOK' /\ SteerHolds'
    <3>1. AppendTerminal(t, type)
      BY <2>27 DEF RuntimeUnacknowledged
    <3>2. TablesTypeOK' /\ ItemsStay
      BY <3>1, AppendTerminalType, TransactionsKeepItems DEF AppendTerminal
    <3>3. SteerHolds'
      BY <2>27, <3>2, SteerHoldsStays DEF RuntimeUnacknowledged, steerVars
    <3>4. QED
      BY <2>27, <3>2, <3>3
      DEF RuntimeUnacknowledged, ProcessTypeOK, stopVars, steerVars,
          drainVars
  <2>28. ASSUME NEW t \in FailingTurns,
               RuntimeRetries(t)
        PROVE  TablesTypeOK' /\ ProcessTypeOK' /\ SteerHolds'
    <3>1. RetryTerminal(t) /\ ProjectTerminal(t, LastType(t), 0)
      BY <2>28 DEF RuntimeRetries, RetryTerminal
    <3>2. TablesTypeOK' /\ ItemsStay
      BY <3>1, RetryTerminalType, TransactionsKeepItems
    <3>3. SteerHolds'
      BY <2>28, <3>2, SteerHoldsStays DEF RuntimeRetries, RetryTerminal,
         steerVars
    <3>4. QED
      BY <2>28, <3>2, <3>3
      DEF RuntimeRetries, RetryTerminal, ProcessTypeOK, stopVars, turnVars,
          steerVars, drainVars
  <2>29. ASSUME NEW t \in FailingTurns,
               RuntimeFails(t)
        PROVE  TablesTypeOK' /\ ProcessTypeOK' /\ SteerHolds'
    <3>1. TablesTypeOK' /\ ItemsStay
      BY <2>29, UnchangedType, TransactionsKeepItems DEF RuntimeFails
    <3>2. SteerHolds'
      BY <2>29, <3>1, SteerHoldsStays DEF RuntimeFails, steerVars
    <3>3. QED
      BY <2>29, <3>1, <3>2
      DEF RuntimeFails, ProcessTypeOK, stopVars, steerVars, drainVars
  <2>30. ASSUME NEW t \in FailingTurns,
               DispatcherClaims(t)
        PROVE  TablesTypeOK' /\ ProcessTypeOK' /\ SteerHolds'
    <3>1. ClaimExecution(t, "dispatcher")
      BY <2>30 DEF DispatcherClaims
    <3>2. TablesTypeOK' /\ ItemsStay
      BY <3>1, ClaimExecutionType, TransactionsKeepItems
    <3>3. SteerHolds'
      BY <2>30, <3>2, SteerHoldsStays DEF DispatcherClaims, steerVars
    <3>4. QED
      BY <2>30, <3>2, <3>3
      DEF DispatcherClaims, ProcessTypeOK, stopVars, turnVars, steerVars,
          drainVars
  <2>31. ASSUME NEW t \in FailingTurns,
               StartupMarks(t)
        PROVE  TablesTypeOK' /\ ProcessTypeOK' /\ SteerHolds'
    <3>1. MarkRecoveryRequired(t, executionClaim[t])
      BY <2>31 DEF StartupMarks
    <3>2. TablesTypeOK' /\ ItemsStay
      BY <3>1, MarkRecoveryRequiredType, TransactionsKeepItems
    <3>3. SteerHolds'
      BY <2>31, <3>2, SteerHoldsStays DEF StartupMarks, steerVars
    <3>4. QED
      BY <2>31, <3>2, <3>3
      DEF StartupMarks, ProcessTypeOK, stopVars, turnVars, steerVars,
          drainVars
  <2>32. ASSUME NEW t \in FailingTurns, NEW type \in {"turn.failed", "turn.interrupted"},
               SettleStartup(t, type)
        PROVE  TablesTypeOK' /\ ProcessTypeOK' /\ SteerHolds'
    <3>1. type \in TerminalTypes /\ AppendEmptySettlement(t, type) /\ ProjectTerminal(t, type, 2)
      BY <2>32 DEF SettleStartup, AppendEmptySettlement, TerminalTypes
    <3>2. TablesTypeOK' /\ ItemsStay
      BY <3>1, AppendEmptySettlementType, TransactionsKeepItems
    <3>3. SteerHolds'
      BY <2>32, <3>2, SteerHoldsStays DEF SettleStartup,
         AppendEmptySettlement, TerminalTypes, steerVars
    <3>4. QED
      BY <2>32, <3>2, <3>3
      DEF SettleStartup, AppendEmptySettlement, TerminalTypes, ProcessTypeOK,
          stopVars, turnVars, steerVars, drainVars
  <2>33. ASSUME NEW t \in FailingTurns,
               StopReads(t)
        PROVE  TablesTypeOK' /\ ProcessTypeOK' /\ SteerHolds'
    <3>0. Len(events[t]) + 1 \in Nat
      <4>1. events \in [Turns -> Seq(Event)] /\ t \in Turns
        BY <1>1, <1>2 DEF TablesTypeOK
      <4>2. events[t] \in Seq(Event)
        BY <4>1
      <4>3. QED
        BY <4>2
    <3>1. TablesTypeOK' /\ ItemsStay
      BY <2>33, UnchangedType, TransactionsKeepItems DEF StopReads
    <3>2. SteerHolds'
      BY <2>33, <3>1, SteerHoldsStays DEF StopReads, steerVars
    <3>3. QED
      BY <2>33, <3>0, <3>1, <3>2
      DEF StopReads, ProcessTypeOK, stopVars, turnVars, steerVars, drainVars
  <2>34. ASSUME NEW t \in FailingTurns,
               StopSettles(t)
        PROVE  TablesTypeOK' /\ ProcessTypeOK' /\ SteerHolds'
    <3>1. \/ AppendTerminal(t, "turn.interrupted")
          \/ AppendEmptySettlement(t, "turn.interrupted")
      BY <2>34 DEF StopSettles
    <3>2. TablesTypeOK' /\ ItemsStay
      <4>1. "turn.interrupted" \in TerminalTypes
        BY DEF TerminalTypes
      <4>2. TablesTypeOK'
        BY <3>1, <4>1, AppendTerminalType, AppendEmptySettlementType
      <4>3. ItemsStay
        BY <3>1, TransactionsKeepItems DEF AppendTerminal,
           AppendEmptySettlement
      <4>4. QED
        BY <4>2, <4>3
    <3>3. SteerHolds'
      BY <2>34, <3>2, SteerHoldsStays DEF StopSettles, steerVars
    <3>4. QED
      BY <2>34, <3>2, <3>3
      DEF StopSettles, StopIdle, ProcessTypeOK, stopVars, steerVars, drainVars
  <2>35. ASSUME NEW t \in FailingTurns,
               StopGivesUp(t)
        PROVE  TablesTypeOK' /\ ProcessTypeOK' /\ SteerHolds'
    <3>1. TablesTypeOK' /\ ItemsStay
      BY <2>35, UnchangedType, TransactionsKeepItems DEF StopGivesUp
    <3>2. SteerHolds'
      BY <2>35, <3>1, SteerHoldsStays DEF StopGivesUp, steerVars
    <3>3. QED
      BY <2>35, <3>1, <3>2
      DEF StopGivesUp, StopIdle, ProcessTypeOK, stopVars, turnVars, steerVars,
          drainVars
  <2>36. ASSUME NEW t \in FailingTurns,
               Crash(t)
        PROVE  TablesTypeOK' /\ ProcessTypeOK' /\ SteerHolds'
    <3>1. TablesTypeOK' /\ ItemsStay
      BY <2>36, UnchangedType, TransactionsKeepItems DEF Crash
    <3>2. SteerHolds'
      BY <2>36, <3>1, SteerHoldsStays DEF Crash, steerVars
    <3>3. QED
      BY <2>36, <3>1, <3>2
      DEF Crash, ProcessTypeOK, stopVars, turnVars, steerVars, drainVars
  <2>37. ASSUME NEW t \in Turns,
               RuntimeBegins(t)
        PROVE  TablesTypeOK' /\ ProcessTypeOK' /\ SteerHolds'
    <3>1. TablesTypeOK' /\ ItemsStay
      BY <2>37, UnchangedType, TransactionsKeepItems DEF RuntimeBegins
    <3>2. SteerHolds'
      BY <2>37, <3>1, SteerHoldsStays DEF RuntimeBegins, steerVars
    <3>3. QED
      BY <2>37, <3>1, <3>2
      DEF RuntimeBegins, ProcessTypeOK, stopVars, turnVars, steerVars, drainVars
  <2>38. ASSUME NEW t \in FailingTurns,
               StopFindsNoOwner(t)
        PROVE  TablesTypeOK' /\ ProcessTypeOK' /\ SteerHolds'
    <3>1. TablesTypeOK' /\ ItemsStay
      BY <2>38, UnchangedType, TransactionsKeepItems DEF StopFindsNoOwner
    <3>2. SteerHolds'
      BY <2>38, <3>1, SteerHoldsStays DEF StopFindsNoOwner, steerVars
    <3>3. QED
      BY <2>38, <3>1, <3>2
      DEF StopFindsNoOwner, ProcessTypeOK, stopVars, turnVars, steerVars, drainVars
  <2>39. ASSUME NEW p \in Saves,
               SaveSession(p)
        PROVE  TablesTypeOK' /\ ProcessTypeOK' /\ SteerHolds'
    <3>0. SavedRun[p] \in Runs
      BY DEF ServiceAssumption
    <3>1. TablesTypeOK' /\ ItemsStay
      BY <2>39, <3>0, EnsureSessionType, TransactionsKeepItems DEF SaveSession
    <3>2. SteerHolds'
      BY <2>39, <3>1, SteerHoldsStays DEF SaveSession, steerVars
    <3>3. QED
      BY <2>39, <3>1, <3>2
      DEF SaveSession, ProcessTypeOK, stopVars, turnVars, steerVars, drainVars
  <2>40. ASSUME NEW p \in Saves,
               SaveRun(p)
        PROVE  TablesTypeOK' /\ ProcessTypeOK' /\ SteerHolds'
    <3>0. SavedRun[p] \in Runs
      BY DEF ServiceAssumption
    <3>1. TablesTypeOK' /\ ItemsStay
      BY <2>40, <3>0, EnsureRunType, TransactionsKeepItems DEF SaveRun
    <3>2. SteerHolds'
      BY <2>40, <3>1, SteerHoldsStays DEF SaveRun, steerVars
    <3>3. QED
      BY <2>40, <3>1, <3>2
      DEF SaveRun, ProcessTypeOK, stopVars, turnVars, steerVars, drainVars
  <2>41. ASSUME NEW p \in Saves,
               SaveActiveRun(p)
        PROVE  TablesTypeOK' /\ ProcessTypeOK' /\ SteerHolds'
    <3>0. SavedRun[p] \in Runs
      BY DEF ServiceAssumption
    <3>1. TablesTypeOK' /\ ItemsStay
      BY <2>41, <3>0, EnsureSessionType, TransactionsKeepItems DEF SaveActiveRun
    <3>2. SteerHolds'
      BY <2>41, <3>1, SteerHoldsStays DEF SaveActiveRun, steerVars
    <3>3. QED
      BY <2>41, <3>1, <3>2
      DEF SaveActiveRun, ProcessTypeOK, stopVars, turnVars, steerVars, drainVars
  <2>42. ASSUME NEW p \in Saves,
               SaveGivesUp(p)
        PROVE  TablesTypeOK' /\ ProcessTypeOK' /\ SteerHolds'
    <3>0. SavedRun[p] \in Runs
      BY DEF ServiceAssumption
    <3>1. TablesTypeOK' /\ ItemsStay
      BY <2>42, <3>0, UnchangedType, TransactionsKeepItems DEF SaveGivesUp
    <3>2. SteerHolds'
      BY <2>42, <3>1, SteerHoldsStays DEF SaveGivesUp, steerVars
    <3>3. QED
      BY <2>42, <3>1, <3>2
      DEF SaveGivesUp, ProcessTypeOK, stopVars, turnVars, steerVars, drainVars
  <2>43. CASE SaveNext
    BY <2>43, <2>39, <2>40, <2>41, <2>42 DEF SaveNext
  <2>44. CASE ClientNext
    BY <2>44, <2>1, <2>2, <2>3, <2>4, <2>5, <2>6, <2>7, <2>8
    DEF ClientNext
  <2>45. CASE SteerNext
    BY <2>45, <2>9, <2>10, <2>11, <2>12, <2>13, <2>14, <2>15, <2>16, <2>17
    DEF SteerNext
  <2>46. CASE DrainNext
    BY <2>46, <2>18, <2>19, <2>20, <2>21
    DEF DrainNext
  <2>47. CASE TurnNext
    BY <2>47, <2>22, <2>23, <2>24, <2>25, <2>26, <2>27, <2>28, <2>29, <2>30,
       <2>31, <2>32, <2>33, <2>34, <2>35, <2>36, <2>37, <2>38
    DEF TurnNext
  <2>48. QED
    BY <1>4, <2>43, <2>44, <2>45, <2>46, <2>47 DEF Next
<1>5. CASE UNCHANGED vars
  <2>1. TablesTypeOK' /\ ItemsStay
    BY <1>1, <1>5, UnchangedType, TransactionsKeepItems DEF vars
  <2>2. SteerHolds'
    BY <1>1, <1>5, <2>1, SteerHoldsStays DEF vars, steerVars
  <2>3. QED
    BY <1>1, <1>5, <2>1, <2>2
    DEF vars, ProcessTypeOK, stopVars, turnVars, steerVars, drainVars
<1>6. QED
  BY <1>4, <1>5

(* The initial tables and processes are well typed. *)
LEMMA TypeInvInit == Init => TypeInv
<1> SUFFICES ASSUME Init PROVE TypeInv
  OBVIOUS
<1>1. TablesTypeOK
  <2>1. \A t \in Turns : events[t] \in Seq(Event)
    BY DEF Init, TablesInit
  <2>2. QED
    BY <2>1, TablesAssumption
    DEF Init, TablesInit, TablesTypeOK, Receipts, TablesAssumption
<1>2. ProcessTypeOK
  BY <1>1, QueueReadsType DEF Init, ProcessTypeOK
<1>3. SteerHolds
  BY DEF Init, TablesInit, SteerHolds
<1>4. QED
  BY <1>1, <1>2, <1>3 DEF TypeInv

(* The inductive form of type correctness. *)
LEMMA ServiceTypeInv == Spec => []TypeInv
<1>1. QED
  BY TypeInvInit, TypeInvStep, PTL DEF Spec

(* Type correctness of the service: whatever the processes have read and   *)
(* whenever they stop, every column holds a value its schema allows.       *)
THEOREM ServiceTypeOK == Spec => []TypeOK
<1>1. TypeInv => TypeOK
  BY DEF TypeInv, ProcessTypeOK, TypeOK
<1>2. QED
  BY <1>1, ServiceTypeInv, PTL
=============================================================================

------------------------- MODULE ThreadTables_proofs -------------------------
(***************************************************************************)
(* Type correctness of the repository's transactions, and what they do to  *)
(* the items.                                                              *)
(***************************************************************************)
EXTENDS TurnAdmissions, ThreadInputs, LifecycleEvents, TranscriptSessions,
        FiniteSetTheorems, TLAPS

-----------------------------------------------------------------------------
(* Type correctness: the transactions. *)

(* A bump of the revision by a natural number keeps it a natural number. *)
LEMMA BumpType ==
  ASSUME revision \in Nat, NEW n \in Nat, Bump(n)
  PROVE  revision' \in Nat
BY DEF Bump

(* Reserving a turn keeps the tables well typed. *)
LEMMA ReserveType ==
  ASSUME TablesTypeOK, NEW t \in Turns, NEW r \in Turns \cup {NULL},
         Reserve(t, r)
  PROVE  TablesTypeOK'
<1>1. revision' \in Nat
  BY BumpType DEF TablesTypeOK, Reserve
<1>2. QED
  BY <1>1 DEF TablesTypeOK, Reserve, sessionVars, inputVars

(* What every admission writes is well typed. *)
LEMMA ActivateType ==
  ASSUME TablesTypeOK, TablesAssumption, NEW t \in Turns, Activate(t)
  PROVE  /\ activeRun' \in Runs \cup {NULL}
         /\ currentTurn' \in Turns \cup {NULL}
         /\ sessionStatus' \in {"idle", "running", "completed", "paused", "failed"}
         /\ admissionSequence' \in Nat
         /\ admissionState' \in [Turns -> {"none", "reserved", "admitted"}]
         /\ executionState' \in
              [Turns -> {"pending", "running", "recovery_required", "settled"}]
         /\ admissionOrder' \in [Turns -> Nat]
         /\ runStatus' \in
              [Runs -> {"none", "created", "running", "completed", "failed", "cancelled"}]
<1>1. RunOf[t] \in Runs
  BY DEF TablesAssumption
<1>2. QED
  BY <1>1 DEF TablesTypeOK, Activate

(* Admitting a reserved turn keeps the tables well typed. *)
LEMMA AdmitWithPromptType ==
  ASSUME TablesTypeOK, TablesAssumption, NEW t \in Turns, AdmitWithPrompt(t)
  PROVE  TablesTypeOK'
<1>1. revision' \in Nat
  BY BumpType DEF TablesTypeOK, AdmitWithPrompt
<1>2. QED
  BY <1>1, ActivateType DEF TablesTypeOK, AdmitWithPrompt, inputVars

(* Admitting a continuation keeps the tables well typed. *)
LEMMA AdmitContinuationType ==
  ASSUME TablesTypeOK, TablesAssumption, NEW t \in Turns, NEW p \in Turns,
         AdmitContinuation(t, p)
  PROVE  TablesTypeOK'
<1>1. revision' \in Nat
  BY BumpType DEF TablesTypeOK, AdmitContinuation
<1>2. QED
  BY <1>1, ActivateType DEF TablesTypeOK, AdmitContinuation, inputVars

(* Starting a queued item keeps the tables well typed. *)
LEMMA ReserveQueuedStartType ==
  ASSUME TablesTypeOK, TablesAssumption, NEW i \in Items, NEW v \in Nat,
         NEW n \in Nat, NEW e \in BOOLEAN, ReserveQueuedStart(i, v, n, e)
  PROVE  TablesTypeOK'
<1>0. QueuedTurn[i] \in Turns
  BY DEF Turns
<1>1. revision' \in Nat
  <2>1. Bump(IF paused THEN 3 ELSE 2)
    BY DEF ReserveQueuedStart
  <2>2. (IF paused THEN 3 ELSE 2) \in Nat
    OBVIOUS
  <2>3. QED
    BY <2>1, <2>2, BumpType DEF TablesTypeOK
<1>2. Activate(QueuedTurn[i])
  BY DEF ReserveQueuedStart
<1>3. /\ itemState' \in
           [Items -> {"none", "pending", "consuming", "consumed", "cancelled"}]
      /\ receipt' \in [Items -> Receipts]
      /\ version' \in [Items -> Nat]
      /\ paused' \in BOOLEAN
  <2>1. /\ itemState' = [itemState EXCEPT ![i] = "consumed"]
        /\ receipt' = [receipt EXCEPT ![i] = "started"]
        /\ version' = [version EXCEPT ![i] = v + 1]
        /\ paused' = FALSE
    BY Zenon DEF ReserveQueuedStart
  <2>2. itemState' \in
          [Items -> {"none", "pending", "consuming", "consumed", "cancelled"}]
    BY <2>1 DEF TablesTypeOK
  <2>3. receipt' \in [Items -> Receipts]
    BY <2>1 DEF TablesTypeOK, Receipts
  <2>4. version' \in [Items -> Nat]
    BY <2>1 DEF TablesTypeOK
  <2>5. QED
    BY <2>1, <2>2, <2>3, <2>4, Zenon
<1>4. UNCHANGED <<revisionOf, continuationOf, executionClaim, events,
                  delivery, target, accepted, applied, itemOrder, queueRow,
                  nextOrder>>
  BY DEF ReserveQueuedStart
<1>5. QED
  BY <1>0, <1>1, <1>2, <1>3, <1>4, ActivateType DEF TablesTypeOK

(* Claiming an execution keeps the tables well typed. *)
LEMMA ClaimExecutionType ==
  ASSUME TablesTypeOK, NEW t \in Turns, NEW c \in {"runtime", "dispatcher"},
         ClaimExecution(t, c)
  PROVE  TablesTypeOK'
<1>1. revision' \in Nat
  BY BumpType DEF TablesTypeOK, ClaimExecution
<1>2. QED
  BY <1>1 DEF TablesTypeOK, ClaimExecution, sessionVars, lineageVars, inputVars

(* Marking an execution for recovery keeps the tables well typed. *)
LEMMA MarkRecoveryRequiredType ==
  ASSUME TablesTypeOK, NEW t \in Turns, NEW c, MarkRecoveryRequired(t, c)
  PROVE  TablesTypeOK'
<1>1. revision' \in Nat
  BY BumpType DEF TablesTypeOK, MarkRecoveryRequired
<1>2. QED
  BY <1>1 DEF TablesTypeOK, MarkRecoveryRequired, sessionVars, lineageVars,
              inputVars

(* Saving the session row keeps the tables well typed. *)
LEMMA EnsureSessionType ==
  ASSUME TablesTypeOK, NEW r \in Runs \cup {NULL}, EnsureSession(r)
  PROVE  TablesTypeOK'
BY DEF TablesTypeOK, EnsureSession, lineageVars, admissionVars, inputVars,
       queueVars

(* Saving a run keeps the tables well typed. *)
LEMMA EnsureRunType ==
  ASSUME TablesTypeOK, NEW r \in Runs, EnsureRun(r)
  PROVE  TablesTypeOK'
BY DEF TablesTypeOK, EnsureRun, sessionVars, lineageVars, admissionVars,
       inputVars, queueVars

(* Storing an item keeps the tables well typed. *)
LEMMA EnqueueType ==
  ASSUME TablesTypeOK, NEW i \in Items, NEW d \in {"queue", "steer"},
         NEW t \in Turns \cup {NULL}, Enqueue(i, d, t)
  PROVE  TablesTypeOK'
BY DEF TablesTypeOK, Enqueue, LockAndIncrement, sessionVars, lineageVars,
       admissionVars

(* Editing an item keeps the tables well typed. *)
LEMMA UpdateType ==
  ASSUME TablesTypeOK, NEW i \in Items, NEW v \in Nat, Update(i, v)
  PROVE  TablesTypeOK'
BY DEF TablesTypeOK, Update, LockAndIncrement, sessionVars, lineageVars,
       admissionVars

(* Turning an item into a steered one keeps the tables well typed. *)
LEMMA ClaimForSteeringType ==
  ASSUME TablesTypeOK, NEW i \in Items, NEW v \in Nat, NEW t \in Turns,
         ClaimForSteering(i, v, t)
  PROVE  TablesTypeOK'
BY DEF TablesTypeOK, ClaimForSteering, LockAndIncrement, sessionVars,
       lineageVars, admissionVars

(* Cancelling an item keeps the tables well typed. *)
LEMMA RemoveType ==
  ASSUME TablesTypeOK, NEW i \in Items, NEW v \in Nat, Remove(i, v)
  PROVE  TablesTypeOK'
BY DEF TablesTypeOK, Remove, LockAndIncrement, Receipts, sessionVars,
       lineageVars, admissionVars

(* Recording a refusal keeps the tables well typed. *)
LEMMA RecordReceiptType ==
  ASSUME TablesTypeOK, NEW i \in Items, NEW v \in Nat,
         RecordReceipt(i, v, "conflict", "cancelled")
  PROVE  TablesTypeOK'
BY DEF TablesTypeOK, RecordReceipt, LockAndIncrement, Receipts, sessionVars,
       lineageVars, admissionVars

(* What appendOne leaves in events is again a sequence of events. *)
LEMMA AppendOneType ==
  ASSUME TablesTypeOK, NEW t \in Turns, NEW type \in EventTypes,
         NEW i \in Items \cup {NULL}, AppendOne(t, type, i)
  PROVE  events' \in [Turns -> Seq(Event)]
<1>1. [type |-> type, item |-> i] \in Event
  BY DEF Event
<1>2. events[t] \in Seq(Event)
  BY DEF TablesTypeOK
<1>3. Append(events[t], [type |-> type, item |-> i]) \in Seq(Event)
  BY <1>1, <1>2
<1>4. QED
  BY <1>3 DEF TablesTypeOK, AppendOne

(* Appending turn.started keeps the tables well typed. *)
LEMMA AppendStartedType ==
  ASSUME TablesTypeOK, NEW t \in Turns, AppendStarted(t)
  PROVE  TablesTypeOK'
<1>1. revision' \in Nat
  BY BumpType DEF TablesTypeOK, AppendStarted
<1>2. events' \in [Turns -> Seq(Event)]
  BY AppendOneType DEF AppendStarted, EventTypes
<1>3. QED
  BY <1>1, <1>2 DEF TablesTypeOK, AppendStarted, sessionVars, lineageVars,
                    admissionVars, inputVars

(* Appending turn.input.accepted keeps the tables well typed. *)
LEMMA AppendAcceptedType ==
  ASSUME TablesTypeOK, NEW t \in Turns, NEW i \in Items, AppendAccepted(t, i)
  PROVE  TablesTypeOK'
<1>1. events' \in [Turns -> Seq(Event)]
  BY AppendOneType DEF AppendAccepted, EventTypes
<1>2. Len(events[t]) + 1 \in Nat
  BY DEF TablesTypeOK
<1>3. /\ itemState' \in
           [Items -> {"none", "pending", "consuming", "consumed", "cancelled"}]
      /\ accepted' \in [Items -> Nat]
      /\ receipt' \in [Items -> Receipts]
      /\ version' \in [Items -> Nat]
      /\ revision' \in Nat
  <2>1. CASE accepted[i] = 0
    <3>1. Bump(1)
      BY <2>1 DEF AppendAccepted
    <3>2. revision' \in Nat
      BY <3>1, BumpType DEF TablesTypeOK
    <3>3. /\ itemState' = [itemState EXCEPT ![i] = "consuming"]
          /\ accepted' = [accepted EXCEPT ![i] = Len(events[t]) + 1]
          /\ receipt' = [receipt EXCEPT ![i] = "accepted"]
          /\ version' = [version EXCEPT ![i] = version[i] + 1]
      BY <2>1 DEF AppendAccepted
    <3>4. QED
      BY <1>2, <3>2, <3>3 DEF TablesTypeOK, Receipts
  <2>2. CASE accepted[i] # 0
    BY <2>2 DEF AppendAccepted, TablesTypeOK
  <2>3. QED
    BY <2>1, <2>2
<1>4. UNCHANGED <<sessionVars, lineageVars, admissionVars, runStatus, delivery,
                  target, applied, itemOrder, queueRow, nextOrder, paused>>
  BY DEF AppendAccepted
<1>5. QED
  BY <1>1, <1>3, <1>4 DEF TablesTypeOK, sessionVars, lineageVars, admissionVars

(* Appending turn.input.applied keeps the tables well typed. *)
LEMMA AppendAppliedType ==
  ASSUME TablesTypeOK, NEW t \in Turns, NEW i \in Items, NEW a,
         AppendApplied(t, i, a)
  PROVE  TablesTypeOK'
<1>1. events' \in [Turns -> Seq(Event)]
  BY AppendOneType DEF AppendApplied, EventTypes
<1>2. Len(events[t]) + 1 \in Nat
  BY DEF TablesTypeOK
<1>3. revision' \in Nat
  BY BumpType DEF TablesTypeOK, AppendApplied
<1>4. /\ itemState' \in
           [Items -> {"none", "pending", "consuming", "consumed", "cancelled"}]
      /\ applied' \in [Items -> Nat]
      /\ receipt' \in [Items -> Receipts]
      /\ version' \in [Items -> Nat]
  BY <1>2 DEF AppendApplied, TablesTypeOK, Receipts
<1>5. UNCHANGED <<sessionVars, lineageVars, admissionVars, runStatus, delivery,
                  target, accepted, itemOrder, queueRow, nextOrder, paused>>
  BY DEF AppendApplied
<1>6. QED
  BY <1>1, <1>3, <1>4, <1>5 DEF TablesTypeOK, sessionVars, lineageVars,
                                admissionVars

(* A turn has finitely many undelivered inputs. *)
LEMMA UndeliveredCount ==
  ASSUME TablesAssumption, NEW t \in Turns
  PROVE  Cardinality(Undelivered(t)) \in Nat
<1>1. IsFiniteSet(Items) /\ Undelivered(t) \subseteq Items
  BY DEF TablesAssumption, Undelivered
<1>2. QED
  BY <1>1, FS_Subset, FS_CardinalityType

(* The projection of a terminal event adds a positive number to the        *)
(* revision: at least the trigger on the settled admission fires.          *)
LEMMA ProjectTerminalBump ==
  ASSUME TablesAssumption, NEW t \in Turns, NEW type, NEW n \in Nat,
         ProjectTerminal(t, type, n)
  PROVE  \E m \in Nat : m > 0 /\ Bump(m)
<1> DEFINE c == Cardinality(Undelivered(t))
           m == n + 1 + (IF type = "turn.completed" THEN 0 ELSE 1) + c
<1>1. c \in Nat
  BY UndeliveredCount
<1>2. Bump(m)
  BY DEF ProjectTerminal
<1> HIDE DEF c
<1>3. m \in Nat /\ m > 0
  BY <1>1
<1>4. QED
  BY <1>2, <1>3

(* The projection of a terminal event keeps the tables well typed. *)
LEMMA ProjectTerminalType ==
  ASSUME TablesTypeOK, TablesAssumption, NEW t \in Turns, NEW type,
         NEW n \in Nat, ProjectTerminal(t, type, n),
         events' \in [Turns -> Seq(Event)]
  PROVE  TablesTypeOK'
<1>1. revision' \in Nat
  BY ProjectTerminalBump, BumpType DEF TablesTypeOK
<1>2. RunOf[t] \in Runs
  BY DEF TablesAssumption
<1>3. /\ RunOutcome(type) \in {"completed", "failed", "cancelled"}
      /\ SessionOutcome(type) \in {"completed", "failed", "paused"}
  BY DEF RunOutcome, SessionOutcome
<1>4. /\ executionState' \in
           [Turns -> {"pending", "running", "recovery_required", "settled"}]
      /\ runStatus' \in
           [Runs -> {"none", "created", "running", "completed", "failed", "cancelled"}]
      /\ activeRun' \in Runs \cup {NULL}
      /\ sessionStatus' \in {"idle", "running", "completed", "paused", "failed"}
  BY <1>2, <1>3 DEF ProjectTerminal, TablesTypeOK
<1>5. /\ receipt' \in [Items -> Receipts]
      /\ version' \in [Items -> Nat]
  BY DEF ProjectTerminal, TablesTypeOK, Receipts
<1>6. paused' \in BOOLEAN
  BY Zenon DEF ProjectTerminal
<1>7. UNCHANGED <<currentTurn, lineageVars, admissionState, executionClaim,
                  itemState, delivery, target, accepted, applied, itemOrder,
                  queueRow, nextOrder>>
  BY DEF ProjectTerminal
<1>8. QED
  BY <1>1, <1>4, <1>5, <1>6, <1>7 DEF TablesTypeOK, lineageVars

(* Appending a terminal event keeps the tables well typed. *)
LEMMA AppendTerminalType ==
  ASSUME TablesTypeOK, TablesAssumption, NEW t \in Turns,
         NEW type \in TerminalTypes, AppendTerminal(t, type)
  PROVE  TablesTypeOK'
<1>1. events' \in [Turns -> Seq(Event)]
  BY AppendOneType DEF AppendTerminal, EventTypes
<1>2. QED
  BY <1>1, ProjectTerminalType DEF AppendTerminal

(* Settling a turn without a stream keeps the tables well typed. *)
LEMMA AppendEmptySettlementType ==
  ASSUME TablesTypeOK, TablesAssumption, NEW t \in Turns,
         NEW type \in TerminalTypes, AppendEmptySettlement(t, type)
  PROVE  TablesTypeOK'
<1>1. /\ [type |-> "turn.started", item |-> NULL] \in Event
      /\ [type |-> type, item |-> NULL] \in Event
  BY DEF Event, EventTypes
<1>2. <<[type |-> "turn.started", item |-> NULL],
        [type |-> type, item |-> NULL]>> \in Seq(Event)
  BY <1>1
<1>3. events' \in [Turns -> Seq(Event)]
  BY <1>2 DEF AppendEmptySettlement, TablesTypeOK
<1>4. QED
  BY <1>3, ProjectTerminalType DEF AppendEmptySettlement

(* Projecting a stored terminal event again keeps the tables well typed. *)
LEMMA RetryTerminalType ==
  ASSUME TablesTypeOK, TablesAssumption, NEW t \in Turns, RetryTerminal(t)
  PROVE  TablesTypeOK'
<1>1. events' \in [Turns -> Seq(Event)]
  BY DEF RetryTerminal, TablesTypeOK
<1>2. QED
  BY <1>1, ProjectTerminalType DEF RetryTerminal

-----------------------------------------------------------------------------
(* What the transactions do to the items. *)

(* What every transaction but an enqueue and a claim for steering does to  *)
(* the items.                                                              *)
ItemsStay ==
  /\ UNCHANGED <<delivery, target>>
  /\ \A i \in Items : itemState[i] # "none" => itemState'[i] # "none"

(* The transactions that leave the items alone, or move them on. *)
LEMMA TransactionsKeepItems ==
  ASSUME TablesTypeOK
  PROVE  /\ UNCHANGED tableVars => ItemsStay
         /\ \A t, r : Reserve(t, r) => ItemsStay
         /\ \A t : AdmitWithPrompt(t) => ItemsStay
         /\ \A t, p : AdmitContinuation(t, p) => ItemsStay
         /\ \A t, c : ClaimExecution(t, c) => ItemsStay
         /\ \A t, c : MarkRecoveryRequired(t, c) => ItemsStay
         /\ \A t : AppendStarted(t) => ItemsStay
         /\ \A t, type, n : ProjectTerminal(t, type, n) => ItemsStay
         /\ \A r : EnsureSession(r) \/ EnsureRun(r) => ItemsStay
<1>1. UNCHANGED tableVars => ItemsStay
  BY DEF tableVars, inputVars, ItemsStay
<1>2. \A t, r : Reserve(t, r) => ItemsStay
  BY DEF Reserve, inputVars, ItemsStay
<1>3. \A t : AdmitWithPrompt(t) => ItemsStay
  BY DEF AdmitWithPrompt, inputVars, ItemsStay
<1>4. \A t, p : AdmitContinuation(t, p) => ItemsStay
  BY DEF AdmitContinuation, inputVars, ItemsStay
<1>5. \A t, c : ClaimExecution(t, c) => ItemsStay
  BY DEF ClaimExecution, inputVars, ItemsStay
<1>6. \A t, c : MarkRecoveryRequired(t, c) => ItemsStay
  BY DEF MarkRecoveryRequired, inputVars, ItemsStay
<1>7. \A t : AppendStarted(t) => ItemsStay
  BY DEF AppendStarted, inputVars, ItemsStay
<1>8. \A t, type, n : ProjectTerminal(t, type, n) => ItemsStay
  BY DEF ProjectTerminal, ItemsStay
<1>9. \A r : EnsureSession(r) \/ EnsureRun(r) => ItemsStay
  BY DEF EnsureSession, EnsureRun, inputVars, ItemsStay
<1>10. QED
  BY <1>1, <1>2, <1>3, <1>4, <1>5, <1>6, <1>7, <1>8, <1>9

(* The transactions on one item that keep its delivery and its target. *)
LEMMA ItemTransactionsKeepItems ==
  ASSUME TablesTypeOK, NEW i \in Items
  PROVE  /\ \A v, n, e : ReserveQueuedStart(i, v, n, e) => ItemsStay
         /\ \A v : Update(i, v) => ItemsStay
         /\ \A v : Remove(i, v) => ItemsStay
         /\ \A v : RecordReceipt(i, v, "conflict", "cancelled") => ItemsStay
         /\ \A t : AppendAccepted(t, i) => ItemsStay
         /\ \A t, a : AppendApplied(t, i, a) => ItemsStay
<1>1. ASSUME NEW v, NEW n, NEW e, ReserveQueuedStart(i, v, n, e) PROVE ItemsStay
  <2>1. /\ itemState' = [itemState EXCEPT ![i] = "consumed"]
        /\ UNCHANGED <<delivery, target>>
    BY <1>1, Zenon DEF ReserveQueuedStart
  <2>2. QED
    BY <2>1 DEF ItemsStay, TablesTypeOK
<1>2. ASSUME NEW v, Update(i, v) PROVE ItemsStay
  BY <1>2 DEF Update, ItemsStay
<1>3. ASSUME NEW v, Remove(i, v) PROVE ItemsStay
  BY <1>3 DEF Remove, ItemsStay, TablesTypeOK
<1>4. ASSUME NEW v, RecordReceipt(i, v, "conflict", "cancelled") PROVE ItemsStay
  BY <1>4 DEF RecordReceipt, ItemsStay, TablesTypeOK
<1>5. ASSUME NEW t, AppendAccepted(t, i) PROVE ItemsStay
  <2>1. /\ UNCHANGED <<delivery, target>>
        /\ \/ UNCHANGED itemState
           \/ itemState' = [itemState EXCEPT ![i] = "consuming"]
    BY <1>5, Zenon DEF AppendAccepted
  <2>2. QED
    BY <2>1 DEF ItemsStay, TablesTypeOK
<1>6. ASSUME NEW t, NEW a, AppendApplied(t, i, a) PROVE ItemsStay
  BY <1>6 DEF AppendApplied, ItemsStay, TablesTypeOK
<1>7. QED
  BY <1>1, <1>2, <1>3, <1>4, <1>5, <1>6

(* A step that touches no table keeps the tables well typed. *)
LEMMA UnchangedType ==
  ASSUME TablesTypeOK, UNCHANGED tableVars
  PROVE  TablesTypeOK'
BY DEF TablesTypeOK, tableVars, sessionVars, lineageVars, admissionVars,
       inputVars, queueVars
=============================================================================

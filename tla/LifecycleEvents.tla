--------------------------- MODULE LifecycleEvents ---------------------------
(***************************************************************************)
(* PostgresLifecycleEventStore.appendBatch.  The transaction takes the     *)
(* turn's advisory lock, checks identity and sequence, inserts the event   *)
(* and projects it onto the inbox, the admission, the run, the session and *)
(* the queue; it is one action.  An event that is refused, or whose        *)
(* projection throws, rolls everything back and is not a step.  Events     *)
(* without a projection on these tables are left out, and the batch that   *)
(* opens a turn (queued, started, attempt started) and the one that ends   *)
(* it (attempt outcome, turn outcome) are one event each.                  *)
(***************************************************************************)
EXTENDS ThreadTables

TerminalStream(t) == LastType(t) \in TerminalTypes

(* appendOne for an event whose sequence is last + 1. *)
AppendOne(t, type, i) ==
  /\ admissionState[t] = "admitted"
  /\ ~TerminalStream(t)
  /\ events' = [events EXCEPT ![t] = Append(@, [type |-> type, item |-> i])]

(* RuntimeLifecycleCoordinator.start writes from sequence 1. *)
AppendStarted(t) ==
  /\ events[t] = <<>>
  /\ AppendOne(t, "turn.started", NULL)
  /\ Bump(1)
  /\ UNCHANGED <<sessionVars, lineageVars, admissionVars, runStatus,
                 inputVars, queueRow, nextOrder, paused>>

(* READ_ACCEPTED_THREAD_INPUT_SQL for the event at sequence n. *)
AcceptableInput(t, i, n) ==
  /\ delivery[i] = "queue" \/ target[i] = t
  /\ itemState[i] \in {"pending", "consuming", "consumed"}
  /\ accepted[i] \in {0, n}

(* projectAcceptedThreadInput: a row that has no accepted_sequence takes   *)
(* the event's.                                                            *)
AppendAccepted(t, i) ==
  LET n == Len(events[t]) + 1 IN
  /\ AppendOne(t, "turn.input.accepted", i)
  /\ AcceptableInput(t, i, n)
  /\ IF accepted[i] = 0
       THEN /\ itemState' = [itemState EXCEPT ![i] = "consuming"]
            /\ accepted' = [accepted EXCEPT ![i] = n]
            /\ receipt' = [receipt EXCEPT ![i] = "accepted"]
            /\ version' = [version EXCEPT ![i] = @ + 1]
            /\ Bump(1)
       ELSE UNCHANGED <<itemState, accepted, receipt, version, revision>>
  /\ UNCHANGED <<sessionVars, lineageVars, admissionVars, runStatus, delivery,
                 target, applied, itemOrder, queueRow, nextOrder, paused>>

(* projectAppliedThreadInput: the event names the sequence a at which its  *)
(* turn accepted the input.                                                *)
AppendApplied(t, i, a) ==
  LET n == Len(events[t]) + 1 IN
  /\ AppendOne(t, "turn.input.applied", i)
  /\ accepted[i] = a
  /\ applied[i] = 0
  /\ itemState[i] = "consuming"
  /\ itemState' = [itemState EXCEPT ![i] = "consumed"]
  /\ applied' = [applied EXCEPT ![i] = n]
  /\ receipt' = [receipt EXCEPT ![i] = "applied"]
  /\ version' = [version EXCEPT ![i] = @ + 1]
  /\ Bump(1)
  /\ UNCHANGED <<sessionVars, lineageVars, admissionVars, runStatus, delivery,
                 target, accepted, itemOrder, queueRow, nextOrder, paused>>

-----------------------------------------------------------------------------
RunOutcome(type) ==
  CASE type = "turn.completed" -> "completed"
    [] type = "turn.interrupted" -> "cancelled"
    [] OTHER -> "failed"

(* Mutant: the session takes the run's status. *)
SessionOutcomeOfRun(type) == RunOutcome(type)

SessionOutcome(type) ==
  CASE type = "turn.completed" -> "completed"
    [] type = "turn.interrupted" -> "paused"
    [] OTHER -> "failed"

(* Mutant: the run takes the status of whichever turn settles. *)
LaterAdmissionIgnored(t) == FALSE

(* The NOT EXISTS of SETTLE_RUN_STATUS_SQL. *)
LaterAdmission(t) ==
  \E u \in Turns : /\ RunOf[u] = RunOf[t]
                   /\ admissionOrder[u] > admissionOrder[t]

(* Mutant: looks for the inputs that were never accepted. *)
UndeliveredPending(t) ==
  {i \in Items : delivery[i] = "steer" /\ target[i] = t /\ itemState[i] = "pending"}

(* READ_UNDELIVERED_THREAD_INPUTS_SQL. *)
Undelivered(t) ==
  {i \in Items : /\ delivery[i] = "steer"
                 /\ target[i] = t
                 /\ itemState[i] = "consuming"
                 /\ accepted[i] # 0
                 /\ applied[i] = 0}

(* Mutant: only the run is compared. *)
IsActiveRun(t) == activeRun = RunOf[t]

(* READ_ACTIVE_TURN_SQL and the comparison that follows it. *)
IsActive(t) == activeRun = RunOf[t] /\ currentTurn = t

(* projectTerminalStatus and projectUndeliveredThreadInputs; n is what the *)
(* insert itself adds to the revision.                                     *)
ProjectTerminal(t, type, n) ==
  /\ executionState' = [executionState EXCEPT ![t] = "settled"]
  /\ runStatus' = IF LaterAdmission(t) THEN runStatus
                  ELSE [runStatus EXCEPT ![RunOf[t]] = RunOutcome(type)]
  /\ IF IsActive(t)
       THEN /\ activeRun' = NULL
            /\ sessionStatus' = SessionOutcome(type)
       ELSE UNCHANGED <<activeRun, sessionStatus>>
  /\ paused' = (paused \/ (queueRow /\ type # "turn.completed"))
  /\ receipt' = [i \in Items |->
       IF i \in Undelivered(t) THEN "unconfirmed" ELSE receipt[i]]
  /\ version' = [i \in Items |->
       IF i \in Undelivered(t) THEN version[i] + 1 ELSE version[i]]
  /\ Bump(n + 1 + (IF type = "turn.completed" THEN 0 ELSE 1)
            + Cardinality(Undelivered(t)))
  /\ UNCHANGED <<currentTurn, lineageVars, admissionState, executionClaim,
                 itemState, delivery, target, accepted, applied, itemOrder,
                 queueRow, nextOrder>>

AppendTerminal(t, type) ==
  /\ AppendOne(t, type, NULL)
  /\ ProjectTerminal(t, type, 1)

(* The batch of settleEmptyRuntimeLifecycle: the turn is opened and ended. *)
AppendEmptySettlement(t, type) ==
  /\ admissionState[t] = "admitted"
  /\ events[t] = <<>>
  /\ events' = [events EXCEPT ![t] = <<[type |-> "turn.started", item |-> NULL],
                                      [type |-> type, item |-> NULL]>>]
  /\ ProjectTerminal(t, type, 2)

(* Mutant: the retry is not recognised and its event is inserted again. *)
RetryTerminalAppends(t) ==
  /\ TerminalStream(t)
  /\ ProjectTerminal(t, LastType(t), 1)
  /\ events' = [events EXCEPT ![t] = Append(@, [type |-> LastType(t), item |-> NULL])]

(* appendTerminalBatch retries a batch whose commit was not acknowledged:  *)
(* the event is found by its idempotency key and projected again.          *)
RetryTerminal(t) ==
  /\ TerminalStream(t)
  /\ ProjectTerminal(t, LastType(t), 0)
  /\ UNCHANGED events
=============================================================================

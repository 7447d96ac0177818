--------------------------- MODULE TurnAdmissions ---------------------------
(***************************************************************************)
(* PostgresTurnAdmissionRepository.  Every operation but                   *)
(* markRecoveryRequired is a transaction that first locks the session row  *)
(* or the admission row, so it is one action.  Its conflicts and repeated  *)
(* commands write nothing and are not steps.                               *)
(***************************************************************************)
EXTENDS ThreadTables

(* READ_REVISION_TURN_SQL: the current turn, terminal, not revised yet. *)
RevisionTarget(r) ==
  /\ admissionState[r] = "admitted"
  /\ currentTurn = r
  /\ \A u \in Turns : ~(revisionOf[u] = r /\ admissionState[u] = "admitted")
  /\ \E k \in 1..Len(events[r]) : events[r][k].type \in TerminalTypes

(* reserve.  No caller passes it a continuation. *)
Reserve(t, r) ==
  /\ admissionState[t] = "none"
  /\ r # NULL => RevisionTarget(r)
  /\ admissionState' = [admissionState EXCEPT ![t] = "reserved"]
  /\ revisionOf' = [revisionOf EXCEPT ![t] = r]
  /\ Bump(1)
  /\ UNCHANGED <<sessionVars, admissionSequence, admissionOrder,
                 continuationOf, executionState, executionClaim, runStatus,
                 events, inputVars, queueRow, nextOrder, paused>>

(* The next admission_order, the run upserted as running, the session      *)
(* pointed at the turn and the admission promoted: what every admission    *)
(* does.                                                                   *)
Activate(t) ==
  /\ admissionSequence' = admissionSequence + 1
  /\ admissionOrder' = [admissionOrder EXCEPT ![t] = admissionSequence + 1]
  /\ runStatus' = [runStatus EXCEPT ![RunOf[t]] = "running"]
  /\ activeRun' = RunOf[t]
  /\ currentTurn' = t
  /\ sessionStatus' = "running"
  /\ admissionState' = [admissionState EXCEPT ![t] = "admitted"]
  /\ executionState' = [executionState EXCEPT ![t] = "pending"]

(* Mutant: the revision target is only checked when it is reserved. *)
AdmitWithPromptUnchecked(t) ==
  /\ admissionState[t] = "reserved"
  /\ Activate(t)
  /\ Bump(1)
  /\ UNCHANGED <<revisionOf, continuationOf, executionClaim, events,
                 inputVars, queueRow, nextOrder, paused>>

(* Another turn may be active: admitWithPrompt does not look. *)
AdmitWithPrompt(t) ==
  /\ admissionState[t] = "reserved"
  /\ revisionOf[t] # NULL => RevisionTarget(revisionOf[t])
  /\ Activate(t)
  /\ Bump(1)
  /\ UNCHANGED <<revisionOf, continuationOf, executionClaim, events,
                 inputVars, queueRow, nextOrder, paused>>

(* READ_CONTINUATION_TARGET_FOR_COMMAND_SQL for a command that has no      *)
(* admission: the idle session's current turn, interrupted, not continued. *)
ContinuationTarget(p) ==
  /\ admissionState[p] = "admitted"
  /\ \E k \in 1..Len(events[p]) : events[p][k].type = "turn.interrupted"
  /\ currentTurn = p
  /\ activeRun = NULL
  /\ \A u \in Turns :
       ~(continuationOf[u] = p /\ admissionState[u] = "admitted")

AdmitContinuation(t, p) ==
  /\ admissionState[t] = "none"
  /\ ContinuationTarget(p)
  /\ continuationOf' = [continuationOf EXCEPT ![t] = p]
  /\ Activate(t)
  /\ Bump(2)
  /\ UNCHANGED <<revisionOf, executionClaim, events, inputVars, queueRow,
                 nextOrder, paused>>

(* Mutant: the start is not tied to the snapshot it was chosen from. *)
ReserveQueuedStartAnyRevision(i, v, n, explicitStart) ==
  LET t == QueuedTurn[i] IN
  /\ queueRow
  /\ admissionState[t] = "none"
  /\ activeRun = NULL
  /\ explicitStart \/ (/\ currentTurn # NULL
                       /\ LastType(currentTurn) = "turn.completed"
                       /\ ~paused)
  /\ delivery[i] = "queue"
  /\ itemState[i] = "pending"
  /\ version[i] = v
  /\ itemState' = [itemState EXCEPT ![i] = "consumed"]
  /\ receipt' = [receipt EXCEPT ![i] = "started"]
  /\ version' = [version EXCEPT ![i] = v + 1]
  /\ paused' = FALSE
  /\ Activate(t)
  /\ Bump(IF paused THEN 3 ELSE 2)
  /\ UNCHANGED <<revisionOf, continuationOf, executionClaim, events,
                 delivery, target, accepted, applied, itemOrder, queueRow,
                 nextOrder>>

(* reserveQueuedStart for an item that has no admission.  The caller holds *)
(* the item's version v and the queue's revision n from a snapshot.        *)
ReserveQueuedStart(i, v, n, explicitStart) ==
  LET t == QueuedTurn[i] IN
  /\ queueRow
  /\ admissionState[t] = "none"
  /\ revision = n
  /\ activeRun = NULL
  /\ explicitStart \/ (/\ currentTurn # NULL
                       /\ LastType(currentTurn) = "turn.completed"
                       /\ ~paused)
  /\ delivery[i] = "queue"
  /\ itemState[i] = "pending"
  /\ version[i] = v
  /\ itemState' = [itemState EXCEPT ![i] = "consumed"]
  /\ receipt' = [receipt EXCEPT ![i] = "started"]
  /\ version' = [version EXCEPT ![i] = v + 1]
  /\ paused' = FALSE
  /\ Activate(t)
  /\ Bump(IF paused THEN 3 ELSE 2)
  /\ UNCHANGED <<revisionOf, continuationOf, executionClaim, events,
                 delivery, target, accepted, applied, itemOrder, queueRow,
                 nextOrder>>

ClaimExecution(t, c) ==
  /\ admissionState[t] = "admitted"
  /\ executionState[t] = "pending"
  /\ executionState' = [executionState EXCEPT ![t] = "running"]
  /\ executionClaim' = [executionClaim EXCEPT ![t] = c]
  /\ Bump(1)
  /\ UNCHANGED <<sessionVars, lineageVars, admissionState, runStatus, events,
                 inputVars, queueRow, nextOrder, paused>>

MarkRecoveryRequired(t, c) ==
  /\ executionClaim[t] = c
  /\ executionState[t] = "running"
  /\ executionState' = [executionState EXCEPT ![t] = "recovery_required"]
  /\ Bump(1)
  /\ UNCHANGED <<sessionVars, lineageVars, admissionState, executionClaim,
                 runStatus, events, inputVars, queueRow, nextOrder, paused>>
=============================================================================

---------------------------- MODULE ThreadInputs ----------------------------
(***************************************************************************)
(* PostgresThreadInputRepository.  lockState creates or locks the          *)
(* session's thread_input_state row first, so an operation is one action.  *)
(* An operation that answers conflict only makes sure the row exists.      *)
(***************************************************************************)
EXTENDS ThreadTables

(* lockState, then incrementRevision. *)
LockAndIncrement ==
  /\ queueRow' = TRUE
  /\ revision' = revision + 1

Enqueue(i, d, t) ==
  /\ itemState[i] = "none"
  /\ d = "steer" => t # NULL
  /\ nextOrder' = nextOrder + 1
  /\ itemOrder' = [itemOrder EXCEPT ![i] = nextOrder + 1]
  /\ itemState' = [itemState EXCEPT ![i] = "pending"]
  /\ delivery' = [delivery EXCEPT ![i] = d]
  /\ target' = [target EXCEPT ![i] = t]
  /\ version' = [version EXCEPT ![i] = 1]
  /\ LockAndIncrement
  /\ UNCHANGED <<sessionVars, lineageVars, admissionVars, runStatus, events,
                 accepted, applied, receipt, paused>>

Update(i, v) ==
  /\ itemState[i] = "pending"
  /\ version[i] = v
  /\ version' = [version EXCEPT ![i] = v + 1]
  /\ LockAndIncrement
  /\ UNCHANGED <<sessionVars, lineageVars, admissionVars, runStatus, events,
                 itemState, delivery, target, accepted, applied, receipt,
                 itemOrder, nextOrder, paused>>

(* Mutant: an item that is no longer pending can be claimed. *)
ClaimForSteeringAnyState(i, v, t) ==
  /\ delivery[i] = "queue"
  /\ itemState[i] # "none"
  /\ version[i] = v
  /\ delivery' = [delivery EXCEPT ![i] = "steer"]
  /\ target' = [target EXCEPT ![i] = t]
  /\ itemState' = [itemState EXCEPT ![i] = "consuming"]
  /\ version' = [version EXCEPT ![i] = v + 1]
  /\ LockAndIncrement
  /\ UNCHANGED <<sessionVars, lineageVars, admissionVars, runStatus, events,
                 accepted, applied, receipt, itemOrder, nextOrder, paused>>

ClaimForSteering(i, v, t) ==
  /\ delivery[i] = "queue"
  /\ itemState[i] = "pending"
  /\ version[i] = v
  /\ delivery' = [delivery EXCEPT ![i] = "steer"]
  /\ target' = [target EXCEPT ![i] = t]
  /\ itemState' = [itemState EXCEPT ![i] = "consuming"]
  /\ version' = [version EXCEPT ![i] = v + 1]
  /\ LockAndIncrement
  /\ UNCHANGED <<sessionVars, lineageVars, admissionVars, runStatus, events,
                 accepted, applied, receipt, itemOrder, nextOrder, paused>>

Remove(i, v) ==
  /\ itemState[i] = "pending"
  /\ version[i] = v
  /\ itemState' = [itemState EXCEPT ![i] = "cancelled"]
  /\ receipt' = [receipt EXCEPT ![i] = "cancelled"]
  /\ version' = [version EXCEPT ![i] = v + 1]
  /\ LockAndIncrement
  /\ UNCHANGED <<sessionVars, lineageVars, admissionVars, runStatus, events,
                 delivery, target, accepted, applied, itemOrder, nextOrder,
                 paused>>

(* Mutant: the receipt is written whatever the item's version is. *)
RecordReceiptAnyVersion(i, v, r, s) ==
  /\ itemState[i] # "none"
  /\ itemState' = [itemState EXCEPT ![i] = s]
  /\ receipt' = [receipt EXCEPT ![i] = r]
  /\ version' = [version EXCEPT ![i] = @ + 1]
  /\ LockAndIncrement
  /\ UNCHANGED <<sessionVars, lineageVars, admissionVars, runStatus, events,
                 delivery, target, accepted, applied, itemOrder, nextOrder,
                 paused>>

(* recordReceipt checks the version and nothing else. *)
RecordReceipt(i, v, r, s) ==
  /\ itemState[i] # "none"
  /\ version[i] = v
  /\ itemState' = [itemState EXCEPT ![i] = s]
  /\ receipt' = [receipt EXCEPT ![i] = r]
  /\ version' = [version EXCEPT ![i] = v + 1]
  /\ LockAndIncrement
  /\ UNCHANGED <<sessionVars, lineageVars, admissionVars, runStatus, events,
                 delivery, target, accepted, applied, itemOrder, nextOrder,
                 paused>>
=============================================================================

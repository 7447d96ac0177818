---------------------------- MODULE ThreadTables ----------------------------
(***************************************************************************)
(* The rows the control plane keeps for one conversation (one session and  *)
(* its thread): the session row, canonical_turn_admissions, runs,          *)
(* canonical_lifecycle_events, thread_inputs and thread_input_state.  One  *)
(* variable is one column.  A client message, a resume command or a queue  *)
(* item fixes its turn id, attempt id and run id, so a turn stands for all *)
(* of them.  Owner, workspace, task and fingerprint mismatches reject a    *)
(* request before it writes and are left out; so is the message text.      *)
(***************************************************************************)
EXTENDS Integers, Sequences, FiniteSets

CONSTANTS
  ChatTurns,     \* turns of client messages
  ResumeTurns,   \* turns of resume commands
  Items,         \* thread inputs
  QueuedTurn,    \* QueuedTurn[i]: the turn that starting item i creates
  Runs,
  RunOf,         \* RunOf[t]: run of turn t
  SessionRun,    \* the run that the session was created with
  NULL           \* SQL NULL in columns that hold a turn, a run or an item

Turns == ChatTurns \cup ResumeTurns \cup {QueuedTurn[i] : i \in Items}

ASSUME TablesAssumption ==
  /\ IsFiniteSet(Items)
  /\ RunOf \in [Turns -> Runs]
  /\ SessionRun \in Runs
  /\ DOMAIN QueuedTurn = Items
  /\ \A i, j \in Items : QueuedTurn[i] = QueuedTurn[j] => i = j
  /\ \A i \in Items : QueuedTurn[i] \notin ChatTurns \cup ResumeTurns
  /\ ChatTurns \cap ResumeTurns = {}
  /\ NULL \notin Turns \cup Runs \cup Items

VARIABLES
  activeRun,          \* sessions.active_run_id
  currentTurn,        \* sessions.current_turn_id
  sessionStatus,      \* sessions.status
  admissionSequence,  \* sessions.admission_sequence
  admissionState,     \* canonical_turn_admissions, "none" where there is no row
  executionState,
  executionClaim,     \* who wrote execution_claim_id
  admissionOrder,     \* 0 is NULL
  revisionOf,
  continuationOf,
  runStatus,          \* runs.status, "none" where there is no row
  events,             \* events[t]: canonical_lifecycle_events of turn t
  itemState,          \* thread_inputs, "none" where there is no row
  delivery,
  target,             \* target_turn_id
  accepted,           \* accepted_sequence, 0 is NULL
  applied,            \* applied_sequence, 0 is NULL
  receipt,            \* status of receipt_json
  version,
  itemOrder,          \* order_number
  queueRow,           \* thread_input_state has the session's row
  nextOrder,
  revision,
  paused

sessionVars == <<activeRun, currentTurn, sessionStatus>>
lineageVars == <<admissionSequence, admissionOrder, revisionOf, continuationOf>>
admissionVars == <<admissionState, executionState, executionClaim>>
inputVars == <<itemState, delivery, target, accepted, applied, receipt,
               version, itemOrder>>
queueVars == <<queueRow, nextOrder, revision, paused>>

tableVars == <<sessionVars, lineageVars, admissionVars, runStatus, events,
               inputVars, queueVars>>

TerminalTypes == {"turn.completed", "turn.failed", "turn.interrupted"}
EventTypes == {"turn.started", "turn.input.accepted", "turn.input.applied"}
              \cup TerminalTypes
Event == [type : EventTypes, item : Items \cup {NULL}]

Receipts == {"none", "started", "accepted", "applied", "unconfirmed",
             "cancelled", "conflict"}

TablesTypeOK ==
  /\ activeRun \in Runs \cup {NULL}
  /\ currentTurn \in Turns \cup {NULL}
  /\ sessionStatus \in {"idle", "running", "completed", "paused", "failed"}
  /\ admissionSequence \in Nat
  /\ admissionState \in [Turns -> {"none", "reserved", "admitted"}]
  /\ executionState \in
       [Turns -> {"pending", "running", "recovery_required", "settled"}]
  /\ executionClaim \in [Turns -> {"none", "runtime", "dispatcher"}]
  /\ admissionOrder \in [Turns -> Nat]
  /\ revisionOf \in [Turns -> Turns \cup {NULL}]
  /\ continuationOf \in [Turns -> Turns \cup {NULL}]
  /\ runStatus \in
       [Runs -> {"none", "created", "running", "completed", "failed", "cancelled"}]
  /\ events \in [Turns -> Seq(Event)]
  /\ itemState \in
       [Items -> {"none", "pending", "consuming", "consumed", "cancelled"}]
  /\ delivery \in [Items -> {"queue", "steer"}]
  /\ target \in [Items -> Turns \cup {NULL}]
  /\ accepted \in [Items -> Nat]
  /\ applied \in [Items -> Nat]
  /\ receipt \in [Items -> Receipts]
  /\ version \in [Items -> Nat]
  /\ itemOrder \in [Items -> Nat]
  /\ queueRow \in BOOLEAN
  /\ nextOrder \in Nat
  /\ revision \in Nat
  /\ paused \in BOOLEAN

(* A session that has had no turn.  The request that creates it inserts    *)
(* the session, stores its run as created and then names that run in       *)
(* active_run_id, and may stop after each of the three statements.         *)
TablesInit ==
  /\ activeRun \in {NULL, SessionRun}
  /\ currentTurn = NULL
  /\ sessionStatus = "idle"
  /\ admissionSequence = 0
  /\ admissionState = [t \in Turns |-> "none"]
  /\ executionState = [t \in Turns |-> "pending"]
  /\ executionClaim = [t \in Turns |-> "none"]
  /\ admissionOrder = [t \in Turns |-> 0]
  /\ revisionOf = [t \in Turns |-> NULL]
  /\ continuationOf = [t \in Turns |-> NULL]
  /\ runStatus \in {[r \in Runs |-> "none"],
                   [r \in Runs |-> IF r = SessionRun THEN "created" ELSE "none"]}
  /\ activeRun # NULL => runStatus[activeRun] = "created"
  /\ events = [t \in Turns |-> <<>>]
  /\ itemState = [i \in Items |-> "none"]
  /\ delivery = [i \in Items |-> "queue"]
  /\ target = [i \in Items |-> NULL]
  /\ accepted = [i \in Items |-> 0]
  /\ applied = [i \in Items |-> 0]
  /\ receipt = [i \in Items |-> "none"]
  /\ version = [i \in Items |-> 0]
  /\ itemOrder = [i \in Items |-> 0]
  /\ queueRow = FALSE
  /\ nextOrder = 0
  /\ revision = 0
  /\ paused = FALSE

(* Type of the last event of a turn's stream. *)
LastType(t) ==
  IF events[t] = <<>> THEN "none" ELSE events[t][Len(events[t])].type

(* Mutant: the triggers are not installed. *)
BumpNothing(n) == revision' = revision

(* The triggers on admissions and events add to revision where the row     *)
(* exists; the UPDATE does nothing where it does not.                      *)
Bump(n) == revision' = IF queueRow THEN revision + n ELSE revision
=============================================================================

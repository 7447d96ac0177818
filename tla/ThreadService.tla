---------------------------- MODULE ThreadService ----------------------------
(***************************************************************************)
(* One conversation of the brain service.  Client requests, the queue's    *)
(* automatic start, the steering controller and the runtime of each turn   *)
(* run concurrently; each keeps what it has read between its calls to the  *)
(* repositories, and any of them may stop between two calls.               *)
(***************************************************************************)
EXTENDS TurnAdmissions, ThreadInputs, LifecycleEvents, TranscriptSessions

CONSTANTS
  Saves,        \* further POST /api/sessions requests for this session
  SavedRun,     \* SavedRun[p]: the runId that request p carries
  Drainers,     \* concurrent automatic starts
  MaxVersion,   \* bound: edits and repeated steers of an item
  SteeredItems, \* bound: the items that clients steer
  FailingTurns  \* bound: the turns whose processes fail

ASSUME ServiceAssumption ==
  /\ MaxVersion \in Nat
  /\ SteeredItems \subseteq Items
  /\ FailingTurns \subseteq Turns
  /\ SavedRun \in [Saves -> Runs]

VARIABLES
  saveStep,      \* saveStep[p]: the last statement of request p that committed
  owner,         \* owner[t]: what the process that acts for turn t is doing
  stopStep,      \* stopStep[t]: the state of t that its Stop has read
  stopping,      \* stopping[t]: the sequence the Stop will write, or 0
  steering,      \* steering[i]: item versions of steer requests at the runtime
  searched,      \* searched[i]: those whose search of the history found nothing
  refused,       \* refused[i]: those that found no live owner
  drainStep,     \* what drainer d has read
  drainRevision,
  drainQueue     \* its pending queue items, each with its version

drainVars == <<drainStep, drainRevision, drainQueue>>
steerVars == <<steering, searched, refused>>
stopVars == <<stopStep, stopping>>
turnVars == <<owner, stopVars>>
vars == <<tableVars, saveStep, turnVars, steerVars, drainVars>>

(* What list may have read of the queue: items with their versions. *)
QueueReads == UNION {[q -> Nat] : q \in SUBSET Items}
NothingRead == [i \in {} |-> 0]

TypeOK ==
  /\ TablesTypeOK
  /\ saveStep \in [Saves -> {"unsent", "session", "run", "done"}]
  /\ owner \in [Turns -> {"none", "claimed", "starting", "live", "settling",
                          "retrying"}]
  /\ stopStep \in [Turns -> {"none", "running", "recovery_required", "read"}]
  /\ stopping \in [Turns -> Nat]
  /\ steering \in [Items -> SUBSET Nat]
  /\ searched \in [Items -> SUBSET Nat]
  /\ refused \in [Items -> SUBSET Nat]
  /\ drainStep \in [Drainers -> {"idle", "state", "inputs"}]
  /\ drainRevision \in [Drainers -> Nat]
  /\ drainQueue \in [Drainers -> QueueReads]

Init ==
  /\ TablesInit
  /\ saveStep = [p \in Saves |-> "unsent"]
  /\ owner = [t \in Turns |-> "none"]
  /\ stopStep = [t \in Turns |-> "none"]
  /\ stopping = [t \in Turns |-> 0]
  /\ steering = [i \in Items |-> {}]
  /\ searched = [i \in Items |-> {}]
  /\ refused = [i \in Items |-> {}]
  /\ drainStep = [d \in Drainers |-> "idle"]
  /\ drainRevision = [d \in Drainers |-> 0]
  /\ drainQueue = [d \in Drainers |-> NothingRead]

-----------------------------------------------------------------------------
(* POST /api/sessions: three statements, each a transaction of its own.    *)
(* The web client sends it again when it had no answer.  It does not wait  *)
(* for the answer before the first chat either: statements of the request  *)
(* that created the session which come after a turn are those of a request *)
(* here whose first statement found the row as it was inserted.            *)

SaveSession(p) ==
  /\ saveStep[p] = "unsent"
  /\ EnsureSession(NULL)
  /\ saveStep' = [saveStep EXCEPT ![p] = "session"]
  /\ UNCHANGED <<turnVars, steerVars, drainVars>>

SaveRun(p) ==
  /\ saveStep[p] = "session"
  /\ EnsureRun(SavedRun[p])
  /\ saveStep' = [saveStep EXCEPT ![p] = "run"]
  /\ UNCHANGED <<turnVars, steerVars, drainVars>>

SaveActiveRun(p) ==
  /\ saveStep[p] = "run"
  /\ EnsureSession(SavedRun[p])
  /\ saveStep' = [saveStep EXCEPT ![p] = "done"]
  /\ UNCHANGED <<turnVars, steerVars, drainVars>>

(* The request has no runId, the run is another workspace's, or the        *)
(* process stops.                                                          *)
SaveGivesUp(p) ==
  /\ saveStep[p] \in {"session", "run"}
  /\ saveStep' = [saveStep EXCEPT ![p] = "done"]
  /\ UNCHANGED <<tableVars, turnVars, steerVars, drainVars>>

-----------------------------------------------------------------------------
(* Client requests.  An edit, a removal or a start that names a version or *)
(* a revision that is no longer the stored one is refused without a write, *)
(* so these actions name the stored ones.                                  *)

StartTurn(t, r) ==
  /\ Reserve(t, r)
  /\ UNCHANGED <<saveStep, turnVars, steerVars, drainVars>>

Chat(t) ==
  /\ AdmitWithPrompt(t)
  /\ UNCHANGED <<saveStep, turnVars, steerVars, drainVars>>

Resume(t, p) ==
  /\ AdmitContinuation(t, p)
  /\ UNCHANGED <<saveStep, turnVars, steerVars, drainVars>>

StartItem(i) ==
  /\ ReserveQueuedStart(i, version[i], revision, TRUE)
  /\ UNCHANGED <<saveStep, turnVars, steerVars, drainVars>>

EnqueueItem(i) ==
  /\ Enqueue(i, "queue", NULL)
  /\ UNCHANGED <<saveStep, turnVars, steerVars, drainVars>>

EditItem(i) ==
  /\ version[i] < MaxVersion
  /\ Update(i, version[i])
  /\ UNCHANGED <<saveStep, turnVars, steerVars, drainVars>>

RemoveItem(i) ==
  /\ Remove(i, version[i])
  /\ UNCHANGED <<saveStep, turnVars, steerVars, drainVars>>

(* A request for an item that does not exist still creates the state row. *)
RefusedRequest ==
  /\ ~queueRow
  /\ queueRow' = TRUE
  /\ UNCHANGED <<sessionVars, lineageVars, admissionVars, runStatus, events,
                 inputVars, nextOrder, revision, paused, saveStep, turnVars,
                 steerVars, drainVars>>

-----------------------------------------------------------------------------
(* Steering: ThreadInputController stores or claims the item for an        *)
(* admitted turn, asks the turn's runtime to accept it and, when the       *)
(* runtime has no live owner for the turn, cancels the item at the version *)
(* it stored or read.                                                      *)

SteerNew(i, t) ==
  /\ admissionState[t] = "admitted"
  /\ Enqueue(i, "steer", t)
  /\ steering' = [steering EXCEPT ![i] = @ \cup {1}]
  /\ UNCHANGED <<saveStep, turnVars, searched, refused, drainVars>>

SteerQueued(i, t) ==
  /\ admissionState[t] = "admitted"
  /\ ClaimForSteering(i, version[i], t)
  /\ steering' = [steering EXCEPT ![i] = @ \cup {version[i] + 1}]
  /\ UNCHANGED <<saveStep, turnVars, searched, refused, drainVars>>

(* The client repeats a request that has no outcome yet. *)
SteerAgain(i) ==
  /\ itemState[i] # "none"
  /\ delivery[i] = "steer"
  /\ receipt[i] \notin {"accepted", "applied", "unconfirmed"}
  /\ version[i] < MaxVersion
  /\ steering' = [steering EXCEPT ![i] = @ \cup {version[i]}]
  /\ UNCHANGED <<tableVars, saveStep, turnVars, searched, refused, drainVars>>

(* handleThreadInputSteerRequest reads the turn's history first ... *)
SteerSearches(i, v) ==
  /\ v \in steering[i]
  /\ \A k \in 1..Len(events[target[i]]) :
       events[target[i]][k] # [type |-> "turn.input.accepted", item |-> i]
  /\ steering' = [steering EXCEPT ![i] = @ \ {v}]
  /\ searched' = [searched EXCEPT ![i] = @ \cup {v}]
  /\ UNCHANGED <<tableVars, saveStep, turnVars, refused, drainVars>>

(* ... and then asks the turn's owner to accept the input. *)
SteerAccepted(i, v) ==
  /\ v \in searched[i]
  /\ owner[target[i]] = "live"
  /\ events[target[i]] # <<>>
  /\ AppendAccepted(target[i], i)
  /\ searched' = [searched EXCEPT ![i] = @ \ {v}]
  /\ UNCHANGED <<saveStep, turnVars, steering, refused, drainVars>>

(* The registry has no owner for the turn. *)
SteerRefused(i, v) ==
  /\ v \in searched[i]
  /\ owner[target[i]] \notin {"live", "retrying"}
  /\ searched' = [searched EXCEPT ![i] = @ \ {v}]
  /\ refused' = [refused EXCEPT ![i] = @ \cup {v}]
  /\ UNCHANGED <<tableVars, saveStep, turnVars, steering, drainVars>>

(* The history has an acceptance, the acceptance fails, or the reply or    *)
(* the controller is lost: nothing more is written.                        *)
SteerUnknown(i, v) ==
  /\ \/ /\ v \in steering[i]
        /\ steering' = [steering EXCEPT ![i] = @ \ {v}]
        /\ UNCHANGED searched
     \/ /\ v \in searched[i]
        /\ searched' = [searched EXCEPT ![i] = @ \ {v}]
        /\ UNCHANGED steering
  /\ UNCHANGED <<tableVars, saveStep, turnVars, refused, drainVars>>

SteerCancel(i, v) ==
  /\ v \in refused[i]
  /\ RecordReceipt(i, v, "conflict", "cancelled")
  /\ refused' = [refused EXCEPT ![i] = @ \ {v}]
  /\ UNCHANGED <<saveStep, turnVars, steering, searched, drainVars>>

(* recordReceipt answers conflict, or the controller is lost before it. *)
SteerNotCancelled(i, v) ==
  /\ v \in refused[i]
  /\ refused' = [refused EXCEPT ![i] = @ \ {v}]
  /\ UNCHANGED <<tableVars, saveStep, turnVars, steering, searched, drainVars>>

-----------------------------------------------------------------------------
(* Automatic start, after an enqueue and after a completed turn: list, in  *)
(* which every SELECT sees what is committed when it runs, then            *)
(* startQueuedInput with explicitStart false for the first pending queue   *)
(* item.  The early returns on a paused queue and on an active run each    *)
(* belong to one of the two callers; they make no attempt, as              *)
(* DrainGivesUp.                                                           *)

PendingQueue == {i \in Items : itemState[i] = "pending" /\ delivery[i] = "queue"}

(* The first of the items q, in the order of READ_INPUTS_SQL; the order    *)
(* number of an item does not change.                                      *)
IsFirst(i, q) == i \in q /\ \A j \in q : itemOrder[i] <= itemOrder[j]

DrainReadState(d) ==
  /\ drainStep[d] = "idle"
  /\ drainStep' = [drainStep EXCEPT ![d] = "state"]
  /\ drainRevision' = [drainRevision EXCEPT ![d] = revision]
  /\ UNCHANGED <<tableVars, saveStep, turnVars, steerVars, drainQueue>>

DrainReadInputs(d) ==
  /\ drainStep[d] = "state"
  /\ PendingQueue # {}
  /\ drainStep' = [drainStep EXCEPT ![d] = "inputs"]
  /\ drainQueue' = [drainQueue EXCEPT ![d] = [i \in PendingQueue |-> version[i]]]
  /\ UNCHANGED <<tableVars, saveStep, turnVars, steerVars, drainRevision>>

DrainIdle(d) ==
  /\ drainStep' = [drainStep EXCEPT ![d] = "idle"]
  /\ drainRevision' = [drainRevision EXCEPT ![d] = 0]
  /\ drainQueue' = [drainQueue EXCEPT ![d] = NothingRead]

DrainStart(d) ==
  /\ drainStep[d] = "inputs"
  /\ \E i \in DOMAIN drainQueue[d] :
       /\ IsFirst(i, DOMAIN drainQueue[d])
       /\ ReserveQueuedStart(i, drainQueue[d][i], drainRevision[d], FALSE)
  /\ DrainIdle(d)
  /\ UNCHANGED <<saveStep, turnVars, steerVars>>

(* Nothing to start, no admission lease, a conflict, or the process stops. *)
DrainGivesUp(d) ==
  /\ drainStep[d] # "idle"
  /\ DrainIdle(d)
  /\ UNCHANGED <<tableVars, saveStep, turnVars, steerVars>>

-----------------------------------------------------------------------------
(* The process that acts for a turn: handleExecuteRequest in the run's     *)
(* durable object, or settleUnclaimedStartupFailure in the dispatcher.     *)

(* withExecutionLock: a run executes one turn at a time. *)
RuntimeClaims(t) ==
  /\ \A u \in Turns :
       RunOf[u] = RunOf[t] => owner[u] \in {"none", "settling"}
  /\ ClaimExecution(t, "runtime")
  /\ owner' = [owner EXCEPT ![t] = "claimed"]
  /\ UNCHANGED <<saveStep, stopVars, steerVars, drainVars>>

(* beginStartup: from here the durable object knows that t has an owner. *)
RuntimeBegins(t) ==
  /\ owner[t] = "claimed"
  /\ owner' = [owner EXCEPT ![t] = "starting"]
  /\ UNCHANGED <<tableVars, saveStep, stopVars, steerVars, drainVars>>

RuntimeRegisters(t) ==
  /\ owner[t] = "starting"
  /\ owner' = [owner EXCEPT ![t] = "live"]
  /\ UNCHANGED <<tableVars, saveStep, stopVars, steerVars, drainVars>>

RuntimeStarts(t) ==
  /\ owner[t] = "live"
  /\ AppendStarted(t)
  /\ UNCHANGED <<saveStep, turnVars, steerVars, drainVars>>

RuntimeApplies(t, i, a) ==
  /\ owner[t] = "live"
  /\ events[t][a] = [type |-> "turn.input.accepted", item |-> i]
  /\ AppendApplied(t, i, a)
  /\ UNCHANGED <<saveStep, turnVars, steerVars, drainVars>>

(* Even a completed turn may leave accepted inputs unapplied: a run over   *)
(* its budget completes with the inputs that it has staged.                *)
RuntimeFinishes(t, type) ==
  /\ owner[t] = "live"
  /\ events[t] # <<>>
  /\ AppendTerminal(t, type)
  /\ owner' = [owner EXCEPT ![t] = "none"]
  /\ UNCHANGED <<saveStep, stopVars, steerVars, drainVars>>

(* The terminal batch commits and its acknowledgement is lost. *)
RuntimeUnacknowledged(t, type) ==
  /\ owner[t] = "live"
  /\ events[t] # <<>>
  /\ AppendTerminal(t, type)
  /\ owner' = [owner EXCEPT ![t] = "retrying"]
  /\ UNCHANGED <<saveStep, stopVars, steerVars, drainVars>>

RuntimeRetries(t) ==
  /\ owner[t] = "retrying"
  /\ RetryTerminal(t)
  /\ owner' = [owner EXCEPT ![t] = "none"]
  /\ UNCHANGED <<saveStep, stopVars, steerVars, drainVars>>

(* execute throws: the registries forget the turn and the lock is free. *)
RuntimeFails(t) ==
  /\ owner[t] \in {"starting", "live"}
  /\ owner' = [owner EXCEPT ![t] = "settling"]
  /\ UNCHANGED <<tableVars, saveStep, stopVars, steerVars, drainVars>>

(* A dispatcher that cannot reach the runtime claims the turn itself. *)
DispatcherClaims(t) ==
  /\ ClaimExecution(t, "dispatcher")
  /\ owner' = [owner EXCEPT ![t] = "settling"]
  /\ UNCHANGED <<saveStep, stopVars, steerVars, drainVars>>

(* settleOwnedStartupFailure marks the claim of the process that failed ... *)
StartupMarks(t) ==
  /\ owner[t] = "settling"
  /\ MarkRecoveryRequired(t, executionClaim[t])
  /\ UNCHANGED <<saveStep, turnVars, steerVars, drainVars>>

(* ... and settles an empty history.  Only the runtime knows of an         *)
(* interrupt that arrived while the turn was starting.                     *)
SettleStartup(t, type) ==
  /\ owner[t] = "settling"
  /\ executionState[t] = "recovery_required"
  /\ type = "turn.interrupted" => executionClaim[t] = "runtime"
  /\ AppendEmptySettlement(t, type)
  /\ owner' = [owner EXCEPT ![t] = "none"]
  /\ UNCHANGED <<saveStep, stopVars, steerVars, drainVars>>

(* A Stop whose durable object has no owner for the turn keeps the state   *)
(* it has read of the admission.  The owner is looked up after that read;  *)
(* a state that has moved on in between only allows less.                  *)
StopFindsNoOwner(t) ==
  /\ stopStep[t] = "none"
  /\ admissionState[t] = "admitted"
  /\ owner[t] \in {"none", "claimed", "settling"}
  /\ executionState[t] \in {"running", "recovery_required"}
  /\ stopStep' = [stopStep EXCEPT ![t] = executionState[t]]
  /\ UNCHANGED <<tableVars, saveStep, owner, stopping, steerVars, drainVars>>

(* settleOrphanStop then reads the history, and writes the terminal batch  *)
(* from the sequence after what it read.  A history that is not empty must *)
(* prove a single pending approval; its tool and approval events are left  *)
(* out, so either answer is possible here.                                 *)
StopReads(t) ==
  /\ stopStep[t] \in {"running", "recovery_required"}
  /\ ~TerminalStream(t)
  /\ events[t] = <<>> => stopStep[t] = "recovery_required"
  /\ stopStep' = [stopStep EXCEPT ![t] = "read"]
  /\ stopping' = [stopping EXCEPT ![t] = Len(events[t]) + 1]
  /\ UNCHANGED <<tableVars, saveStep, owner, steerVars, drainVars>>

StopIdle(t) ==
  /\ stopStep' = [stopStep EXCEPT ![t] = "none"]
  /\ stopping' = [stopping EXCEPT ![t] = 0]

StopSettles(t) ==
  /\ stopStep[t] = "read"
  /\ stopping[t] = Len(events[t]) + 1
  /\ \/ /\ events[t] # <<>>
        /\ AppendTerminal(t, "turn.interrupted")
     \/ AppendEmptySettlement(t, "turn.interrupted")
  /\ StopIdle(t)
  /\ UNCHANGED <<saveStep, owner, steerVars, drainVars>>

(* The history does not allow it, the append is refused, or the request is *)
(* lost.                                                                   *)
StopGivesUp(t) ==
  /\ stopStep[t] # "none"
  /\ StopIdle(t)
  /\ UNCHANGED <<tableVars, saveStep, owner, steerVars, drainVars>>

Crash(t) ==
  /\ owner[t] # "none"
  /\ owner' = [owner EXCEPT ![t] = "none"]
  /\ UNCHANGED <<tableVars, saveStep, stopVars, steerVars, drainVars>>

-----------------------------------------------------------------------------
SaveNext ==
  \E p \in Saves : SaveSession(p) \/ SaveRun(p) \/ SaveActiveRun(p)
                   \/ SaveGivesUp(p)

ClientNext ==
  \/ \E t \in ChatTurns : \E r \in Turns \cup {NULL} : StartTurn(t, r)
  \/ \E t \in ChatTurns : Chat(t)
  \/ \E t \in ResumeTurns, p \in Turns : Resume(t, p)
  \/ \E i \in Items : StartItem(i) \/ EnqueueItem(i) \/ EditItem(i)
                      \/ RemoveItem(i)
  \/ RefusedRequest

SteerNext ==
  \E i \in SteeredItems :
    \/ \E t \in Turns : SteerNew(i, t) \/ SteerQueued(i, t)
    \/ SteerAgain(i)
    \/ \E v \in steering[i] : SteerSearches(i, v)
    \/ \E v \in searched[i] : SteerAccepted(i, v) \/ SteerRefused(i, v)
    \/ \E v \in steering[i] \cup searched[i] : SteerUnknown(i, v)
    \/ \E v \in refused[i] : SteerCancel(i, v) \/ SteerNotCancelled(i, v)

DrainNext ==
  \E d \in Drainers :
    \/ DrainReadState(d)
    \/ DrainReadInputs(d)
    \/ DrainStart(d)
    \/ DrainGivesUp(d)

TurnNext ==
  \/ \E t \in Turns :
       \/ RuntimeClaims(t)
       \/ RuntimeBegins(t)
       \/ RuntimeRegisters(t)
       \/ RuntimeStarts(t)
       \/ \E i \in Items : \E a \in 1..Len(events[t]) : RuntimeApplies(t, i, a)
       \/ \E type \in TerminalTypes : RuntimeFinishes(t, type)
  \/ \E t \in FailingTurns :
       \/ \E type \in TerminalTypes : RuntimeUnacknowledged(t, type)
       \/ RuntimeRetries(t)
       \/ RuntimeFails(t)
       \/ DispatcherClaims(t)
       \/ StartupMarks(t)
       \/ \E type \in {"turn.failed", "turn.interrupted"} : SettleStartup(t, type)
       \/ StopFindsNoOwner(t)
       \/ StopReads(t)
       \/ StopSettles(t)
       \/ StopGivesUp(t)
       \/ Crash(t)

Next == SaveNext \/ ClientNext \/ SteerNext \/ DrainNext \/ TurnNext

Spec == Init /\ [][Next]_vars

-----------------------------------------------------------------------------
Admitted(t) == admissionState[t] = "admitted"
Unsettled(t) == Admitted(t) /\ executionState[t] # "settled"

LastOfRun(t) ==
  /\ Admitted(t)
  /\ \A u \in Turns : (RunOf[u] = RunOf[t] /\ Admitted(u)) =>
                         admissionOrder[u] <= admissionOrder[t]

(* The session row agrees with the turn it points at: it names that turn's *)
(* run while the turn is unsettled and no run after, and its status is     *)
(* that of the turn.                                                       *)
SessionAgrees ==
  currentTurn # NULL =>
    /\ activeRun = IF Unsettled(currentTurn) THEN RunOf[currentTurn] ELSE NULL
    /\ sessionStatus = IF Unsettled(currentTurn) THEN "running"
                       ELSE SessionOutcome(LastType(currentTurn))

(* Apart from POST /api/sessions, which rewrites the session row whatever  *)
(* its turns do, the session follows the turn admitted last: the turn it   *)
(* is pointed at is the one admitted in that step and the row agrees with  *)
(* it, a row that agrees still does after the step, and a step that admits *)
(* no turn changes active_run_id only to free the run of the current turn, *)
(* which has settled.  A late or repeated terminal event of an earlier     *)
(* turn neither frees nor holds the session.                               *)
ActiveTurn ==
  [][/\ currentTurn' # currentTurn =>
          /\ admissionState[currentTurn'] # "admitted"
          /\ admissionState'[currentTurn'] = "admitted"
          /\ admissionOrder'[currentTurn'] = admissionSequence'
          /\ SessionAgrees'
     /\ saveStep' = saveStep =>
          /\ SessionAgrees => SessionAgrees'
          /\ (activeRun' # activeRun /\ currentTurn' = currentTurn) =>
               /\ activeRun = RunOf[currentTurn] /\ activeRun' = NULL
               /\ executionState'[currentTurn] = "settled"]_vars

(* An admission is settled exactly when its stream ends in a terminal      *)
(* event, and a stream holds at most that one: claims, retries, orphan     *)
(* stops and startup settlements race for it.                              *)
SettledOnce ==
  \A t \in Turns :
    /\ executionState[t] = "settled" <=> TerminalStream(t)
    /\ \A k \in 1..Len(events[t]) :
         events[t][k].type \in TerminalTypes => k = Len(events[t])

(* runs.status is the outcome of the run's last admitted turn, "running"   *)
(* while that turn is unsettled.                                           *)
RunAgrees(t) ==
  LastOfRun(t) =>
    runStatus[RunOf[t]] = IF Unsettled(t) THEN "running"
                          ELSE RunOutcome(LastType(t))

(* Apart from POST /api/sessions, which resets a stored run to "created",  *)
(* every step keeps that agreement, and the admission and the settlement   *)
(* of the last turn restore it, whatever order terminal events arrive in.  *)
RunStatusFollowsLastTurn ==
  [][saveStep' = saveStep =>
       \A t \in Turns :
         \/ RunAgrees(t)
         \/ executionState'[t] = "settled" /\ executionState[t] # "settled"
         => RunAgrees(t)']_vars

(* A turn has at most one admitted successor, a revision or a              *)
(* continuation, which was admitted next after it: two clients that        *)
(* reserved a revision of the same turn cannot both be admitted.           *)
ParentOf(t) == IF revisionOf[t] # NULL THEN revisionOf[t] ELSE continuationOf[t]

LinearLineage ==
  \A t \in Turns :
    (Admitted(t) /\ ParentOf(t) # NULL) =>
      /\ Admitted(ParentOf(t))
      /\ admissionOrder[t] = admissionOrder[ParentOf(t)] + 1
      /\ executionState[ParentOf(t)] = "settled"
      /\ continuationOf[t] # NULL => LastType(ParentOf(t)) = "turn.interrupted"

(* A thread input reaches the agent in one way: it starts its own turn, or *)
(* it is accepted by the turn it steers, or it is cancelled.               *)
DeliveredOnce ==
  \A i \in Items :
    /\ Admitted(QueuedTurn[i]) <=> receipt[i] = "started"
    /\ Admitted(QueuedTurn[i]) => itemState[i] = "consumed" /\ accepted[i] = 0
    /\ itemState[i] = "cancelled" => accepted[i] = 0 /\ applied[i] = 0
    /\ \A t \in Turns : \A k \in 1..Len(events[t]) :
         events[t][k] = [type |-> "turn.input.accepted", item |-> i] =>
           t = target[i] /\ k = accepted[i]

(* The receipt a client reads agrees with the turn's history: accepted and *)
(* applied name the event that says so, and once the turn has ended every  *)
(* input it accepted is either applied or unconfirmed.                     *)
ReceiptsAreTrue ==
  \A i \in Items :
    /\ receipt[i] \in {"accepted", "applied", "unconfirmed"} <=> accepted[i] # 0
    /\ accepted[i] # 0 =>
         /\ accepted[i] <= Len(events[target[i]])
         /\ events[target[i]][accepted[i]] =
              [type |-> "turn.input.accepted", item |-> i]
         /\ receipt[i] = "applied" <=> applied[i] # 0
         /\ receipt[i] = "unconfirmed" <=>
              applied[i] = 0 /\ TerminalStream(target[i])
    /\ applied[i] # 0 =>
         /\ accepted[i] < applied[i]
         /\ applied[i] <= Len(events[target[i]])
         /\ events[target[i]][applied[i]] =
              [type |-> "turn.input.applied", item |-> i]

(* What thread.input.list shows of the queue besides the revision; it also *)
(* shows the active run.                                                   *)
QueueView ==
  <<paused,
    [i \in {j \in Items : itemState[j] \in {"pending", "consuming"}} |->
       <<version[i], itemState[i], delivery[i], receipt[i]>>],
    {i \in Items : receipt[i] = "started"}>>

(* A client that holds a revision holds the queue it belongs to: once the  *)
(* state row exists, every change of what list shows moves the revision,   *)
(* but for the active run when POST /api/sessions rewrites it.             *)
RevisionCoversSnapshot ==
  [][queueRow => /\ revision' >= revision
                 /\ QueueView' # QueueView => revision' > revision
                 /\ activeRun' # activeRun =>
                      revision' > revision \/ saveStep' # saveStep]_vars

(* The automatic start acts on the queue as it is: what list collected in  *)
(* several SELECTs, every pending item with its version, is the queue at   *)
(* the moment the start is admitted, and the item started is its first.    *)
DrainsInOrder ==
  [][\A d \in Drainers : DrainStart(d) =>
       /\ drainQueue[d] = [i \in PendingQueue |-> version[i]]
       /\ \E i \in Items : /\ IsFirst(i, PendingQueue)
                           /\ currentTurn' = QueuedTurn[i]]_vars

(* A turn that has started is never claimed again, a settled turn stays    *)
(* settled, and an input that was consumed or cancelled stays so.          *)
OutcomesAreFinal ==
  [][/\ \A t \in Turns :
          /\ executionClaim[t] # "none" => executionClaim'[t] = executionClaim[t]
          /\ executionState[t] = "settled" =>
               executionState'[t] = "settled" /\ events'[t] = events[t]
     /\ \A i \in Items :
          /\ itemState[i] = "consumed" => itemState'[i] = "consumed"
          /\ itemState[i] = "cancelled" => itemState'[i] = "cancelled"]_vars

(* "Stopping a task or encountering an error pauses the queue until you    *)
(* select Start" (changelog, Steering, queued messages, and Play): while   *)
(* the turn admitted last has failed or was interrupted, a queue that      *)
(* holds items is paused.  PAUSE_THREAD_INPUT_QUEUE_SQL updates a row that *)
(* the first queued input creates, so a turn that ends before it does not  *)
(* pause the queue.                                                        *)
FailurePausesQueue ==
  (/\ currentTurn # NULL
   /\ LastType(currentTurn) \in {"turn.failed", "turn.interrupted"}
   /\ PendingQueue # {}) => paused

(* The other half, "until you select Start": while the turn of a started   *)
(* item is the active one the queue is not paused.  It is checked where    *)
(* turns cannot overlap.  A terminal batch that is retried after the start *)
(* is projected again and pauses it.                                       *)
StartUnpausesQueue ==
  \A i \in Items :
    (currentTurn = QueuedTurn[i] /\ Unsettled(QueuedTurn[i])) => ~paused
=============================================================================

# Verification of the LegionCode control plane

TLA+ models, TLC runs and TLAPS proofs for the part of LegionCode that decides
which turn of a conversation runs, what happens to the messages a user sends
while one is running, and how every turn ends.

## The system

| Part | Where | What it owns |
| --- | --- | --- |
| Web client, client SDK, protocol | `apps/web`, `packages/platform-client-sdk`, `packages/platform-protocol` | display, commands, event replay |
| Brain: HTTP surface | `apps/brain/src/controllers`, `application`, `http` | validation, scope, routing |
| Brain: turn admission | `TurnController`, `PersistenceService`, `ResumeTurnService`, `ThreadInputCommandService` | admission and dispatch of turns |
| Brain: thread inputs | `ThreadInputController`, `ThreadInputCommandService` | queue, steering, automatic start |
| Brain: run runtime (one durable object per run) | `RunEngineRequestHandler`, registries, `RuntimeLifecycleSettlement` | execution of an admitted turn, Stop, recovery |
| Brain: admission limiter (durable object) | `RunAdmissionLimiter` and its client, service and policy | submission rates, concurrency leases |
| Runtime kernel | `packages/runtime-kernel` | turn loop, lifecycle events, approvals |
| Execution engine | `packages/execution-engine` | agents, tools, planner, scheduling, budgets |
| Persistence | `packages/persistence` | PostgreSQL repositories, migrations, projections |
| Secure agent API | `apps/secure-agent-api` | sandboxes and Git |
| Libraries | the other `packages/*` | context assembly, permissions, hooks, artifacts, providers |

A chat message is *reserved* as a turn and then *admitted* with its prompt.  A
resume command continues an interrupted turn, and a queued input starts a turn
of its own, by a click on Start or automatically.  The run's durable object
*claims* an admitted turn, registers as its live owner, and appends lifecycle
events; the transaction that appends a terminal event also settles the
admission, the run, the session, the inputs that were accepted and not applied,
and the queue.  `POST /api/sessions` creates the session and its run; the web
client repeats it when it had no answer, and then it rewrites both.  Startup settlement (`settleOwnedStartupFailure`), the dispatcher
(`settleUnclaimedStartupFailure`) and Stop (`settleOrphanStop`) end turns whose
owner is gone.

`PROJECT.json` lists all components, with the reason for each one that is not
modelled, the hazards with their lines, and the lines every definition models.

## Modules

| Module | Models |
| --- | --- |
| `ThreadTables` | the columns of one conversation's rows (session, admissions, runs, lifecycle events, thread inputs, queue state) and the revision triggers |
| `TurnAdmissions` | `PostgresTurnAdmissionRepository`: `Reserve`, `AdmitWithPrompt`, `AdmitContinuation`, `ReserveQueuedStart`, `ClaimExecution`, `MarkRecoveryRequired` |
| `ThreadInputs` | `PostgresThreadInputRepository`: `Enqueue`, `Update`, `ClaimForSteering`, `Remove`, `RecordReceipt` |
| `LifecycleEvents` | `PostgresLifecycleEventStore.appendBatch` and its projections |
| `TranscriptSessions` | the two upserts of `createPersistedSession` on rows that exist: `EnsureSession`, `EnsureRun` |
| `ThreadService` | the composition: clients, repeated saves of the session, steering controllers, automatic starts, runtimes, dispatchers, Stop and crashes over those tables; the properties |
| `ThreadTables_proofs` | type correctness of the transactions on the tables |
| `ThreadService_proofs` | type correctness of `ThreadService` |
| `TurnSteps_proofs`, `TurnSettlement_proofs` | `TurnsInv` and its preservation by each form of transaction |
| `TurnAgreement_proofs` | every form but a save keeps the session row and the runs in agreement with the turns |
| `ThreadSafety_proofs` | turn settlement, session and run status, lineage, revision |
| `RunAdmissionLimiter`, `RunAdmissionLimiter_proofs` | the limiter durable object, its properties and proofs |
| `MCThreadService`, `MCRunAdmissionLimiter` | small instances for TLC |

One repository transaction is one action, because it first locks the row (or
takes the advisory lock) it works under.  `markRecoveryRequired` is a single
statement.  What a process remembers between two transactions is a variable:

- `steering`, `searched`, `refused`: the item version a steer request holds
  while it is on its way to the runtime, has searched the history, or was
  refused and is about to cancel the item;
- `drainStep`, `drainRevision`, `drainQueue`: what an automatic start has read;
  `list` runs under READ COMMITTED, so its SELECTs are separate;
- `saveStep`: the last statement of `POST /api/sessions` that committed; its
  three statements are separate transactions;
- `owner`: whether a turn's process has claimed it, is starting, live, settling
  a failure, or retrying a terminal batch whose acknowledgement was lost;
- `stopStep`, `stopping`: the execution state that a Stop has read of its turn,
  and then the sequence number it will write, from the history it read.

`Crash` and the "gives up" actions end a process between any two of its steps.

Abstractions.  A turn stands for its turn, attempt and client message ids.
Requests that mismatch owner, workspace or fingerprint, and repeated commands
that find their result stored, write nothing and are not steps.  Message text
is left out.  The batch that opens a turn and the one that ends it are one
event each; tool, item and approval events are left out, so whether a non-empty
history lets an orphan Stop settle it is a free choice.

A turn has one Stop at a time, which reads the admission and looks for an owner
in one step (a state that has moved on in between only allows less), the history
in a second and appends in a third.  A failing runtime unregisters in one step
and marks its claim in another.  `Reserve` never names a continuation: no caller
of `reserve` passes one.

The first `POST /api/sessions` is in `TablesInit`, which has the three states in
which it may have stopped; further ones, and the end of a first one that the
first chat overtakes, are the `Save` actions.  The workspace binding that it also
writes is left out: a repeated save that loses it makes later requests of the
conversation fail until the session is bound again, so the model has all the
behaviours of the code and some more.

In the limiter one request is one action (`withAdmissionLock`); the `Torn`
actions are requests whose storage call throws, leaving the earlier writes in
place.  An acquisition that throws while it prunes, or while it releases its own
expired lease, has no action of its own: what it leaves, a lease deleted and
still listed by some of its buckets, is what `ReleaseTorn` leaves.

## Runs

| Run | Instance | Shows |
| --- | --- | --- |
| `limiter_leases` | four attempts, three threads, a workspace of two, lifetime 2, time 0..4, two storage failures | `Capacity`, `ListedCapacity`, `BlockedByLiveLeases` |
| `limiter_rate` | one counter, limit 2, windows of 3, time 0..8 | `BurstBound` |
| `thread_turns` | two chat turns of one run and a resume command; the chat turns may fail | `SettledOnce`, `LinearLineage` |
| `session_saves` | the same turns, one of which may fail, and one more `POST /api/sessions` | `ActiveTurn`, `RunStatusFollowsLastTurn` |
| `thread_steer` | a chat turn, a resume command, one input with up to three versions | `ReceiptsAreTrue`, `OutcomesAreFinal`, `RevisionCoversSnapshot` |
| `steer_queue` | a chat turn that may fail and one input that is steered by clients and started by an automatic start | `DeliveredOnce` |
| `thread_queue` | a chat turn, two queued inputs with up to two versions, one automatic start | `DrainsInOrder` |
| `queue_pause`, `queue_restart` | a chat turn that may fail, a resume command and one queued input | the two disagreements below |

`limiter_leases` and `thread_turns` also check the type invariant.

`ActiveTurn` and `RunStatusFollowsLastTurn` are about steps and not about states:
`createPersistedSession` sets the session to idle, `active_run_id` to NULL and
then to the run of the request, and the run to created, whatever its turns do,
and nothing undoes this before the next admission or settlement.  They say that
no other step breaks the agreement of the session row, or of the run, with the
turn admitted last, and which steps restore it.  For the same reason
`RevisionCoversSnapshot` excepts the active run when a save rewrites it: no
trigger moves the revision then, and a client that holds the revision may hold
an older active run.  No run combines saves with a queue; the theorem
`ServiceRevisionCovers` does.

`DrainsInOrder` is about the revision check of `reserveQueuedStart`: without it
an automatic start could admit an item that is no longer the first, or skip one
queued since it read the list, although the item itself is unchanged.

Why the bounds are enough.  Two turns of one run are what it takes for a late
terminal event to meet a later admission, and the resume command adds a turn of
another run.  One more save reaches every point of them with each of its three
statements.  Two items give the queue an order.  `MaxVersion = 3` lets an input
be edited, claimed and repeated while an older request is still in flight; two
versions are one edit between a list and the start it leads to.  `FailingTurns`,
`SteeredItems`, `Saves` and `Drainers` keep a run to the processes it is about.
Time 0..4 with lifetime 2 lets a lease expire and be granted again, and two
failures tear an acquisition and a release.

Deadlock is not checked in the thread runs: with finitely many messages a
conversation simply ends.  No run assumes fairness and no liveness property is
stated yet: the code does not justify one as it stands for the turns whose
process is lost (see the liveness hazards), and the rest is planned.

## Findings

Both concern "Stopping a task or encountering an error pauses the queue until
you select Start" (`apps/docs/content/changelog.ts:58`).

1. `queue_pause`.  The pause updates `thread_input_state`, a row that the first
   thread input creates.  A turn that fails or is stopped before that pauses
   nothing.
2. `queue_restart`.  A terminal batch that committed without acknowledgement is
   retried and projected again.  If the user selected Start in between, the
   retry pauses the queue while the started item runs.  Admission leases are not
   in this model: the start also needs one, so with one run per thread the
   earlier turn's lease must have been released or have expired.

In both cases the automatic start still refuses to follow a turn that did not
complete, so what differs from the text is the pause the user sees and, in the
second case, the need to select Start again.

## Proofs

The theorems hold for every value of the constants that satisfies
`TablesAssumption`, `ServiceAssumption`, `LimiterAssumption` and
`NoLeaseAssumption`: any number of turns, runs, items, drainers and leases.

- `LimiterTypeOK`, `LimiterListedCapacity`, `LimiterCapacity`.  `Capacity` is not
  inductive: a live lease that no bucket lists is invisible to the check that
  admits the next one.  `LimiterInv` adds that a stored lease names exactly its
  policy's buckets (`PolicyInv`), that the listed live leases respect the limit
  (`ListedCapacity`), and that the unlisted ones number at most the failures
  (`UnlistedBounded`).  Pruning grants nothing, and one grant adds one.
- `ServiceTypeOK`.  `TypeInv` adds that a steer request in flight belongs to an
  item with a target.
- `ServiceSettledOnce`, `ServiceLinearLineage`.  Every step of `Next` is one
  repository transaction or leaves the tables alone, and as far as turns are
  concerned every transaction is a reservation, an admission, a claim, an event,
  a settlement or a rewrite of the session row or a run by a save.  `TurnsInv` is
  preserved by each; besides the two properties it says that a turn that is not
  admitted has no order and no events, that orders are distinct and bounded by
  the sequence, and that the session points at the turn admitted last
  (`CurrentIsLast`).  It says nothing of `active_run_id` and the two status
  columns: that a parent has settled follows from the terminal event that
  revisions and continuations ask for.
- `ServiceActiveTurn`, `ServiceRunStatus`.  The two action properties.  From
  `TurnsInv`, each form but the rewrite keeps the agreement of the session row and
  of the runs with the turns; a settlement that finds a later admission in its run
  leaves the run alone, and orders are distinct, so the settlement of the last
  turn finds none.
- `ServiceRevisionCovers`.  The action property, transaction by transaction.

Model-checked only: `DeliveredOnce`, `ReceiptsAreTrue`, `OutcomesAreFinal`,
`DrainsInOrder`, `BlockedByLiveLeases` and `BurstBound`.  `BurstBound` counts
over a growing history, which needs an induction over data that the provers do
not do; the others are planned.  Liveness and `ENABLED` are out of the prover's
reach.

## Plan

1. Compose the limiter with the thread service: who holds a turn's lease
   through dispatch, failure and crash, and when it is released.
2. An abstract specification (one active turn per conversation, each input
   delivered at most once, each turn ended once) that `ThreadService` implements
   by a refinement mapping.
3. The runtime inside a turn: `NativeTurnInputBuffer` and completion
   reservation, approvals, the interrupt registry during startup; then the
   approval gate of an orphan Stop.
4. Liveness: a claimed turn with a live owner ends, a drained queue empties, an
   expired lease frees its bucket, under fairness of the processes that are not
   lost; and the turns that stay running without one.
5. Task checkout leases, thread titles, the runtime event inbox, hooks, the task
   scheduler and run state machine, budget accounting, workspace states.
6. Proofs of `DeliveredOnce`, `ReceiptsAreTrue`, `OutcomesAreFinal`,
   `DrainsInOrder`, `BlockedByLiveLeases` and of the refinement.

Not planned: the web client, prompt and context assembly, provider and Git
calls, sandbox execution and static content, which are input and output or
formatting with little shared state.

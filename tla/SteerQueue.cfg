\* The automatic start against requests that steer its item.
SPECIFICATION Spec
CONSTANTS
  NULL = NULL
  c1 = c1
  c2 = c2
  r1 = r1
  q1 = q1
  q2 = q2
  i1 = i1
  i2 = i2
  runA = runA
  runB = runB
  runC = runC
  runD = runD
  d1 = d1
  s1 = s1
  Runs = {runA, runC}
  SessionRun = runA
  ChatTurns = {c1}
  ResumeTurns = {}
  Items = {i1}
  QueuedTurn <- MCQueuedTurn
  RunOf <- MCRunOf
  Saves = {}
  SavedRun <- MCSavedRun
  Drainers = {d1}
  MaxVersion = 2
  SteeredItems = {i1}
  FailingTurns = {c1}
INVARIANT
  DeliveredOnce
CHECK_DEADLOCK FALSE

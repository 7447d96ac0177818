\* The same turns while the session is saved again.
SPECIFICATION Spec
CONSTANTS
  NULL = NULL
  c1 = c1
  c2 = c2
  r1 = r1
  q1 = q1
  q2 = q2
  i1 = i1
  i2 = i2
  runA = runA
  runB = runB
  runC = runC
  runD = runD
  d1 = d1
  s1 = s1
  Runs = {runA, runB}
  SessionRun = runA
  ChatTurns = {c1, c2}
  ResumeTurns = {r1}
  Items = {}
  QueuedTurn <- MCQueuedTurn
  RunOf <- MCRunOf
  Saves = {s1}
  SavedRun <- MCSavedRun
  Drainers = {}
  MaxVersion = 1
  SteeredItems = {}
  FailingTurns = {c1}
PROPERTIES
  ActiveTurn
  RunStatusFollowsLastTurn
CHECK_DEADLOCK FALSE

\* An item steered into a chat turn or a resume command.
SPECIFICATION Spec
CONSTANTS
  NULL = NULL
  c1 = c1
  c2 = c2
  r1 = r1
  q1 = q1
  q2 = q2
  i1 = i1
  i2 = i2
  runA = runA
  runB = runB
  runC = runC
  runD = runD
  d1 = d1
  s1 = s1
  Runs = {runA, runB, runC}
  SessionRun = runA
  ChatTurns = {c1}
  ResumeTurns = {r1}
  Items = {i1}
  QueuedTurn <- MCQueuedTurn
  RunOf <- MCRunOf
  Saves = {}
  SavedRun <- MCSavedRun
  Drainers = {}
  MaxVersion = 3
  SteeredItems = {i1}
  FailingTurns = {c1}
INVARIANT
  ReceiptsAreTrue
PROPERTIES
  RevisionCoversSnapshot
  OutcomesAreFinal
CHECK_DEADLOCK FALSE

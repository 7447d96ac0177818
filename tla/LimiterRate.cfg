\* Submission counters over several windows.
SPECIFICATION Spec
CONSTANTS
  a1 = a1
  a2 = a2
  a3 = a3
  a4 = a4
  thread1 = thread1
  thread2 = thread2
  thread3 = thread3
  workspace = workspace
  Leases = {}
  Buckets = {thread1, thread2, thread3, workspace}
  Limit <- MCLimit
  Constraints <- MCConstraints
  Ttl = 2
  Scopes = {s1}
  RateLimit = 2
  Window = 3
  NoLease = NoLease
  MaxTime = 8
  MaxFailures = 0
  s1 = s1
INVARIANT
  BurstBound

\* Leases, expiry and torn storage writes.
SPECIFICATION Spec
CONSTANTS
  a1 = a1
  a2 = a2
  a3 = a3
  a4 = a4
  thread1 = thread1
  thread2 = thread2
  thread3 = thread3
  workspace = workspace
  s1 = s1
  Leases = {a1, a2, a3, a4}
  Buckets = {thread1, thread2, thread3, workspace}
  Limit <- MCLimit
  Constraints <- MCConstraints
  Ttl = 2
  Scopes = {}
  RateLimit = 1
  Window = 1
  NoLease = NoLease
  MaxTime = 4
  MaxFailures = 2
INVARIANTS
  TypeOK
  Capacity
  ListedCapacity
  BlockedByLiveLeases

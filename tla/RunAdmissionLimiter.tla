------------------------- MODULE RunAdmissionLimiter -------------------------
(***************************************************************************)
(* The RunAdmissionLimiter durable object: submission counters per fixed   *)
(* time window, and concurrency leases that are listed in the buckets      *)
(* (thread, user, workspace, sandbox capacity) they occupy.                *)
(*                                                                         *)
(* withAdmissionLock serialises the requests, so a request is one action.  *)
(* Its storage writes are separate puts: a request whose storage call      *)
(* throws answers 500 and leaves the writes before it in place.  The       *)
(* actions AcquireTorn and ReleaseTorn are those requests.                 *)
(***************************************************************************)
EXTENDS Integers, Sequences, FiniteSets

CONSTANTS
  Leases,        \* lease ids, "run-attempt:<runAttemptId>"
  Buckets,       \* concurrency bucket keys
  Limit,         \* Limit[b]: the constraint limit of bucket b
  Constraints,   \* Constraints[l]: the bucket keys of l's policy, in order
  Ttl,           \* lease lifetime
  Scopes,        \* submission counter keys
  RateLimit,     \* submissions allowed per window
  Window,        \* window length
  NoLease,       \* no value stored under a lease key
  MaxTime,       \* bound: the clock stops here
  MaxFailures    \* bound: storage failures

VARIABLES
  now,           \* Date.now()
  lease,         \* lease[l]: value stored under l's lease key
  bucket,        \* bucket[b]: lease ids stored under b's bucket key
  counter,       \* counter[s]: stored WindowCounterState
  failures,      \* storage failures so far
  reply,         \* the last response sent
  submitted      \* history: submitted[s] is the times of allowed submissions

vars == <<now, lease, bucket, counter, failures, reply, submitted>>

Keys(s) == {s[i] : i \in 1..Len(s)}

ASSUME LimiterAssumption ==
  /\ IsFiniteSet(Leases)
  /\ Limit \in [Buckets -> Nat \ {0}]
  /\ Constraints \in [Leases -> Seq(Buckets)]
  /\ Ttl \in Nat \ {0}
  /\ RateLimit \in Nat \ {0}
  /\ Window \in Nat \ {0}
  /\ MaxTime \in Nat
  /\ MaxFailures \in Nat

LeaseState == [expiresAt : Nat, bucketKeys : Seq(Buckets)]
CounterState == [windowBucket : Nat, count : Nat]

ASSUME NoLeaseAssumption == NoLease \notin LeaseState

TypeOK ==
  /\ now \in Nat
  /\ lease \in [Leases -> LeaseState \cup {NoLease}]
  /\ bucket \in [Buckets -> SUBSET Leases]
  /\ counter \in [Scopes -> CounterState]
  /\ failures \in 0..MaxFailures
  /\ reply \in [op : {"none", "released", "error"}]
               \cup [op : {"allowed"}, lease : Leases]
               \cup [op : {"blocked"}, lease : Leases, bucket : Buckets]
               \cup [op : {"submitted", "limited"}, scope : Scopes]
  /\ submitted \in [Scopes -> Seq(Nat)]

(* enforceLimit treats an absent counter as one of a window without a      *)
(* submission, which is how the initial counter is written.                *)
Init ==
  /\ now = 0
  /\ lease = [l \in Leases |-> NoLease]
  /\ bucket = [b \in Buckets |-> {}]
  /\ counter = [s \in Scopes |-> [windowBucket |-> 0, count |-> 0]]
  /\ failures = 0
  /\ reply = [op |-> "none"]
  /\ submitted = [s \in Scopes |-> <<>>]

-----------------------------------------------------------------------------
(* Mutant: the limit is compared with > instead of >=. *)
EnforceLimitOffByOne(s) ==
  LET activeWindow == now \div Window
      current == counter[s]
      fresh == current.windowBucket # activeWindow
  IN
  /\ \/ /\ fresh
        /\ counter' = [counter EXCEPT ![s] = [windowBucket |-> activeWindow, count |-> 1]]
        /\ reply' = [op |-> "submitted", scope |-> s]
        /\ submitted' = [submitted EXCEPT ![s] = Append(@, now)]
     \/ /\ ~fresh
        /\ current.count > RateLimit
        /\ reply' = [op |-> "limited", scope |-> s]
        /\ UNCHANGED <<counter, submitted>>
     \/ /\ ~fresh
        /\ current.count <= RateLimit
        /\ counter' = [counter EXCEPT ![s] = [windowBucket |-> activeWindow,
                                              count |-> current.count + 1]]
        /\ reply' = [op |-> "submitted", scope |-> s]
        /\ submitted' = [submitted EXCEPT ![s] = Append(@, now)]
  /\ UNCHANGED <<now, lease, bucket, failures>>

(* enforceLimit: a counter of another window restarts at 1. *)
EnforceLimit(s) ==
  LET activeWindow == now \div Window
      current == counter[s]
      fresh == current.windowBucket # activeWindow
  IN
  /\ \/ /\ fresh
        /\ counter' = [counter EXCEPT ![s] = [windowBucket |-> activeWindow, count |-> 1]]
        /\ reply' = [op |-> "submitted", scope |-> s]
        /\ submitted' = [submitted EXCEPT ![s] = Append(@, now)]
     \/ /\ ~fresh
        /\ current.count >= RateLimit
        /\ reply' = [op |-> "limited", scope |-> s]
        /\ UNCHANGED <<counter, submitted>>
     \/ /\ ~fresh
        /\ current.count < RateLimit
        /\ counter' = [counter EXCEPT ![s] = [windowBucket |-> activeWindow,
                                              count |-> current.count + 1]]
        /\ reply' = [op |-> "submitted", scope |-> s]
        /\ submitted' = [submitted EXCEPT ![s] = Append(@, now)]
  /\ UNCHANGED <<now, lease, bucket, failures>>

-----------------------------------------------------------------------------
Live(l) == lease[l] # NoLease /\ lease[l].expiresAt > now

(* The lease and bucket keys after releaseLease(l) has cleaned the buckets *)
(* of keys only; the whole of bucketKeys unless a storage call throws.     *)
LeaseReleased(l) == [lease EXCEPT ![l] = NoLease]
BucketReleased(l, keys) ==
  [b \in Buckets |-> IF b \in keys THEN bucket[b] \ {l} ELSE bucket[b]]

(* releaseConcurrencyLease *)
Release(l) ==
  /\ lease' = LeaseReleased(l)
  /\ bucket' = IF lease[l] = NoLease
                 THEN bucket
                 ELSE BucketReleased(l, Keys(lease[l].bucketKeys))
  /\ reply' = [op |-> "released"]
  /\ UNCHANGED <<now, counter, failures, submitted>>

(* The lease key is deleted first; the bucket writes stop after k keys. *)
ReleaseTorn(l) ==
  /\ failures < MaxFailures
  /\ lease[l] # NoLease
  /\ \E k \in 0..(Len(lease[l].bucketKeys) - 1) :
       bucket' = BucketReleased(l, Keys(SubSeq(lease[l].bucketKeys, 1, k)))
  /\ lease' = LeaseReleased(l)
  /\ failures' = failures + 1
  /\ reply' = [op |-> "error"]
  /\ UNCHANGED <<now, counter, submitted>>

-----------------------------------------------------------------------------
(* Mutant: an expired lease still counts. *)
PrunedKeepsExpired(b) == {l \in bucket[b] : lease[l] # NoLease}

(* pruneLeaseIds keeps the ids whose lease is stored and has not expired.  *)
Pruned(b) == {l \in bucket[b] : Live(l)}

(* checkConcurrencyConstraints prunes the first n buckets of the policy    *)
(* and deletes the expired leases it meets there.  An expired lease of l   *)
(* itself was released by checkExistingLease before.                       *)
PrunedBuckets(l, n) ==
  LET seen == Keys(SubSeq(Constraints[l], 1, n))
      own == IF lease[l] = NoLease THEN {} ELSE Keys(lease[l].bucketKeys)
  IN [b \in Buckets |-> IF b \in seen THEN Pruned(b)
                        ELSE IF b \in own THEN bucket[b] \ {l}
                        ELSE bucket[b]]

PrunedLeases(l, n) ==
  LET seen == Keys(SubSeq(Constraints[l], 1, n))
  IN [m \in Leases |->
        IF m = l \/ (~Live(m) /\ \E b \in seen : m \in bucket[b])
          THEN NoLease
          ELSE lease[m]]

(* Mutant: one lease too many. *)
FullOffByOne(l, i) ==
  Cardinality(Pruned(Constraints[l][i])) > Limit[Constraints[l][i]]

Full(l, i) ==
  Cardinality(Pruned(Constraints[l][i])) >= Limit[Constraints[l][i]]

(* checkExistingLease: a live lease of the same id is allowed again. *)
AcquireAgain(l) ==
  /\ Live(l)
  /\ reply' = [op |-> "allowed", lease |-> l]
  /\ UNCHANGED <<now, lease, bucket, counter, failures, submitted>>

(* The i-th constraint is the first one whose bucket is full. *)
AcquireBlocked(l) ==
  /\ ~Live(l)
  /\ \E i \in 1..Len(Constraints[l]) :
       /\ Full(l, i)
       /\ \A j \in 1..(i - 1) : ~Full(l, j)
       /\ lease' = PrunedLeases(l, i)
       /\ bucket' = PrunedBuckets(l, i)
       /\ reply' = [op |-> "blocked", lease |-> l, bucket |-> Constraints[l][i]]
  /\ UNCHANGED <<now, counter, failures, submitted>>

(* Mutant: the expiry is computed with the wrong sign. *)
PersistWrongSign(l, k) ==
  LET n == Len(Constraints[l])
      listed == Keys(SubSeq(Constraints[l], 1, k))
      kept == PrunedBuckets(l, n)
  IN
  /\ ~Live(l)
  /\ \A i \in 1..n : ~Full(l, i)
  /\ lease' = [PrunedLeases(l, n) EXCEPT
                 ![l] = [expiresAt |-> now - Ttl, bucketKeys |-> Constraints[l]]]
  /\ bucket' = [b \in Buckets |-> IF b \in listed THEN kept[b] \cup {l} ELSE kept[b]]

(* Mutant: the last constraint of the policy is not checked. *)
PersistSkipsLast(l, k) ==
  LET n == Len(Constraints[l])
      listed == Keys(SubSeq(Constraints[l], 1, k))
      kept == PrunedBuckets(l, n)
  IN
  /\ ~Live(l)
  /\ \A i \in 1..(n - 1) : ~Full(l, i)
  /\ lease' = [PrunedLeases(l, n) EXCEPT
                 ![l] = [expiresAt |-> now + Ttl, bucketKeys |-> Constraints[l]]]
  /\ bucket' = [b \in Buckets |-> IF b \in listed THEN kept[b] \cup {l} ELSE kept[b]]

(* persistConcurrencyLease: the lease is written, then the id is appended  *)
(* to the first k buckets.                                                 *)
Persist(l, k) ==
  LET n == Len(Constraints[l])
      listed == Keys(SubSeq(Constraints[l], 1, k))
      kept == PrunedBuckets(l, n)
  IN
  /\ ~Live(l)
  /\ \A i \in 1..n : ~Full(l, i)
  /\ lease' = [PrunedLeases(l, n) EXCEPT
                 ![l] = [expiresAt |-> now + Ttl, bucketKeys |-> Constraints[l]]]
  /\ bucket' = [b \in Buckets |-> IF b \in listed THEN kept[b] \cup {l} ELSE kept[b]]

AcquireGranted(l) ==
  /\ Persist(l, Len(Constraints[l]))
  /\ reply' = [op |-> "allowed", lease |-> l]
  /\ UNCHANGED <<now, counter, failures, submitted>>

(* A storage call throws while the buckets are pruned, or after the lease  *)
(* and k < n of the buckets were written.                                  *)
AcquireTorn(l) ==
  /\ failures < MaxFailures
  /\ \/ \E k \in 0..(Len(Constraints[l]) - 1) : Persist(l, k)
     \/ /\ ~Live(l)
        /\ \E n \in 1..Len(Constraints[l]) :
             /\ \A j \in 1..(n - 1) : ~Full(l, j)
             /\ lease' = PrunedLeases(l, n)
             /\ bucket' = PrunedBuckets(l, n)
  /\ failures' = failures + 1
  /\ reply' = [op |-> "error"]
  /\ UNCHANGED <<now, counter, submitted>>

Tick ==
  /\ now < MaxTime
  /\ now' = now + 1
  /\ reply' = [op |-> "none"]
  /\ UNCHANGED <<lease, bucket, counter, failures, submitted>>

Next ==
  \/ Tick
  \/ \E s \in Scopes : EnforceLimit(s)
  \/ \E l \in Leases :
       \/ AcquireAgain(l)
       \/ AcquireBlocked(l)
       \/ AcquireGranted(l)
       \/ AcquireTorn(l)
       \/ Release(l)
       \/ ReleaseTorn(l)

Spec == Init /\ [][Next]_vars

-----------------------------------------------------------------------------
(* Leases a client may be running under that count against bucket b. *)
Holders(b) == {l \in Leases : Live(l) /\ b \in Keys(lease[l].bucketKeys)}

(* Concurrency is bounded: the live leases that name a bucket never exceed *)
(* its limit by more than the number of storage failures, each of which    *)
(* can leave one lease stored but not listed (persistConcurrencyLease      *)
(* writes the lease before the buckets, and checkExistingLease then allows *)
(* the retry without counting it).                                         *)
Capacity == \A b \in Buckets : Cardinality(Holders(b)) <= Limit[b] + failures

(* The leases a bucket lists and that are still live never exceed its      *)
(* limit, whatever requests were torn by a storage failure.                *)
ListedCapacity == \A b \in Buckets : Cardinality(Pruned(b)) <= Limit[b]

(* A request is only turned away by live leases: neither an expired lease  *)
(* of a crashed run nor an id left behind by a torn release blocks it.     *)
BlockedByLiveLeases ==
  reply.op = "blocked" => Cardinality(Holders(reply.bucket)) >= Limit[reply.bucket]

(* The fixed windows bound bursts: any interval as long as a window holds  *)
(* at most twice RateLimit allowed submissions (the end of one window and  *)
(* the start of the next), and an aligned window at most RateLimit.        *)
BurstBound ==
  \A s \in Scopes : \A t \in 0..now :
    LET within == {i \in 1..Len(submitted[s]) :
                     submitted[s][i] >= t /\ submitted[s][i] < t + Window}
    IN Cardinality(within) <= (IF t % Window = 0 THEN 1 ELSE 2) * RateLimit
=============================================================================

--------------------- MODULE RunAdmissionLimiter_proofs ---------------------
(***************************************************************************)
(* Capacity of the RunAdmissionLimiter for every set of leases and         *)
(* buckets, every policy, and any number of torn requests.                 *)
(***************************************************************************)
EXTENDS RunAdmissionLimiter, FiniteSetTheorems, TLAPS

(* A stored lease keeps the bucket keys of its policy, and a bucket lists  *)
(* only ids whose policy names it.                                         *)
PolicyInv ==
  /\ \A l \in Leases : lease[l] # NoLease => lease[l].bucketKeys = Constraints[l]
  /\ \A b \in Buckets : \A l \in bucket[b] : b \in Keys(Constraints[l])

(* Live leases that a torn acquire stored without listing them in b. *)
Unlisted(b) == Holders(b) \ bucket[b]

UnlistedBounded == \A b \in Buckets : Cardinality(Unlisted(b)) <= failures

LimiterInv == TypeOK /\ PolicyInv /\ ListedCapacity /\ UnlistedBounded

-----------------------------------------------------------------------------
(* The values stored by pruning and by releasing are of the stored types. *)
LEMMA PrunedTypes ==
  ASSUME TypeOK, NEW l \in Leases, NEW n \in Nat
  PROVE  /\ PrunedLeases(l, n) \in [Leases -> LeaseState \cup {NoLease}]
         /\ PrunedBuckets(l, n) \in [Buckets -> SUBSET Leases]
         /\ \A ks : BucketReleased(l, ks) \in [Buckets -> SUBSET Leases]
         /\ LeaseReleased(l) \in [Leases -> LeaseState \cup {NoLease}]
BY DEF TypeOK, PrunedLeases, PrunedBuckets, BucketReleased, LeaseReleased, Pruned

(* The index of a time window is a natural number. *)
LEMMA WindowIndex ==
  ASSUME NEW t \in Nat, NEW w \in Nat, w > 0
  PROVE  t \div w \in Nat
OBVIOUS

(* Type correctness of the limiter: every handler stores well formed       *)
(* leases, bucket lists and counters.                                      *)
THEOREM LimiterTypeOK == Spec => []TypeOK
<1>1. Init => TypeOK
  BY LimiterAssumption DEF Init, TypeOK, CounterState
<1>2. TypeOK /\ [Next]_vars => TypeOK'
  <2> SUFFICES ASSUME TypeOK, [Next]_vars PROVE TypeOK'
    OBVIOUS
  <2> USE LimiterAssumption
  <2>1. CASE Tick
    BY <2>1 DEF Tick, TypeOK
  <2>2. ASSUME NEW s \in Scopes, EnforceLimit(s) PROVE TypeOK'
    <3> DEFINE w == now \div Window
    <3>1. w \in Nat
      <4>1. now \in Nat /\ Window \in Nat /\ Window > 0
        BY DEF TypeOK
      <4> QED
        BY <4>1, WindowIndex
    <3>2. /\ [windowBucket |-> w, count |-> 1] \in CounterState
          /\ [windowBucket |-> w, count |-> counter[s].count + 1] \in CounterState
      BY <3>1 DEF TypeOK, CounterState
    <3> HIDE DEF w
    <3>3. \/ UNCHANGED counter
          \/ counter' = [counter EXCEPT ![s] = [windowBucket |-> w, count |-> 1]]
          \/ counter' = [counter EXCEPT ![s] = [windowBucket |-> w, count |-> counter[s].count + 1]]
      BY <2>2 DEF EnforceLimit, w
    <3>6. counter' \in [Scopes -> CounterState]
      BY <3>2, <3>3 DEF TypeOK
    <3>4. submitted' \in [Scopes -> Seq(Nat)]
      <4>1. Append(submitted[s], now) \in Seq(Nat)
        BY DEF TypeOK
      <4>2. \/ UNCHANGED submitted
            \/ submitted' = [submitted EXCEPT ![s] = Append(submitted[s], now)]
        BY <2>2 DEF EnforceLimit
      <4> QED
        BY <4>1, <4>2 DEF TypeOK
    <3>5. reply' \in [op : {"submitted", "limited"}, scope : Scopes]
      BY <2>2 DEF EnforceLimit
    <3> QED
      BY <2>2, <3>6, <3>4, <3>5 DEF EnforceLimit, TypeOK
  <2>3. ASSUME NEW l \in Leases, AcquireAgain(l) PROVE TypeOK'
    BY <2>3 DEF AcquireAgain, TypeOK
  <2>4. ASSUME NEW l \in Leases, AcquireBlocked(l) PROVE TypeOK'
    <3>1. PICK i \in 1..Len(Constraints[l]) :
            /\ lease' = PrunedLeases(l, i)
            /\ bucket' = PrunedBuckets(l, i)
            /\ reply' = [op |-> "blocked", lease |-> l, bucket |-> Constraints[l][i]]
      BY <2>4 DEF AcquireBlocked
    <3>2. Constraints[l][i] \in Buckets /\ i \in Nat
      OBVIOUS
    <3> QED
      BY <2>4, <3>1, <3>2, PrunedTypes DEF AcquireBlocked, TypeOK
  <2>5. ASSUME NEW l \in Leases, NEW k \in 0..Len(Constraints[l]), Persist(l, k)
        PROVE  /\ lease' \in [Leases -> LeaseState \cup {NoLease}]
               /\ bucket' \in [Buckets -> SUBSET Leases]
    <3>1. Len(Constraints[l]) \in Nat
      OBVIOUS
    <3>2. [expiresAt |-> now + Ttl, bucketKeys |-> Constraints[l]] \in LeaseState
      BY DEF TypeOK, LeaseState
    <3> QED
      BY <2>5, <3>1, <3>2, PrunedTypes DEF Persist
  <2>6. ASSUME NEW l \in Leases, AcquireGranted(l) PROVE TypeOK'
    <3>1. Persist(l, Len(Constraints[l])) /\ Len(Constraints[l]) \in 0..Len(Constraints[l])
      BY <2>6 DEF AcquireGranted
    <3> QED
      BY <2>5, <2>6, <3>1 DEF AcquireGranted, TypeOK
  <2>7. ASSUME NEW l \in Leases, AcquireTorn(l) PROVE TypeOK'
    <3>1. /\ lease' \in [Leases -> LeaseState \cup {NoLease}]
          /\ bucket' \in [Buckets -> SUBSET Leases]
      <4>1. CASE \E k \in 0..(Len(Constraints[l]) - 1) : Persist(l, k)
        BY <2>5, <4>1
      <4>2. CASE \E n \in 1..Len(Constraints[l]) :
                   lease' = PrunedLeases(l, n) /\ bucket' = PrunedBuckets(l, n)
        BY <4>2, PrunedTypes
      <4> QED
        BY <2>7, <4>1, <4>2 DEF AcquireTorn
    <3> QED
      BY <2>7, <3>1 DEF AcquireTorn, TypeOK
  <2>8. ASSUME NEW l \in Leases, Release(l) PROVE TypeOK'
    <3>1. bucket' \in [Buckets -> SUBSET Leases]
      BY <2>8, PrunedTypes DEF Release, TypeOK
    <3> QED
      BY <2>8, <3>1, PrunedTypes DEF Release, TypeOK
  <2>9. ASSUME NEW l \in Leases, ReleaseTorn(l) PROVE TypeOK'
    <3>1. bucket' \in [Buckets -> SUBSET Leases]
      BY <2>9, PrunedTypes DEF ReleaseTorn
    <3> QED
      BY <2>9, <3>1, PrunedTypes DEF ReleaseTorn, TypeOK
  <2>10. CASE UNCHANGED vars
    BY <2>10 DEF vars, TypeOK
  <2> QED
    BY <2>1, <2>2, <2>3, <2>4, <2>6, <2>7, <2>8, <2>9, <2>10 DEF Next
<1> QED
  BY <1>1, <1>2, PTL DEF Spec

-----------------------------------------------------------------------------
(* A request that grants nothing: every lease that is live afterwards was  *)
(* live before, is stored as before and is listed where it was listed.     *)
GrantsNothing ==
  /\ \A m \in Leases : Live(m)' => Live(m) /\ lease'[m] = lease[m]
  /\ \A b \in Buckets, m \in Leases : Live(m)' => (m \in bucket'[b] <=> m \in bucket[b])

(* Such a request takes no slot of any bucket. *)
LEMMA NoSlotTaken ==
  ASSUME TypeOK, GrantsNothing, NEW b \in Buckets, bucket'[b] \subseteq Leases
  PROVE  /\ Pruned(b)' \subseteq Pruned(b)
         /\ Unlisted(b)' \subseteq Unlisted(b)
BY DEF TypeOK, GrantsNothing, Pruned, Unlisted, Holders

(* All the sets of leases the limiter counts are finite. *)
LEMMA CountedFinite ==
  ASSUME NEW S \in SUBSET Leases
  PROVE  IsFiniteSet(S) /\ Cardinality(S) \in Nat
BY LimiterAssumption, FS_Subset, FS_CardinalityType

(* A smaller set of leases has at most as many members. *)
LEMMA CountedMonotone ==
  ASSUME NEW S \in SUBSET Leases, NEW T \in SUBSET S
  PROVE  Cardinality(T) <= Cardinality(S)
BY CountedFinite, FS_Subset

(* One more lease adds at most one. *)
LEMMA CountedOneMore ==
  ASSUME NEW S \in SUBSET Leases, NEW l \in Leases, NEW T \in SUBSET (S \cup {l})
  PROVE  Cardinality(T) <= Cardinality(S) + 1
<1>1. IsFiniteSet(S) /\ Cardinality(S) \in Nat
  BY CountedFinite
<1>2. Cardinality(S \cup {l}) \in {Cardinality(S), Cardinality(S) + 1}
  BY <1>1, FS_AddElement
<1>3. S \cup {l} \in SUBSET Leases /\ T \in SUBSET Leases
  OBVIOUS
<1>4. Cardinality(T) <= Cardinality(S \cup {l})
  BY <1>3, CountedMonotone
<1>5. Cardinality(T) \in Nat /\ Cardinality(S \cup {l}) \in Nat
  BY <1>3, CountedFinite
<1> QED
  BY <1>1, <1>2, <1>4, <1>5

(* Pruning for an acquire of l, whose lease is not live, grants nothing. *)
LEMMA PruneGrantsNothing ==
  ASSUME TypeOK, NEW l \in Leases, ~Live(l), NEW n \in Nat, now' = now,
         lease' = PrunedLeases(l, n), bucket' = PrunedBuckets(l, n)
  PROVE  GrantsNothing
<1>1. ASSUME NEW m \in Leases, Live(m)' PROVE m # l /\ Live(m) /\ lease'[m] = lease[m]
  <2>1. lease'[m] # NoLease /\ lease'[m].expiresAt > now
    BY <1>1 DEF Live
  <2>2. lease'[m] = lease[m] /\ m # l
    BY <2>1 DEF PrunedLeases
  <2> QED
    BY <2>1, <2>2 DEF Live
<1>2. ASSUME NEW m \in Leases, Live(m)', NEW b \in Buckets
      PROVE  m \in bucket'[b] <=> m \in bucket[b]
  BY <1>1, <1>2 DEF PrunedBuckets, Pruned, TypeOK
<1> QED
  BY <1>1, <1>2 DEF GrantsNothing

(* GrantsNothing preserves both bounds. *)
LEMMA BoundsKept ==
  ASSUME LimiterInv, TypeOK', GrantsNothing, failures' >= failures
  PROVE  ListedCapacity' /\ UnlistedBounded'
<1> SUFFICES ASSUME NEW b \in Buckets
             PROVE  /\ Cardinality(Pruned(b)') <= Limit[b]
                    /\ Cardinality(Unlisted(b)') <= failures'
  BY DEF ListedCapacity, UnlistedBounded
<1>1. Pruned(b)' \subseteq Pruned(b) /\ Unlisted(b)' \subseteq Unlisted(b)
  BY NoSlotTaken DEF LimiterInv, TypeOK
<1>2. Pruned(b) \in SUBSET Leases /\ Unlisted(b) \in SUBSET Leases
  BY DEF LimiterInv, TypeOK, Pruned, Unlisted, Holders
<1>3. /\ Cardinality(Pruned(b)') <= Cardinality(Pruned(b))
      /\ Cardinality(Unlisted(b)') <= Cardinality(Unlisted(b))
  BY <1>1, <1>2, CountedMonotone
<1>4. /\ Cardinality(Pruned(b)) <= Limit[b] /\ Cardinality(Unlisted(b)) <= failures
      /\ Limit[b] \in Nat /\ failures \in Nat /\ failures' \in Nat
  BY LimiterAssumption DEF LimiterInv, ListedCapacity, UnlistedBounded, TypeOK
<1>5. /\ Cardinality(Pruned(b)) \in Nat /\ Cardinality(Unlisted(b)) \in Nat
      /\ Cardinality(Pruned(b)') \in Nat /\ Cardinality(Unlisted(b)') \in Nat
  BY <1>1, <1>2, CountedFinite
<1> QED
  BY <1>3, <1>4, <1>5

(* An acquire that stores the lease and lists it in the first k buckets of *)
(* its policy: a slot is taken only in buckets found not full, and l is    *)
(* the only lease that can become unlisted, unless k is the whole policy.  *)
LEMMA PersistBounds ==
  ASSUME LimiterInv, TypeOK', NEW l \in Leases, NEW k \in 0..Len(Constraints[l]),
         Persist(l, k), now' = now,
         \/ k = Len(Constraints[l]) /\ failures' = failures
         \/ failures' = failures + 1
  PROVE  ListedCapacity' /\ UnlistedBounded'
<1> DEFINE n == Len(Constraints[l])
<1>a. Constraints[l] \in Seq(Buckets) /\ n \in Nat
  BY LimiterAssumption
<1>b. SubSeq(Constraints[l], 1, n) = Constraints[l]
  BY <1>a
<1>c. Keys(SubSeq(Constraints[l], 1, k)) \subseteq Keys(Constraints[l])
  BY <1>a DEF Keys
<1> SUFFICES ASSUME NEW b \in Buckets
             PROVE  /\ Cardinality(Pruned(b)') <= Limit[b]
                    /\ Cardinality(Unlisted(b)') <= failures'
  BY DEF ListedCapacity, UnlistedBounded
<1>1. ASSUME NEW m \in Leases, m # l, Live(m)'
      PROVE  Live(m) /\ lease'[m] = lease[m] /\ (m \in bucket'[b] <=> m \in bucket[b])
  <2>1. lease'[m] = PrunedLeases(l, n)[m]
    BY <1>1, PrunedTypes DEF Persist, LimiterInv
  <2>2. lease'[m] = lease[m] /\ Live(m)
    BY <1>1, <2>1 DEF PrunedLeases, Live
  <2>3. m \in bucket'[b] <=> m \in PrunedBuckets(l, n)[b]
    BY <1>1 DEF Persist
  <2>4. m \in PrunedBuckets(l, n)[b] <=> m \in bucket[b]
    BY <1>1, <2>2 DEF PrunedBuckets, Pruned
  <2> QED
    BY <2>2, <2>3, <2>4
<1>2. Pruned(b) \in SUBSET Leases /\ Unlisted(b) \in SUBSET Leases
  BY DEF LimiterInv, TypeOK, Pruned, Unlisted, Holders
<1>3. /\ Cardinality(Pruned(b)) <= Limit[b] /\ Cardinality(Unlisted(b)) <= failures
      /\ Limit[b] \in Nat /\ failures \in Nat /\ failures' \in Nat
  BY LimiterAssumption DEF LimiterInv, ListedCapacity, UnlistedBounded, TypeOK
<1>4. Pruned(b)' \subseteq Pruned(b) \cup {l} /\ Unlisted(b)' \subseteq Unlisted(b) \cup {l}
  BY <1>1 DEF LimiterInv, TypeOK, Pruned, Unlisted, Holders
<1>5. /\ Pruned(b)' \in SUBSET Leases /\ Unlisted(b)' \in SUBSET Leases
  BY <1>2, <1>4
<1>6. /\ Cardinality(Pruned(b)) \in Nat /\ Cardinality(Unlisted(b)) \in Nat
      /\ Cardinality(Pruned(b)') \in Nat /\ Cardinality(Unlisted(b)') \in Nat
  BY <1>2, <1>5, CountedFinite
<1>7. Cardinality(Pruned(b)') <= Limit[b]
  <2>1. CASE b \in Keys(Constraints[l])
    <3>1. PICK i \in 1..n : Constraints[l][i] = b
      BY <2>1 DEF Keys
    <3>2. ~(Cardinality(Pruned(b)) >= Limit[b])
      BY <3>1 DEF Persist, Full
    <3>3. Cardinality(Pruned(b)') <= Cardinality(Pruned(b)) + 1
      BY <1>2, <1>4, CountedOneMore
    <3> QED
      BY <1>3, <1>6, <3>2, <3>3
  <2>2. CASE b \notin Keys(Constraints[l])
    <3>1. l \notin bucket[b]
      BY <2>2 DEF LimiterInv, PolicyInv
    <3>2. l \notin bucket'[b]
      BY <1>b, <1>c, <2>2, <3>1 DEF Persist, PrunedBuckets
    <3>3. Pruned(b)' \subseteq Pruned(b)
      BY <1>4, <3>2 DEF Pruned
    <3> QED
      BY <1>2, <1>3, <1>6, <3>3, CountedMonotone
  <2> QED
    BY <2>1, <2>2
<1>8. Cardinality(Unlisted(b)') <= failures'
  <2>1. CASE k = n /\ failures' = failures
    <3>1. l \notin Unlisted(b)'
      <4>1. lease'[l].bucketKeys = Constraints[l]
        BY PrunedTypes DEF Persist, LimiterInv
      <4>2. b \in Keys(Constraints[l]) => l \in bucket'[b]
        BY <1>b, <2>1 DEF Persist
      <4> QED
        BY <4>1, <4>2 DEF Unlisted, Holders
    <3>2. Unlisted(b)' \subseteq Unlisted(b)
      BY <1>4, <3>1
    <3> QED
      BY <1>2, <1>3, <1>6, <2>1, <3>2, CountedMonotone
  <2>2. CASE failures' = failures + 1
    <3>1. Cardinality(Unlisted(b)') <= Cardinality(Unlisted(b)) + 1
      BY <1>2, <1>4, CountedOneMore
    <3> QED
      BY <1>3, <1>6, <2>2, <3>1
  <2> QED
    BY <2>1, <2>2
<1> QED
  BY <1>7, <1>8

(* Every request preserves PolicyInv. *)
LEMMA PolicyKept ==
  ASSUME TypeOK, PolicyInv, TypeOK', [Next]_vars
  PROVE  PolicyInv'
<1> USE LimiterAssumption DEF PolicyInv
<1>1. ASSUME NEW l \in Leases, NEW n \in Nat,
             lease' = PrunedLeases(l, n), bucket' = PrunedBuckets(l, n)
      PROVE  PolicyInv'
  <2>1. \A m \in Leases : lease'[m] # NoLease => lease'[m] = lease[m]
    BY <1>1 DEF PrunedLeases
  <2>2. \A b \in Buckets : bucket'[b] \subseteq bucket[b]
    BY <1>1 DEF PrunedBuckets, Pruned
  <2> QED
    BY <2>1, <2>2
<1>2. ASSUME NEW l \in Leases, NEW k \in 0..Len(Constraints[l]), Persist(l, k)
      PROVE  PolicyInv'
  <2>1. Constraints[l] \in Seq(Buckets) /\ Len(Constraints[l]) \in Nat
    OBVIOUS
  <2>2. Keys(SubSeq(Constraints[l], 1, k)) \subseteq Keys(Constraints[l])
    BY <2>1 DEF Keys
  <2>3. \A m \in Leases : lease'[m] # NoLease => lease'[m].bucketKeys = Constraints[m]
    BY <1>2, <2>1, PrunedTypes DEF Persist, PrunedLeases
  <2>4. ASSUME NEW b \in Buckets, NEW m \in bucket'[b] PROVE b \in Keys(Constraints[m])
    <3>1. (m = l /\ b \in Keys(SubSeq(Constraints[l], 1, k))) \/ m \in bucket[b]
      BY <1>2, <2>4 DEF Persist, PrunedBuckets, Pruned
    <3> QED
      BY <2>2, <3>1
  <2> QED
    BY <2>3, <2>4
<1>3. ASSUME NEW l \in Leases, NEW ks,
             lease' = LeaseReleased(l),
             bucket' = BucketReleased(l, ks) \/ bucket' = bucket
      PROVE  PolicyInv'
  <2>1. \A m \in Leases : lease'[m] # NoLease => lease'[m] = lease[m]
    BY <1>3 DEF LeaseReleased, TypeOK
  <2>2. ASSUME NEW b \in Buckets PROVE bucket'[b] \subseteq bucket[b]
    <3>1. CASE bucket' = BucketReleased(l, ks)
      BY <3>1 DEF BucketReleased
    <3>2. CASE bucket' = bucket
      BY <3>2
    <3> QED
      BY <1>3, <3>1, <3>2
  <2> QED
    BY <2>1, <2>2
<1>4. CASE UNCHANGED <<lease, bucket>>
  BY <1>4
<1>5. ASSUME NEW l \in Leases, AcquireBlocked(l) PROVE PolicyInv'
  BY <1>1, <1>5 DEF AcquireBlocked
<1>6. ASSUME NEW l \in Leases, AcquireGranted(l) PROVE PolicyInv'
  <2>1. Len(Constraints[l]) \in 0..Len(Constraints[l])
    OBVIOUS
  <2> QED
    BY <1>2, <1>6, <2>1 DEF AcquireGranted
<1>7. ASSUME NEW l \in Leases, AcquireTorn(l) PROVE PolicyInv'
  <2>1. CASE \E k \in 0..(Len(Constraints[l]) - 1) : Persist(l, k)
    <3>1. \A k \in 0..(Len(Constraints[l]) - 1) : k \in 0..Len(Constraints[l])
      OBVIOUS
    <3> QED
      BY <1>2, <2>1, <3>1
  <2>2. CASE \E n \in 1..Len(Constraints[l]) :
               lease' = PrunedLeases(l, n) /\ bucket' = PrunedBuckets(l, n)
    BY <1>1, <2>2
  <2> QED
    BY <1>7, <2>1, <2>2 DEF AcquireTorn
<1>8. ASSUME NEW l \in Leases, Release(l) \/ ReleaseTorn(l) PROVE PolicyInv'
  BY <1>3, <1>8 DEF Release, ReleaseTorn
<1> QED
  BY <1>4, <1>5, <1>6, <1>7, <1>8
  DEF Next, vars, Tick, EnforceLimit, AcquireAgain

(* Every request preserves the two bounds: it either grants nothing or     *)
(* persists one lease in buckets that had room.                            *)
LEMMA RequestBounds ==
  ASSUME LimiterInv, TypeOK', [Next]_vars
  PROVE  ListedCapacity' /\ UnlistedBounded'
<1> USE LimiterAssumption
<1>a. /\ TypeOK /\ failures \in Nat
      /\ \A l \in Leases : Constraints[l] \in Seq(Buckets) /\ Len(Constraints[l]) \in Nat
  BY DEF LimiterInv, TypeOK
<1>1. CASE Tick
  <2>1. \A m \in Leases : lease[m] # NoLease => lease[m].expiresAt \in Nat
    BY <1>a DEF TypeOK, LeaseState
  <2>2. GrantsNothing
    BY <1>a, <1>1, <2>1 DEF GrantsNothing, Tick, Live, TypeOK
  <2> QED
    BY <1>a, <1>1, <2>2, BoundsKept DEF Tick
<1>2. CASE UNCHANGED <<now, lease, bucket, failures>>
  <2>1. GrantsNothing
    BY <1>2 DEF GrantsNothing, Live
  <2> QED
    BY <1>a, <1>2, <2>1, BoundsKept
<1>3. ASSUME NEW l \in Leases, AcquireBlocked(l) PROVE ListedCapacity' /\ UnlistedBounded'
  <2>1. GrantsNothing
    BY <1>a, <1>3, PruneGrantsNothing DEF AcquireBlocked
  <2> QED
    BY <1>a, <1>3, <2>1, BoundsKept DEF AcquireBlocked
<1>4. ASSUME NEW l \in Leases, AcquireGranted(l) PROVE ListedCapacity' /\ UnlistedBounded'
  <2>1. Len(Constraints[l]) \in 0..Len(Constraints[l])
    BY <1>a
  <2> QED
    BY <1>4, <2>1, PersistBounds DEF AcquireGranted
<1>5. ASSUME NEW l \in Leases, AcquireTorn(l) PROVE ListedCapacity' /\ UnlistedBounded'
  <2>1. CASE \E k \in 0..(Len(Constraints[l]) - 1) : Persist(l, k)
    <3>1. PICK k \in 0..(Len(Constraints[l]) - 1) : Persist(l, k)
      BY <2>1
    <3>2. k \in 0..Len(Constraints[l])
      BY <1>a
    <3> QED
      BY <1>5, <3>1, <3>2, PersistBounds DEF AcquireTorn
  <2>2. CASE /\ ~Live(l)
             /\ \E n \in 1..Len(Constraints[l]) :
                  lease' = PrunedLeases(l, n) /\ bucket' = PrunedBuckets(l, n)
    <3>1. GrantsNothing
      BY <1>a, <1>5, <2>2, PruneGrantsNothing DEF AcquireTorn
    <3> QED
      BY <1>a, <1>5, <3>1, BoundsKept DEF AcquireTorn
  <2> QED
    BY <1>5, <2>1, <2>2 DEF AcquireTorn
<1>6. ASSUME NEW l \in Leases, Release(l) \/ ReleaseTorn(l)
      PROVE  ListedCapacity' /\ UnlistedBounded'
  <2>1. PICK ks : bucket' = BucketReleased(l, ks) \/ bucket' = bucket
    BY <1>6 DEF Release, ReleaseTorn
  <2>2. lease' = LeaseReleased(l) /\ now' = now /\ failures' >= failures
    BY <1>a, <1>6 DEF Release, ReleaseTorn
  <2>3. ASSUME NEW m \in Leases, Live(m)' PROVE m # l /\ Live(m) /\ lease'[m] = lease[m]
    BY <1>a, <2>2, <2>3 DEF Live, LeaseReleased, TypeOK
  <2>4. ASSUME NEW m \in Leases, Live(m)', NEW b \in Buckets
        PROVE  m \in bucket'[b] <=> m \in bucket[b]
    <3>1. CASE bucket' = BucketReleased(l, ks)
      BY <2>3, <2>4, <3>1 DEF BucketReleased
    <3>2. CASE bucket' = bucket
      BY <3>2
    <3> QED
      BY <2>1, <3>1, <3>2
  <2>5. GrantsNothing
    BY <2>3, <2>4 DEF GrantsNothing
  <2> QED
    BY <2>2, <2>5, BoundsKept
<1> QED
  BY <1>1, <1>2, <1>3, <1>4, <1>5, <1>6 DEF Next, vars, EnforceLimit, AcquireAgain

(* The inductive invariant of the limiter. *)
THEOREM LimiterInvariant == Spec => []LimiterInv
<1>1. Init => LimiterInv
  <2> SUFFICES ASSUME Init PROVE LimiterInv
    OBVIOUS
  <2>1. TypeOK
    BY LimiterAssumption DEF Init, TypeOK, CounterState
  <2>2. PolicyInv
    BY DEF Init, PolicyInv
  <2>3. \A b \in Buckets : Pruned(b) = {} /\ Unlisted(b) = {}
    BY DEF Init, Pruned, Unlisted, Holders, Live
  <2>4. \A b \in Buckets : Cardinality(Pruned(b)) = 0 /\ Cardinality(Unlisted(b)) = 0
    BY <2>3, FS_EmptySet
  <2>5. ListedCapacity /\ UnlistedBounded
    BY <2>4, LimiterAssumption DEF Init, ListedCapacity, UnlistedBounded
  <2> QED
    BY <2>1, <2>2, <2>5 DEF LimiterInv
<1>2. LimiterInv /\ TypeOK' /\ [Next]_vars => LimiterInv'
  BY PolicyKept, RequestBounds DEF LimiterInv
<1> QED
  BY <1>1, <1>2, LimiterTypeOK, PTL DEF Spec

(* No bucket ever lists more live leases than its limit, whatever requests *)
(* are torn by storage failures.                                           *)
THEOREM LimiterListedCapacity == Spec => []ListedCapacity
BY LimiterInvariant, PTL DEF LimiterInv

(* The live leases naming a bucket exceed its limit by at most the number  *)
(* of storage failures.                                                    *)
THEOREM LimiterCapacity == Spec => []Capacity
<1>1. LimiterInv => Capacity
  <2> SUFFICES ASSUME LimiterInv, NEW b \in Buckets
               PROVE  Cardinality(Holders(b)) <= Limit[b] + failures
    BY DEF Capacity
  <2>1. /\ Pruned(b) \in SUBSET Leases /\ Unlisted(b) \in SUBSET Leases
        /\ Holders(b) \in SUBSET Leases
    BY DEF LimiterInv, TypeOK, Pruned, Unlisted, Holders
  <2>2. Holders(b) \subseteq Pruned(b) \cup Unlisted(b)
    BY DEF Pruned, Unlisted, Holders
  <2>3. /\ Cardinality(Pruned(b)) <= Limit[b] /\ Cardinality(Unlisted(b)) <= failures
        /\ Limit[b] \in Nat /\ failures \in Nat
    BY LimiterAssumption DEF LimiterInv, ListedCapacity, UnlistedBounded, TypeOK
  <2>4. /\ IsFiniteSet(Pruned(b)) /\ Cardinality(Pruned(b)) \in Nat
        /\ IsFiniteSet(Unlisted(b)) /\ Cardinality(Unlisted(b)) \in Nat
        /\ Cardinality(Holders(b)) \in Nat
    BY <2>1, CountedFinite
  <2>5. /\ Pruned(b) \cap Unlisted(b) \in SUBSET Leases
        /\ Pruned(b) \cup Unlisted(b) \in SUBSET Leases
    BY <2>1
  <2>6. /\ Cardinality(Pruned(b) \cap Unlisted(b)) \in Nat
        /\ Cardinality(Pruned(b) \cup Unlisted(b)) \in Nat
    BY <2>5, CountedFinite
  <2>7. Cardinality(Pruned(b) \cup Unlisted(b))
          = Cardinality(Pruned(b)) + Cardinality(Unlisted(b))
            - Cardinality(Pruned(b) \cap Unlisted(b))
    BY <2>4, FS_Union
  <2>8. Cardinality(Holders(b)) <= Cardinality(Pruned(b) \cup Unlisted(b))
    BY <2>2, <2>5, CountedMonotone
  <2> QED
    BY <2>3, <2>4, <2>6, <2>7, <2>8
<1> QED
  BY <1>1, LimiterInvariant, PTL
=============================================================================

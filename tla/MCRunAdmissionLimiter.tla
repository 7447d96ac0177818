------------------------ MODULE MCRunAdmissionLimiter ------------------------
(* A small platform: two attempts of one thread, and two more threads that *)
(* share a workspace with room for two runs.                               *)
EXTENDS RunAdmissionLimiter

CONSTANTS a1, a2, a3, a4, thread1, thread2, thread3, workspace, s1

MCLimit == [b \in Buckets |-> IF b = workspace THEN 2 ELSE 1]

MCConstraints ==
  [l \in Leases |-> <<IF l \in {a1, a2} THEN thread1
                      ELSE IF l = a3 THEN thread2 ELSE thread3, workspace>>]
=============================================================================

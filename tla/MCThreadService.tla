--------------------------- MODULE MCThreadService ---------------------------
EXTENDS ThreadService

CONSTANTS c1, c2, r1, q1, q2, i1, i2, runA, runB, runC, runD, d1, s1

MCQueuedTurn == [i \in Items |-> IF i = i1 THEN q1 ELSE q2]

(* Chat turns can share a run.  A resume command and a queue item have     *)
(* runs of their own (createThreadInputCommandIdentity).                   *)
MCRunOf == [t \in Turns |-> CASE t \in ChatTurns -> runA
                              [] t = r1 -> runB
                              [] t = q1 -> runC
                              [] t = q2 -> runD]

(* The session is saved with the run of its first chat turn. *)
MCSavedRun == [p \in Saves |-> runA]
=============================================================================

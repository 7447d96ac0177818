-------------------------- MODULE TurnSteps_proofs --------------------------
(***************************************************************************)
(* What a transaction may do to the turns of a conversation, in a few      *)
(* forms, and that the forms other than the settlement preserve the        *)
(* invariant of the turns, for every set of turns, runs and items.         *)
(***************************************************************************)
EXTENDS ThreadService, TLAPS

(* A turn that is not admitted has no history and no place in the order. *)
Unadmitted ==
  \A t \in Turns : ~Admitted(t) =>
    /\ executionState[t] = "pending"
    /\ events[t] = <<>>
    /\ continuationOf[t] = NULL
    /\ admissionState[t] = "none" => revisionOf[t] = NULL

(* Admitted turns have distinct orders from 1 up to the session's sequence. *)
OrdersDistinct ==
  /\ \A t \in Turns :
       /\ admissionOrder[t] <= admissionSequence
       /\ admissionOrder[t] > 0 <=> Admitted(t)
  /\ \A t, u \in Turns :
       (Admitted(t) /\ Admitted(u) /\ admissionOrder[t] = admissionOrder[u])
         => t = u

(* The session points at the turn admitted last.  Its active run, its      *)
(* status and the status of the run may be anything: POST /api/sessions    *)
(* writes them whatever the turns do.                                      *)
CurrentIsLast ==
  currentTurn # NULL =>
    Admitted(currentTurn) /\ admissionOrder[currentTurn] = admissionSequence

TurnsInv ==
  /\ Unadmitted
  /\ OrdersDistinct
  /\ SettledOnce
  /\ CurrentIsLast
  /\ LinearLineage

-----------------------------------------------------------------------------
(* What a step may do to the turns. *)

turnTables == <<sessionVars, lineageVars, admissionState, executionState,
                runStatus, events>>

Reserves(t, r) ==
  /\ admissionState[t] = "none"
  /\ admissionState' = [admissionState EXCEPT ![t] = "reserved"]
  /\ revisionOf' = [revisionOf EXCEPT ![t] = r]
  /\ UNCHANGED <<sessionVars, admissionSequence, admissionOrder,
                 continuationOf, executionState, runStatus, events>>

Admits(t) ==
  /\ admissionState[t] # "admitted"
  /\ Activate(t)
  /\ UNCHANGED <<events, revisionOf>>
  /\ revisionOf[t] # NULL => RevisionTarget(revisionOf[t])
  /\ \/ UNCHANGED continuationOf
     \/ /\ revisionOf[t] = NULL
        /\ \E p \in Turns : /\ ContinuationTarget(p)
                            /\ continuationOf' = [continuationOf EXCEPT ![t] = p]

Claims(t) ==
  /\ executionState[t] \in {"pending", "running"}
  /\ Admitted(t)
  /\ \E s \in {"running", "recovery_required"} :
       executionState' = [executionState EXCEPT ![t] = s]
  /\ UNCHANGED <<sessionVars, lineageVars, admissionState, runStatus, events>>

Appends(t) ==
  /\ \E type \in EventTypes \ TerminalTypes : \E i \in Items \cup {NULL} :
       AppendOne(t, type, i)
  /\ UNCHANGED <<sessionVars, lineageVars, admissionState, executionState,
                 runStatus>>

(* A terminal event is appended, or opens and ends the stream, or is found *)
(* in it by a retry; in all cases it is projected.                         *)
Settles(t, type) ==
  /\ \E n \in Nat : ProjectTerminal(t, type, n)
  /\ \/ AppendOne(t, type, NULL)
     \/ /\ admissionState[t] = "admitted"
        /\ events[t] = <<>>
        /\ events' = [events EXCEPT ![t] =
             <<[type |-> "turn.started", item |-> NULL],
               [type |-> type, item |-> NULL]>>]
     \/ /\ TerminalStream(t)
        /\ LastType(t) = type
        /\ UNCHANGED events

(* POST /api/sessions rewrites the session row or the run. *)
Rewrites ==
  UNCHANGED <<currentTurn, lineageVars, admissionState, executionState, events>>

(* Every other step. *)
TurnStep ==
  \/ UNCHANGED turnTables
  \/ \E t \in Turns : \E r \in Turns \cup {NULL} : Reserves(t, r)
  \/ \E t \in Turns : Admits(t)
  \/ \E t \in Turns : Claims(t)
  \/ \E t \in Turns : Appends(t)
  \/ \E t \in Turns : \E type \in TerminalTypes : Settles(t, type)

-----------------------------------------------------------------------------
(* How each form preserves the invariant. *)

(* The last event of a stream and the place of its terminal event, after   *)
(* an event is appended.                                                   *)
LEMMA AppendFacts ==
  ASSUME NEW s \in Seq(Event), NEW e \in Event
  PROVE  /\ Append(s, e) # <<>>
         /\ Len(Append(s, e)) = Len(s) + 1
         /\ Append(s, e)[Len(s) + 1] = e
         /\ \A k \in 1..Len(s) : Append(s, e)[k] = s[k]
OBVIOUS

(* The stream of a settled turn holds no other terminal event.  *)
LEMMA TerminalIsLast ==
  ASSUME TablesTypeOK, SettledOnce, NEW t \in Turns,
         NEW k \in 1..Len(events[t]), events[t][k].type \in TerminalTypes
  PROVE  /\ executionState[t] = "settled"
         /\ LastType(t) = events[t][k].type
<1>1. k = Len(events[t])
  BY DEF SettledOnce
<1>2. events[t] # <<>>
  BY DEF TablesTypeOK
<1>3. LastType(t) = events[t][k].type
  BY <1>1, <1>2 DEF LastType
<1>4. QED
  BY <1>3 DEF SettledOnce, TerminalStream

(* A reservation preserves the invariant of the turns. *)
LEMMA ReservesKeepsInv ==
  ASSUME TablesTypeOK, TablesAssumption, TurnsInv,
         NEW t \in Turns, NEW r \in Turns \cup {NULL}, Reserves(t, r)
  PROVE  TurnsInv'
<1>0. /\ ~Admitted(t)
      /\ \A u \in Turns : Admitted(u)' <=> Admitted(u)
      /\ \A u \in Turns : u # t => revisionOf'[u] = revisionOf[u]
      /\ \A u \in Turns : u # t => admissionState'[u] = admissionState[u]
      /\ admissionState'[t] = "reserved"
  BY DEF Reserves, Admitted, TablesTypeOK
<1>1. UNCHANGED <<sessionVars, admissionSequence, admissionOrder,
                  continuationOf, executionState, runStatus, events>>
  BY DEF Reserves
<1>2. Unadmitted'
  BY <1>0, <1>1 DEF TurnsInv, Unadmitted
<1>3. OrdersDistinct'
  BY <1>0, <1>1 DEF TurnsInv, OrdersDistinct
<1>4. SettledOnce'
  BY <1>1 DEF TurnsInv, SettledOnce, TerminalStream, LastType
<1>5. CurrentIsLast'
  BY <1>0, <1>1 DEF TurnsInv, CurrentIsLast, sessionVars, TablesTypeOK
<1>6. LinearLineage'
  <2> SUFFICES ASSUME NEW u \in Turns, Admitted(u)', ParentOf(u)' # NULL
               PROVE  /\ Admitted(ParentOf(u))'
                      /\ (admissionOrder[u] = admissionOrder[ParentOf(u)] + 1)'
                      /\ (executionState[ParentOf(u)] = "settled")'
                      /\ (continuationOf[u] # NULL =>
                            LastType(ParentOf(u)) = "turn.interrupted")'
    BY DEF LinearLineage
  <2>1. u # t /\ Admitted(u)
    BY <1>0
  <2>2. ParentOf(u)' = ParentOf(u) /\ ParentOf(u) \in Turns
    BY <1>0, <1>1, <2>1 DEF ParentOf, TablesTypeOK
  <2>3. QED
    BY <1>0, <1>1, <2>1, <2>2 DEF TurnsInv, LinearLineage, LastType, Admitted
<1>7. QED
  BY <1>2, <1>3, <1>4, <1>5, <1>6 DEF TurnsInv

(* An admission preserves the invariant of the turns. *)
LEMMA AdmitsKeepsInv ==
  ASSUME TablesTypeOK, TablesAssumption, TurnsInv, NEW t \in Turns, Admits(t)
  PROVE  TurnsInv'
<1>0. /\ ~Admitted(t)
      /\ Admitted(t)'
      /\ \A u \in Turns : u # t => (Admitted(u)' <=> Admitted(u))
      /\ \A u \in Turns : u # t => admissionState'[u] = admissionState[u]
      /\ \A u \in Turns : u # t => executionState'[u] = executionState[u]
      /\ \A u \in Turns : u # t => admissionOrder'[u] = admissionOrder[u]
      /\ \A u \in Turns : u # t => continuationOf'[u] = continuationOf[u]
      /\ executionState'[t] = "pending"
      /\ admissionOrder'[t] = admissionSequence + 1
  BY DEF Admits, Activate, Admitted, TablesTypeOK
<1>1. /\ admissionSequence' = admissionSequence + 1
      /\ runStatus' = [runStatus EXCEPT ![RunOf[t]] = "running"]
      /\ activeRun' = RunOf[t]
      /\ currentTurn' = t
      /\ sessionStatus' = "running"
      /\ UNCHANGED <<events, revisionOf>>
  BY DEF Admits, Activate
<1>2. events[t] = <<>> /\ continuationOf[t] = NULL
  BY <1>0 DEF TurnsInv, Unadmitted
<1>3. Unadmitted'
  BY <1>0, <1>1 DEF TurnsInv, Unadmitted
<1>4. OrdersDistinct'
  <2>1. \A u \in Turns : /\ admissionOrder[u] \in Nat
                         /\ admissionOrder[u] <= admissionSequence
                         /\ admissionOrder[u] > 0 <=> Admitted(u)
    BY DEF TurnsInv, OrdersDistinct, TablesTypeOK
  <2>2. admissionSequence \in Nat
    BY DEF TablesTypeOK
  <2>3. \A u, w \in Turns :
          (Admitted(u) /\ Admitted(w) /\ admissionOrder[u] = admissionOrder[w])
            => u = w
    BY DEF TurnsInv, OrdersDistinct
  <2>4. \A u \in Turns : /\ admissionOrder'[u] <= admissionSequence'
                         /\ admissionOrder'[u] > 0 <=> Admitted(u)'
    BY <1>0, <1>1, <2>1, <2>2
  <2>5. \A u, w \in Turns :
          (Admitted(u)' /\ Admitted(w)' /\ admissionOrder'[u] = admissionOrder'[w])
            => u = w
    BY <1>0, <2>1, <2>2, <2>3
  <2>6. QED
    BY <2>4, <2>5 DEF OrdersDistinct
<1>5. SettledOnce'
  <2>1. ~TerminalStream(t)'
    BY <1>1, <1>2 DEF TerminalStream, LastType, TerminalTypes
  <2>2. QED
    BY <1>0, <1>1, <1>2, <2>1 DEF TurnsInv, SettledOnce, TerminalStream, LastType
<1>6. CurrentIsLast'
  BY <1>0, <1>1 DEF CurrentIsLast, Admitted
<1>7. LinearLineage'
  <2> SUFFICES ASSUME NEW u \in Turns, Admitted(u)', ParentOf(u)' # NULL
               PROVE  /\ Admitted(ParentOf(u))'
                      /\ (admissionOrder[u] = admissionOrder[ParentOf(u)] + 1)'
                      /\ (executionState[ParentOf(u)] = "settled")'
                      /\ (continuationOf[u] # NULL =>
                            LastType(ParentOf(u)) = "turn.interrupted")'
    BY DEF LinearLineage
  <2>1. CASE u # t
    <3>1. ParentOf(u)' = ParentOf(u) /\ ParentOf(u) \in Turns /\ Admitted(u)
      BY <1>0, <1>1, <2>1 DEF ParentOf, TablesTypeOK
    <3>2. /\ Admitted(ParentOf(u))
          /\ admissionOrder[u] = admissionOrder[ParentOf(u)] + 1
          /\ executionState[ParentOf(u)] = "settled"
          /\ continuationOf[u] # NULL =>
               LastType(ParentOf(u)) = "turn.interrupted"
      BY <3>1 DEF TurnsInv, LinearLineage
    <3>3. ParentOf(u) # t
      BY <1>0, <3>2
    <3>4. QED
      BY <1>0, <1>1, <2>1, <3>1, <3>2, <3>3 DEF LastType, Admitted
  <2>2. CASE u = t
    <3>1. PICK p \in Turns :
            /\ p = ParentOf(t)'
            /\ currentTurn = p
            /\ Admitted(p)
            /\ \E k \in 1..Len(events[p]) : events[p][k].type \in TerminalTypes
            /\ continuationOf'[t] # NULL =>
                 \E k \in 1..Len(events[p]) :
                   events[p][k].type = "turn.interrupted"
      <4>1. CASE revisionOf[t] # NULL
        <5> DEFINE r == revisionOf[t]
        <5>1. r = ParentOf(t)' /\ r \in Turns
          BY <1>1, <4>1 DEF ParentOf, TablesTypeOK
        <5>2. RevisionTarget(r) /\ UNCHANGED continuationOf
          BY <4>1, Zenon DEF Admits
        <5> HIDE DEF r
        <5>3. QED
          BY <1>2, <5>1, <5>2 DEF RevisionTarget, Admitted
      <4>2. CASE revisionOf[t] = NULL
        <5>1. ParentOf(t)' = continuationOf'[t] /\ continuationOf'[t] # NULL
          BY <1>1, <2>2, <4>2 DEF ParentOf
        <5>2. PICK q \in Turns :
                /\ ContinuationTarget(q)
                /\ continuationOf' = [continuationOf EXCEPT ![t] = q]
          BY <1>2, <5>1 DEF Admits
        <5>3. q = ParentOf(t)'
          BY <5>1, <5>2 DEF TablesTypeOK
        <5>4. QED
          BY <5>2, <5>3 DEF ContinuationTarget, Admitted, TerminalTypes
      <4>3. QED
        BY <4>1, <4>2
    <3>2. executionState[p] = "settled"
      BY <3>1, TerminalIsLast DEF TurnsInv
    <3>3. continuationOf'[t] # NULL => LastType(p) = "turn.interrupted"
      BY <3>1, TerminalIsLast DEF TurnsInv, TerminalTypes
    <3>4. p # t
      BY <1>0, <3>1
    <3>5. admissionOrder[p] = admissionSequence
      <4>1. p # NULL
        BY <3>1 DEF TablesAssumption
      <4>2. QED
        BY <3>1, <4>1 DEF TurnsInv, CurrentIsLast
    <3>6. /\ Admitted(p)'
          /\ admissionOrder'[t] = admissionOrder'[p] + 1
          /\ executionState'[p] = "settled"
          /\ continuationOf'[t] # NULL => LastType(p)' = "turn.interrupted"
      BY <1>0, <1>1, <3>1, <3>2, <3>3, <3>4, <3>5 DEF LastType, Admitted
    <3>7. QED
      BY <2>2, <3>1, <3>6 DEF LastType, Admitted
  <2>3. QED
    BY <2>1, <2>2
<1>8. QED
  BY <1>3, <1>4, <1>5, <1>6, <1>7 DEF TurnsInv

(* A change of an execution that is not settled preserves it. *)
LEMMA ClaimsKeepsInv ==
  ASSUME TablesTypeOK, TablesAssumption, TurnsInv, NEW t \in Turns, Claims(t)
  PROVE  TurnsInv'
<1>0. /\ executionState[t] # "settled"
      /\ executionState'[t] # "settled"
      /\ Admitted(t)
      /\ \A u \in Turns : u # t => executionState'[u] = executionState[u]
  BY DEF Claims, TablesTypeOK
<1>1. UNCHANGED <<sessionVars, lineageVars, admissionState, runStatus, events>>
  BY DEF Claims
<1>2. \A u \in Turns : /\ Admitted(u)' <=> Admitted(u)
                       /\ LastType(u)' = LastType(u)
                       /\ ParentOf(u)' = ParentOf(u)
  BY <1>1 DEF Admitted, LastType, ParentOf, lineageVars
<1>3. Unadmitted'
  BY <1>0, <1>1 DEF TurnsInv, Unadmitted, Admitted, lineageVars
<1>4. OrdersDistinct'
  BY <1>1 DEF TurnsInv, OrdersDistinct, Admitted, lineageVars
<1>5. SettledOnce'
  BY <1>0, <1>1 DEF TurnsInv, SettledOnce, TerminalStream, LastType
<1>6. CurrentIsLast'
  BY <1>1 DEF TurnsInv, CurrentIsLast, Admitted, sessionVars, lineageVars
<1>7. LinearLineage'
  <2>1. \A u \in Turns : ParentOf(u) # NULL => ParentOf(u) \in Turns
    BY DEF ParentOf, TablesTypeOK
  <2>2. QED
    BY <1>0, <1>1, <1>2, <2>1
    DEF TurnsInv, LinearLineage, lineageVars, Admitted, LastType
<1>8. QED
  BY <1>3, <1>4, <1>5, <1>6, <1>7 DEF TurnsInv

(* An event that is not terminal preserves it. *)
LEMMA AppendsKeepsInv ==
  ASSUME TablesTypeOK, TablesAssumption, TurnsInv, NEW t \in Turns, Appends(t)
  PROVE  TurnsInv'
<1>1. UNCHANGED <<sessionVars, lineageVars, admissionState, executionState,
                  runStatus>>
  BY DEF Appends
<1>2. PICK e \in Event : /\ e.type \notin TerminalTypes
                         /\ Admitted(t)
                         /\ ~TerminalStream(t)
                         /\ events' = [events EXCEPT ![t] = Append(events[t], e)]
  <2>1. PICK type \in EventTypes \ TerminalTypes, i \in Items \cup {NULL} :
          AppendOne(t, type, i)
    BY DEF Appends
  <2>2. [type |-> type, item |-> i] \in Event
    BY <2>1 DEF Event
  <2>3. QED
    BY <2>1, <2>2 DEF AppendOne, Admitted
<1>3. events[t] \in Seq(Event)
  BY DEF TablesTypeOK
<1>4. /\ \A u \in Turns : u # t => events'[u] = events[u]
      /\ events'[t] # <<>>
      /\ Len(events'[t]) = Len(events[t]) + 1
      /\ events'[t][Len(events[t]) + 1] = e
      /\ \A k \in 1..Len(events[t]) : events'[t][k] = events[t][k]
  <2>1. /\ \A u \in Turns : u # t => events'[u] = events[u]
        /\ events'[t] = Append(events[t], e)
    BY <1>2 DEF TablesTypeOK
  <2>2. /\ Append(events[t], e) # <<>>
        /\ Len(Append(events[t], e)) = Len(events[t]) + 1
        /\ Append(events[t], e)[Len(events[t]) + 1] = e
        /\ \A k \in 1..Len(events[t]) : Append(events[t], e)[k] = events[t][k]
    BY <1>2, <1>3, AppendFacts
  <2>3. QED
    BY <2>1, <2>2
<1>5. executionState[t] # "settled"
  BY <1>2 DEF TurnsInv, SettledOnce
<1>6. ~TerminalStream(t)'
  BY <1>2, <1>4 DEF TerminalStream, LastType
<1>7. \A u \in Turns : u # t => LastType(u)' = LastType(u)
  BY <1>4 DEF LastType
<1>8. Unadmitted'
  BY <1>1, <1>2, <1>4 DEF TurnsInv, Unadmitted, Admitted, lineageVars
<1>9. OrdersDistinct'
  BY <1>1 DEF TurnsInv, OrdersDistinct, Admitted, lineageVars
<1>10. SettledOnce'
  <2>1. ASSUME NEW u \in Turns
        PROVE  /\ (executionState[u] = "settled" <=> TerminalStream(u))'
               /\ (\A k \in 1..Len(events[u]) :
                     events[u][k].type \in TerminalTypes => k = Len(events[u]))'
    <3>1. CASE u # t
      BY <1>1, <1>4, <1>7, <3>1 DEF TurnsInv, SettledOnce, TerminalStream
    <3>2. CASE u = t
      <4>1. \A k \in 1..Len(events[t]) : events[t][k].type \notin TerminalTypes
        BY <1>5, TerminalIsLast DEF TurnsInv
      <4>2. \A k \in 1..Len(events'[t]) : events'[t][k].type \notin TerminalTypes
        <5>1. Len(events[t]) \in Nat
          BY <1>3
        <5>2. ASSUME NEW k \in 1..Len(events'[t])
              PROVE  events'[t][k].type \notin TerminalTypes
          <6>1. k \in 1..Len(events[t]) \/ k = Len(events[t]) + 1
            BY <1>4, <5>1
          <6>2. QED
            BY <1>2, <1>4, <4>1, <6>1
        <5>3. QED
          BY <5>2
      <4>3. QED
        BY <1>1, <1>5, <1>6, <3>2, <4>2
    <3>3. QED
      BY <3>1, <3>2
  <2>2. QED
    BY <2>1 DEF SettledOnce
<1>11. CurrentIsLast'
  BY <1>1 DEF TurnsInv, CurrentIsLast, Admitted, sessionVars, lineageVars
<1>12. LinearLineage'
  <2>1. \A u \in Turns : /\ ParentOf(u)' = ParentOf(u)
                         /\ ParentOf(u) # NULL => ParentOf(u) \in Turns
                         /\ Admitted(u)' <=> Admitted(u)
    BY <1>1 DEF ParentOf, TablesTypeOK, lineageVars, Admitted
  <2>2. \A u \in Turns : executionState[u] = "settled" => events'[u] = events[u]
    BY <1>4, <1>5
  <2>3. \A u \in Turns : executionState[u] = "settled" => LastType(u)' = LastType(u)
    BY <2>2 DEF LastType
  <2>4. UNCHANGED <<admissionOrder, continuationOf, admissionState, executionState>>
    BY <1>1 DEF lineageVars
  <2> SUFFICES ASSUME NEW u \in Turns, Admitted(u)', ParentOf(u)' # NULL
               PROVE  /\ Admitted(ParentOf(u))'
                      /\ (admissionOrder[u] = admissionOrder[ParentOf(u)] + 1)'
                      /\ (executionState[ParentOf(u)] = "settled")'
                      /\ (continuationOf[u] # NULL =>
                            LastType(ParentOf(u)) = "turn.interrupted")'
    BY DEF LinearLineage
  <2>5. PICK p \in Turns : p = ParentOf(u) /\ p = ParentOf(u)'
    BY <2>1
  <2>6. /\ Admitted(p)
        /\ admissionOrder[u] = admissionOrder[p] + 1
        /\ executionState[p] = "settled"
        /\ continuationOf[u] # NULL => LastType(p) = "turn.interrupted"
    BY <2>1, <2>5 DEF TurnsInv, LinearLineage
  <2>7. QED
    BY <2>3, <2>4, <2>5, <2>6 DEF Admitted, LastType
<1>13. QED
  BY <1>8, <1>9, <1>10, <1>11, <1>12 DEF TurnsInv
=============================================================================

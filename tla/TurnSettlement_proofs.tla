------------------------ MODULE TurnSettlement_proofs ------------------------
(***************************************************************************)
(* The settlement of a turn preserves the invariant of the turns; with it, *)
(* every form of a transaction does.                                       *)
(***************************************************************************)
EXTENDS TurnSteps_proofs

(* What a settlement leaves in the stream. *)
LEMMA SettlesEvents ==
  ASSUME TablesTypeOK, TablesAssumption, TurnsInv,
         NEW t \in Turns, NEW type \in TerminalTypes, Settles(t, type)
  PROVE  /\ Admitted(t)
         /\ LastType(t)' = type
         /\ \A u \in Turns : u # t => events'[u] = events[u]
         /\ events'[t] # <<>>
         /\ \A k \in 1..Len(events'[t]) :
              events'[t][k].type \in TerminalTypes => k = Len(events'[t])
         /\ executionState[t] = "settled" => UNCHANGED events /\ type = LastType(t)
<1>0. events[t] \in Seq(Event)
  BY DEF TablesTypeOK
<1>1. CASE AppendOne(t, type, NULL)
  <2> DEFINE e == [type |-> type, item |-> NULL]
  <2>1. e \in Event
    BY DEF Event, EventTypes
  <2>2. /\ Admitted(t)
        /\ ~TerminalStream(t)
        /\ events' = [events EXCEPT ![t] = Append(events[t], e)]
    BY <1>1 DEF AppendOne, Admitted
  <2>3. e.type = type
    OBVIOUS
  <2> HIDE DEF e
  <2>4. /\ \A u \in Turns : u # t => events'[u] = events[u]
        /\ events'[t] # <<>>
        /\ Len(events'[t]) = Len(events[t]) + 1
        /\ events'[t][Len(events[t]) + 1] = e
        /\ \A k \in 1..Len(events[t]) : events'[t][k] = events[t][k]
    <3>1. /\ \A u \in Turns : u # t => events'[u] = events[u]
          /\ events'[t] = Append(events[t], e)
      BY <2>2 DEF TablesTypeOK
    <3>2. /\ Append(events[t], e) # <<>>
          /\ Len(Append(events[t], e)) = Len(events[t]) + 1
          /\ Append(events[t], e)[Len(events[t]) + 1] = e
          /\ \A k \in 1..Len(events[t]) : Append(events[t], e)[k] = events[t][k]
      BY <1>0, <2>1, AppendFacts
    <3>3. QED
      BY <3>1, <3>2
  <2>5. executionState[t] # "settled"
    BY <2>2 DEF TurnsInv, SettledOnce
  <2>6. \A k \in 1..Len(events[t]) : events[t][k].type \notin TerminalTypes
    BY <2>5, TerminalIsLast DEF TurnsInv
  <2>7. LastType(t)' = type
    BY <2>3, <2>4 DEF LastType
  <2>8. ASSUME NEW k \in 1..Len(events'[t]), events'[t][k].type \in TerminalTypes
        PROVE  k = Len(events'[t])
    <3>1. Len(events[t]) \in Nat
      BY <1>0
    <3>2. k \in 1..Len(events[t]) \/ k = Len(events[t]) + 1
      BY <2>4, <3>1
    <3>3. QED
      BY <2>4, <2>6, <2>8, <3>2
  <2>9. QED
    BY <2>2, <2>4, <2>5, <2>7, <2>8
<1>2. CASE /\ admissionState[t] = "admitted"
           /\ events[t] = <<>>
           /\ events' = [events EXCEPT ![t] =
                <<[type |-> "turn.started", item |-> NULL],
                  [type |-> type, item |-> NULL]>>]
  <2>1. /\ \A u \in Turns : u # t => events'[u] = events[u]
        /\ events'[t] = <<[type |-> "turn.started", item |-> NULL],
                          [type |-> type, item |-> NULL]>>
    BY <1>2 DEF TablesTypeOK
  <2>2. /\ Len(events'[t]) = 2
        /\ events'[t][1].type = "turn.started"
        /\ events'[t][2].type = type
        /\ events'[t] # <<>>
    BY <2>1
  <2>3. LastType(t)' = type
    BY <2>2 DEF LastType
  <2>4. "turn.started" \notin TerminalTypes
    BY DEF TerminalTypes
  <2>5. ~TerminalStream(t)
    BY <1>2 DEF TerminalStream, LastType, TerminalTypes
  <2>6. executionState[t] # "settled"
    BY <2>5 DEF TurnsInv, SettledOnce
  <2>7. \A k \in 1..2 : k = 1 \/ k = 2
    OBVIOUS
  <2>8. QED
    BY <1>2, <2>1, <2>2, <2>3, <2>4, <2>6, <2>7 DEF Admitted
<1>3. CASE TerminalStream(t) /\ LastType(t) = type /\ UNCHANGED events
  <2>1. events[t] # <<>>
    BY <1>3 DEF TerminalStream, LastType, TerminalTypes
  <2>2. Admitted(t)
    BY <2>1 DEF TurnsInv, Unadmitted
  <2>3. LastType(t)' = type
    BY <1>3 DEF LastType
  <2>4. QED
    BY <1>3, <2>1, <2>2, <2>3 DEF TurnsInv, SettledOnce
<1>4. QED
  BY <1>1, <1>2, <1>3 DEF Settles

(* A settlement preserves the invariant of the turns. *)
LEMMA SettlesKeepsInv ==
  ASSUME TablesTypeOK, TablesAssumption, TurnsInv,
         NEW t \in Turns, NEW type \in TerminalTypes, Settles(t, type)
  PROVE  TurnsInv'
<1>1. /\ Admitted(t)
      /\ LastType(t)' = type
      /\ \A u \in Turns : u # t => events'[u] = events[u]
      /\ events'[t] # <<>>
      /\ \A k \in 1..Len(events'[t]) :
           events'[t][k].type \in TerminalTypes => k = Len(events'[t])
      /\ executionState[t] = "settled" => UNCHANGED events /\ type = LastType(t)
  BY SettlesEvents
<1>2. /\ executionState' = [executionState EXCEPT ![t] = "settled"]
      /\ UNCHANGED <<currentTurn, lineageVars, admissionState>>
  BY DEF Settles, ProjectTerminal
<1>3. /\ executionState'[t] = "settled"
      /\ \A u \in Turns : u # t => executionState'[u] = executionState[u]
  BY <1>2 DEF TablesTypeOK
<1>4. \A u \in Turns : /\ Admitted(u)' <=> Admitted(u)
                       /\ ParentOf(u)' = ParentOf(u)
                       /\ ParentOf(u) # NULL => ParentOf(u) \in Turns
  BY <1>2 DEF Admitted, ParentOf, lineageVars, TablesTypeOK
<1>5. \A u \in Turns : u # t => LastType(u)' = LastType(u)
  BY <1>1 DEF LastType
<1>6. Unadmitted'
  BY <1>1, <1>2, <1>3 DEF TurnsInv, Unadmitted, Admitted, lineageVars
<1>7. OrdersDistinct'
  BY <1>2 DEF TurnsInv, OrdersDistinct, Admitted, lineageVars
<1>8. SettledOnce'
  <2>1. TerminalStream(t)'
    BY <1>1 DEF TerminalStream
  <2>2. ASSUME NEW u \in Turns, u # t
        PROVE  /\ (executionState[u] = "settled" <=> TerminalStream(u))'
               /\ (\A k \in 1..Len(events[u]) :
                     events[u][k].type \in TerminalTypes => k = Len(events[u]))'
    BY <1>1, <1>3, <1>5, <2>2 DEF TurnsInv, SettledOnce, TerminalStream
  <2>3. QED
    BY <1>1, <1>3, <2>1, <2>2 DEF SettledOnce
<1>9. CurrentIsLast'
  BY <1>2 DEF TurnsInv, CurrentIsLast, Admitted, lineageVars
<1>10. LinearLineage'
  <2> SUFFICES ASSUME NEW u \in Turns, Admitted(u)', ParentOf(u)' # NULL
               PROVE  /\ Admitted(ParentOf(u))'
                      /\ (admissionOrder[u] = admissionOrder[ParentOf(u)] + 1)'
                      /\ (executionState[ParentOf(u)] = "settled")'
                      /\ (continuationOf[u] # NULL =>
                            LastType(ParentOf(u)) = "turn.interrupted")'
    BY DEF LinearLineage
  <2>1. PICK p \in Turns : p = ParentOf(u)
    BY <1>4
  <2>2. /\ Admitted(p)
        /\ admissionOrder[u] = admissionOrder[p] + 1
        /\ executionState[p] = "settled"
        /\ continuationOf[u] # NULL => LastType(p) = "turn.interrupted"
    BY <1>4, <2>1 DEF TurnsInv, LinearLineage
  <2>3. executionState'[p] = "settled" /\ events'[p] = events[p]
    BY <1>1, <1>3, <2>2
  <2>4. p = ParentOf(u)'
    BY <1>4, <2>1
  <2>5. QED
    BY <1>2, <2>2, <2>3, <2>4 DEF lineageVars, Admitted, LastType
<1>11. QED
  BY <1>6, <1>7, <1>8, <1>9, <1>10 DEF TurnsInv

-----------------------------------------------------------------------------
(* A rewrite of the session row or of a run preserves it. *)
LEMMA RewritesKeepsInv ==
  ASSUME TurnsInv, Rewrites
  PROVE  TurnsInv'
<1>1. UNCHANGED <<currentTurn, admissionSequence, admissionOrder, revisionOf,
                  continuationOf, admissionState, executionState, events>>
  BY DEF Rewrites, lineageVars
<1>2. Unadmitted' /\ OrdersDistinct' /\ CurrentIsLast'
  BY <1>1 DEF TurnsInv, Unadmitted, OrdersDistinct, CurrentIsLast, Admitted
<1>3. SettledOnce'
  BY <1>1 DEF TurnsInv, SettledOnce, TerminalStream, LastType
<1>4. LinearLineage'
  BY <1>1 DEF TurnsInv, LinearLineage, ParentOf, Admitted, LastType
<1>5. QED
  BY <1>2, <1>3, <1>4 DEF TurnsInv

(* Every form preserves the invariant. *)
LEMMA TurnStepKeepsInv ==
  ASSUME TablesTypeOK, TablesAssumption, TurnsInv, TurnStep \/ Rewrites
  PROVE  TurnsInv'
<1>1. CASE UNCHANGED turnTables \/ Rewrites
  <2>1. Rewrites
    BY <1>1 DEF turnTables, sessionVars, Rewrites
  <2>2. QED
    BY <2>1, RewritesKeepsInv
<1>2. ASSUME NEW t \in Turns, NEW r \in Turns \cup {NULL}, Reserves(t, r)
      PROVE  TurnsInv'
  BY <1>2, ReservesKeepsInv
<1>3. ASSUME NEW t \in Turns, Admits(t) PROVE TurnsInv'
  BY <1>3, AdmitsKeepsInv
<1>4. ASSUME NEW t \in Turns, Claims(t) PROVE TurnsInv'
  BY <1>4, ClaimsKeepsInv
<1>5. ASSUME NEW t \in Turns, Appends(t) PROVE TurnsInv'
  BY <1>5, AppendsKeepsInv
<1>6. ASSUME NEW t \in Turns, NEW type \in TerminalTypes, Settles(t, type)
      PROVE  TurnsInv'
  BY <1>6, SettlesKeepsInv
<1>7. QED
  BY <1>1, <1>2, <1>3, <1>4, <1>5, <1>6 DEF TurnStep
=============================================================================

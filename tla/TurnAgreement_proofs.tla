------------------------ MODULE TurnAgreement_proofs ------------------------
(***************************************************************************)
(* Every step but POST /api/sessions keeps the session row and the runs in *)
(* agreement with the turns, for every set of turns, runs and items.       *)
(***************************************************************************)
EXTENDS TurnSettlement_proofs

(* What a step that is not a save may do to the session row. *)
SessionFollows ==
  /\ currentTurn' # currentTurn =>
       /\ admissionState[currentTurn'] # "admitted"
       /\ admissionState'[currentTurn'] = "admitted"
       /\ admissionOrder'[currentTurn'] = admissionSequence'
       /\ SessionAgrees'
  /\ SessionAgrees => SessionAgrees'
  /\ (activeRun' # activeRun /\ currentTurn' = currentTurn) =>
       /\ activeRun = RunOf[currentTurn] /\ activeRun' = NULL
       /\ executionState'[currentTurn] = "settled"

(* What it may do to the runs. *)
RunsFollow ==
  \A t \in Turns :
    \/ RunAgrees(t)
    \/ executionState'[t] = "settled" /\ executionState[t] # "settled"
    => RunAgrees(t)'

-----------------------------------------------------------------------------
(* The session row and the runs are left alone, and so are the outcomes    *)
(* of the turns that have one.                                             *)
Keeps ==
  /\ UNCHANGED <<sessionVars, admissionOrder, runStatus>>
  /\ \A u \in Turns :
       /\ Admitted(u)' <=> Admitted(u)
       /\ Unsettled(u)' <=> Unsettled(u)
       /\ ~Unsettled(u) /\ Admitted(u) => LastType(u)' = LastType(u)
       /\ executionState'[u] = "settled" => executionState[u] = "settled"

(* Such a step keeps every agreement and restores none. *)
LEMMA KeepsFollows ==
  ASSUME TablesTypeOK, TurnsInv, Keeps
  PROVE  SessionFollows /\ RunsFollow
<1>1. UNCHANGED <<activeRun, currentTurn, sessionStatus>>
  BY DEF Keeps, sessionVars
<1>2. SessionAgrees => SessionAgrees'
  <2> SUFFICES ASSUME SessionAgrees, currentTurn # NULL PROVE SessionAgrees'
    BY <1>1 DEF SessionAgrees
  <2>1. PICK c \in Turns : c = currentTurn /\ Admitted(c)
    BY DEF TablesTypeOK, TurnsInv, CurrentIsLast
  <2>2. CASE Unsettled(c)
    <3>1. Unsettled(c)'
      BY <2>2 DEF Keeps
    <3>2. QED
      BY <1>1, <2>1, <2>2, <3>1 DEF SessionAgrees, Unsettled, Admitted
  <2>3. CASE ~Unsettled(c)
    <3>1. ~Unsettled(c)' /\ LastType(c)' = LastType(c)
      BY <2>1, <2>3 DEF Keeps
    <3>2. QED
      BY <1>1, <2>1, <2>3, <3>1
      DEF SessionAgrees, Unsettled, Admitted, LastType, SessionOutcome
  <2>4. QED
    BY <2>2, <2>3
<1>3. RunsFollow
  <2> SUFFICES ASSUME NEW u \in Turns, RunAgrees(u) PROVE RunAgrees(u)'
    BY DEF RunsFollow, Keeps
  <2>1. LastOfRun(u)' => LastOfRun(u) /\ Admitted(u)
    BY DEF Keeps, LastOfRun
  <2>2. QED
    BY <2>1 DEF Keeps, RunAgrees, RunOutcome
<1>4. QED
  BY <1>1, <1>2, <1>3 DEF SessionFollows

(* A reservation is such a step. *)
LEMMA ReservesKeeps ==
  ASSUME TablesTypeOK, NEW t \in Turns, NEW r \in Turns \cup {NULL},
         Reserves(t, r)
  PROVE  Keeps
<1>1. \A u \in Turns : Admitted(u)' <=> Admitted(u)
  BY DEF Reserves, Admitted, TablesTypeOK
<1>2. UNCHANGED <<sessionVars, admissionOrder, executionState, runStatus, events>>
  BY DEF Reserves
<1>3. QED
  BY <1>1, <1>2 DEF Keeps, Unsettled, LastType

(* A claim is. *)
LEMMA ClaimsKeeps ==
  ASSUME TablesTypeOK, NEW t \in Turns, Claims(t)
  PROVE  Keeps
<1>1. /\ executionState[t] # "settled" /\ executionState'[t] # "settled"
      /\ \A u \in Turns : u # t => executionState'[u] = executionState[u]
  BY DEF Claims, TablesTypeOK
<1>2. UNCHANGED <<sessionVars, admissionOrder, admissionState, runStatus, events>>
  BY DEF Claims, lineageVars
<1>3. \A u \in Turns : /\ Admitted(u)' <=> Admitted(u)
                       /\ Unsettled(u)' <=> Unsettled(u)
                       /\ LastType(u)' = LastType(u)
  BY <1>1, <1>2 DEF Admitted, Unsettled, LastType
<1>4. QED
  BY <1>1, <1>2, <1>3 DEF Keeps

(* An event that is not terminal is: its turn is not settled. *)
LEMMA AppendsKeeps ==
  ASSUME TablesTypeOK, TurnsInv, NEW t \in Turns, Appends(t)
  PROVE  Keeps
<1>1. UNCHANGED <<sessionVars, admissionOrder, admissionState, executionState,
                  runStatus>>
  BY DEF Appends, lineageVars
<1>2. /\ Admitted(t) /\ ~TerminalStream(t)
      /\ \A u \in Turns : u # t => events'[u] = events[u]
  BY DEF Appends, AppendOne, Admitted, TablesTypeOK
<1>3. Unsettled(t)
  BY <1>2 DEF TurnsInv, SettledOnce, Unsettled
<1>4. \A u \in Turns : u # t => LastType(u)' = LastType(u)
  BY <1>2 DEF LastType
<1>5. QED
  BY <1>1, <1>3, <1>4 DEF Keeps, Admitted, Unsettled

-----------------------------------------------------------------------------
(* An admission points the session at its turn and makes both agree. *)
LEMMA AdmitsFollows ==
  ASSUME TablesTypeOK, TablesAssumption, TurnsInv, NEW t \in Turns, Admits(t)
  PROVE  SessionFollows /\ RunsFollow
<1>0. /\ ~Admitted(t)
      /\ Admitted(t)'
      /\ \A u \in Turns : u # t => (Admitted(u)' <=> Admitted(u))
      /\ \A u \in Turns : u # t => executionState'[u] = executionState[u]
      /\ \A u \in Turns : u # t => admissionOrder'[u] = admissionOrder[u]
      /\ executionState'[t] = "pending"
      /\ admissionOrder'[t] = admissionSequence + 1
  BY DEF Admits, Activate, Admitted, TablesTypeOK
<1>1. /\ admissionSequence' = admissionSequence + 1
      /\ runStatus' = [runStatus EXCEPT ![RunOf[t]] = "running"]
      /\ activeRun' = RunOf[t]
      /\ currentTurn' = t
      /\ sessionStatus' = "running"
      /\ UNCHANGED events
  BY DEF Admits, Activate
<1>2. Unsettled(t)'
  BY <1>0 DEF Unsettled
<1>3. SessionAgrees'
  BY <1>1, <1>2 DEF SessionAgrees, Unsettled, Admitted
<1>4. currentTurn' # currentTurn
  <2>1. t # NULL
    BY DEF TablesAssumption
  <2>2. QED
    BY <1>0, <1>1, <2>1 DEF TurnsInv, CurrentIsLast
<1>5. SessionFollows
  BY <1>0, <1>1, <1>3, <1>4 DEF SessionFollows, Admitted
<1>6. RunsFollow
  <2> SUFFICES ASSUME NEW u \in Turns, LastOfRun(u)',
                      \/ RunAgrees(u)
                      \/ executionState'[u] = "settled" /\ executionState[u] # "settled"
               PROVE  (runStatus[RunOf[u]] =
                         IF Unsettled(u) THEN "running"
                         ELSE RunOutcome(LastType(u)))'
    BY DEF RunsFollow, RunAgrees
  <2>0. RunOf \in [Turns -> Runs]
    BY DEF TablesAssumption
  <2>1. CASE u = t
    <3>1. runStatus'[RunOf[u]] = "running"
      BY <1>1, <2>0, <2>1 DEF TablesTypeOK
    <3>2. QED
      BY <1>2, <2>1, <3>1
  <2>2. CASE u # t
    <3>1. RunOf[u] # RunOf[t]
      <4>1. admissionOrder'[u] < admissionOrder'[t]
        BY <1>0, <2>2 DEF TurnsInv, OrdersDistinct, TablesTypeOK
      <4>2. RunOf[t] = RunOf[u] => admissionOrder'[t] <= admissionOrder'[u]
        BY <1>0 DEF LastOfRun
      <4>3. admissionOrder'[u] \in Nat /\ admissionOrder'[t] \in Nat
        BY <1>0, <2>2 DEF TablesTypeOK
      <4>4. QED
        BY <4>1, <4>2, <4>3
    <3>2. runStatus'[RunOf[u]] = runStatus[RunOf[u]]
      BY <1>1, <2>0, <3>1 DEF TablesTypeOK
    <3>3. LastOfRun(u)
      <4>1. Admitted(u)
        BY <1>0, <2>2 DEF LastOfRun
      <4>2. ASSUME NEW w \in Turns, RunOf[w] = RunOf[u], Admitted(w)
            PROVE  admissionOrder[w] <= admissionOrder[u]
        <5>1. w # t
          BY <3>1, <4>2
        <5>2. QED
          BY <1>0, <2>2, <4>2, <5>1 DEF LastOfRun
      <4>3. QED
        BY <4>1, <4>2 DEF LastOfRun
    <3>4. LastType(u)' = LastType(u) /\ (Unsettled(u)' <=> Unsettled(u))
      BY <1>0, <1>1, <2>2 DEF LastType, Unsettled
    <3>5. RunAgrees(u)
      BY <1>0, <2>2
    <3>6. QED
      BY <3>2, <3>3, <3>4, <3>5 DEF RunAgrees, RunOutcome
  <2>3. QED
    BY <2>1, <2>2
<1>7. QED
  BY <1>5, <1>6

-----------------------------------------------------------------------------
(* A settlement frees the session if its turn is the one the session runs, *)
(* and gives the run its outcome if no later turn has taken the run over.  *)
LEMMA SettlesFollows ==
  ASSUME TablesTypeOK, TablesAssumption, TurnsInv,
         NEW t \in Turns, NEW type \in TerminalTypes, Settles(t, type)
  PROVE  SessionFollows /\ RunsFollow
<1>1. /\ Admitted(t)
      /\ LastType(t)' = type
      /\ \A u \in Turns : u # t => events'[u] = events[u]
      /\ executionState[t] = "settled" => type = LastType(t)
  BY SettlesEvents
<1>2. /\ executionState' = [executionState EXCEPT ![t] = "settled"]
      /\ runStatus' = IF LaterAdmission(t) THEN runStatus
                      ELSE [runStatus EXCEPT ![RunOf[t]] = RunOutcome(type)]
      /\ IF IsActive(t)
           THEN /\ activeRun' = NULL
                /\ sessionStatus' = SessionOutcome(type)
           ELSE UNCHANGED <<activeRun, sessionStatus>>
      /\ UNCHANGED <<currentTurn, lineageVars, admissionState>>
  BY DEF Settles, ProjectTerminal
<1>3. /\ executionState'[t] = "settled"
      /\ \A u \in Turns : u # t => executionState'[u] = executionState[u]
  BY <1>2 DEF TablesTypeOK
<1>4. \A u \in Turns : /\ Admitted(u)' <=> Admitted(u)
                       /\ LastOfRun(u)' <=> LastOfRun(u)
  BY <1>2 DEF Admitted, LastOfRun, lineageVars
<1>5. \A u \in Turns : u # t => /\ LastType(u)' = LastType(u)
                                /\ Unsettled(u)' <=> Unsettled(u)
  BY <1>1, <1>3, <1>4 DEF LastType, Unsettled
<1>6. ~Unsettled(t)'
  BY <1>3 DEF Unsettled
<1>7. SessionAgrees => SessionAgrees'
  <2> SUFFICES ASSUME SessionAgrees, currentTurn # NULL PROVE SessionAgrees'
    BY <1>2 DEF SessionAgrees
  <2>1. PICK c \in Turns : c = currentTurn
    BY DEF TablesTypeOK
  <2>2. /\ activeRun = IF Unsettled(c) THEN RunOf[c] ELSE NULL
        /\ sessionStatus = IF Unsettled(c) THEN "running"
                           ELSE SessionOutcome(LastType(c))
    BY <2>1 DEF SessionAgrees
  <2>3. RunOf[c] # NULL
    BY DEF TablesAssumption
  <2>4. /\ activeRun' = IF Unsettled(c)' THEN RunOf[c] ELSE NULL
        /\ sessionStatus' = IF Unsettled(c)' THEN "running"
                            ELSE SessionOutcome(LastType(c)')
    <3>1. CASE c # t
      <4>1. ~IsActive(t)
        BY <2>1, <3>1 DEF IsActive
      <4>2. QED
        BY <1>2, <1>5, <2>2, <3>1, <4>1
    <3>2. CASE c = t /\ Unsettled(t)
      <4>1. IsActive(t)
        BY <2>1, <2>2, <3>2 DEF IsActive
      <4>2. QED
        BY <1>1, <1>2, <1>6, <3>2, <4>1
    <3>3. CASE c = t /\ ~Unsettled(t)
      <4>1. ~IsActive(t)
        BY <2>2, <2>3, <3>3 DEF IsActive
      <4>2. type = LastType(t)
        BY <1>1, <3>3 DEF Unsettled
      <4>3. QED
        BY <1>1, <1>2, <1>6, <2>2, <3>3, <4>1, <4>2
    <3>4. QED
      BY <3>1, <3>2, <3>3
  <2>5. currentTurn' = c
    BY <1>2, <2>1
  <2>6. QED
    BY <2>4, <2>5 DEF SessionAgrees, Admitted, Unsettled, LastType, SessionOutcome
<1>8. SessionFollows
  <2>1. currentTurn' = currentTurn
    BY <1>2
  <2>2. activeRun' # activeRun => /\ activeRun = RunOf[currentTurn]
                                  /\ activeRun' = NULL
                                  /\ currentTurn = t
    BY <1>2 DEF IsActive
  <2>3. QED
    BY <1>3, <1>7, <2>1, <2>2 DEF SessionFollows
<1>9. RunsFollow
  <2> SUFFICES ASSUME NEW u \in Turns, LastOfRun(u)',
                      \/ RunAgrees(u)
                      \/ executionState'[u] = "settled" /\ executionState[u] # "settled"
               PROVE  (runStatus[RunOf[u]] =
                         IF Unsettled(u) THEN "running"
                         ELSE RunOutcome(LastType(u)))'
    BY DEF RunsFollow, RunAgrees
  <2>0. RunOf \in [Turns -> Runs]
    BY DEF TablesAssumption
  <2>1. LastOfRun(u)
    BY <1>4
  <2>2. CASE u = t
    <3>1. ~LaterAdmission(t)
      <4> SUFFICES ASSUME NEW w \in Turns, RunOf[w] = RunOf[t],
                          admissionOrder[w] > admissionOrder[t]
                   PROVE  FALSE
        BY DEF LaterAdmission
      <4>1. admissionOrder[w] \in Nat /\ admissionOrder[t] \in Nat
        BY DEF TablesTypeOK
      <4>2. Admitted(w)
        <5>1. admissionOrder[w] > 0
          BY <4>1
        <5>2. admissionOrder[w] > 0 <=> Admitted(w)
          BY DEF TurnsInv, OrdersDistinct
        <5>3. QED
          BY <5>1, <5>2
      <4>3. admissionOrder[w] <= admissionOrder[t]
        BY <2>1, <2>2, <4>2 DEF LastOfRun
      <4>4. QED
        BY <4>1, <4>3
    <3>2. runStatus'[RunOf[t]] = RunOutcome(type)
      BY <1>2, <2>0, <3>1 DEF TablesTypeOK
    <3>3. QED
      BY <1>1, <1>6, <2>2, <3>2 DEF RunOutcome
  <2>3. CASE u # t
    <3>1. runStatus'[RunOf[u]] = runStatus[RunOf[u]]
      <4>1. CASE RunOf[u] = RunOf[t]
        <5>1. Admitted(u) /\ admissionOrder[t] <= admissionOrder[u]
          BY <1>1, <2>1, <4>1 DEF LastOfRun
        <5>2. admissionOrder[u] # admissionOrder[t]
          BY <1>1, <2>3, <5>1 DEF TurnsInv, OrdersDistinct
        <5>3. admissionOrder[u] \in Nat /\ admissionOrder[t] \in Nat
          BY DEF TablesTypeOK
        <5>4. LaterAdmission(t)
          <6>1. admissionOrder[u] > admissionOrder[t]
            BY <5>1, <5>2, <5>3
          <6>2. QED
            BY <4>1, <6>1 DEF LaterAdmission
        <5>5. QED
          BY <1>2, <5>4
      <4>2. CASE RunOf[u] # RunOf[t]
        BY <1>2, <2>0, <4>2 DEF TablesTypeOK
      <4>3. QED
        BY <4>1, <4>2
    <3>2. RunAgrees(u)
      BY <1>3, <2>3
    <3>3. QED
      BY <1>5, <2>1, <2>3, <3>1, <3>2 DEF RunAgrees, RunOutcome
  <2>4. QED
    BY <2>2, <2>3
<1>10. QED
  BY <1>8, <1>9

-----------------------------------------------------------------------------
(* Every form but the rewrite keeps the agreements. *)
LEMMA TurnStepFollows ==
  ASSUME TablesTypeOK, TablesAssumption, TurnsInv, TurnStep
  PROVE  SessionFollows /\ RunsFollow
<1>1. CASE UNCHANGED turnTables
  <2>1. Keeps
    BY <1>1 DEF turnTables, lineageVars, Keeps, Admitted, Unsettled, LastType
  <2>2. QED
    BY <2>1, KeepsFollows
<1>2. ASSUME NEW t \in Turns, NEW r \in Turns \cup {NULL}, Reserves(t, r)
      PROVE  SessionFollows /\ RunsFollow
  BY <1>2, ReservesKeeps, KeepsFollows
<1>3. ASSUME NEW t \in Turns, Admits(t) PROVE SessionFollows /\ RunsFollow
  BY <1>3, AdmitsFollows
<1>4. ASSUME NEW t \in Turns, Claims(t) PROVE SessionFollows /\ RunsFollow
  BY <1>4, ClaimsKeeps, KeepsFollows
<1>5. ASSUME NEW t \in Turns, Appends(t) PROVE SessionFollows /\ RunsFollow
  BY <1>5, AppendsKeeps, KeepsFollows
<1>6. ASSUME NEW t \in Turns, NEW type \in TerminalTypes, Settles(t, type)
      PROVE  SessionFollows /\ RunsFollow
  BY <1>6, SettlesFollows
<1>7. QED
  BY <1>1, <1>2, <1>3, <1>4, <1>5, <1>6 DEF TurnStep
=============================================================================

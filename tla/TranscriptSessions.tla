------------------------- MODULE TranscriptSessions -------------------------
(***************************************************************************)
(* The two upserts of createPersistedSession (POST /api/sessions) on rows  *)
(* that exist.  Neither looks at the turns, and no trigger of the queue's  *)
(* revision is on sessions or runs.  The task row, the title and the       *)
(* workspace binding are left out.                                         *)
(***************************************************************************)
EXTENDS ThreadTables

(* UPSERT_SESSION_SQL: current_turn_id is not among its columns. *)
EnsureSession(r) ==
  /\ activeRun' = r
  /\ sessionStatus' = "idle"
  /\ UNCHANGED <<currentTurn, lineageVars, admissionVars, runStatus, events,
                 inputVars, queueVars>>

(* UPSERT_RUN_SQL replaces the status of a run that is stored. *)
EnsureRun(r) ==
  /\ runStatus' = [runStatus EXCEPT ![r] = "created"]
  /\ UNCHANGED <<sessionVars, lineageVars, admissionVars, events, inputVars,
                 queueVars>>
=============================================================================

----------------------------- MODULE JobStates -----------------------------
(***************************************************************************)
(* The vocabulary of the job store (app/jobs/models.py): the states a job  *)
(* row can be in and the transitions JobStore.set_status is meant to       *)
(* enforce.  NoRow stands for a job id that has not been allocated yet.    *)
(***************************************************************************)

NoRow == "NO_ROW"

JobState == {"RECEIVED", "VALIDATING", "NEEDS_CLARIFICATION", "QUEUED",
             "PROCESSING", "COMPLETED", "FAILED", "CANCELLED"}

\* The table of the same name, as the set of states reachable in one step.
ALLOWED_TRANSITIONS(s) ==
  CASE s = "RECEIVED"            -> {"VALIDATING", "FAILED"}
    [] s = "VALIDATING"          -> {"QUEUED", "NEEDS_CLARIFICATION", "FAILED"}
    [] s = "NEEDS_CLARIFICATION" -> {"QUEUED", "CANCELLED", "FAILED"}
    [] s = "QUEUED"              -> {"PROCESSING", "CANCELLED"}
    [] s = "PROCESSING"          -> {"COMPLETED", "FAILED", "NEEDS_CLARIFICATION"}
    [] OTHER                     -> {}

Operation == {"submit_transcript", "assess_query"}
=============================================================================

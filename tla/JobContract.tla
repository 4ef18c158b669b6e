---------------------------- MODULE JobContract ----------------------------
(***************************************************************************)
(* What the job store promises its readers, whoever drives it: a job row   *)
(* moves only along ALLOWED_TRANSITIONS; a transcript reaches the backend  *)
(* at most once, while its job is PROCESSING; it is COMPLETED only after   *)
(* that, and after that it is never asked about or queued again.  No       *)
(* thread, file, mail or crash is visible here.                            *)
(*                                                                         *)
(* Where owners may cancel, the promise is weaker at one point: the split  *)
(* SELECT and UPDATE of set_status lets a cancellation and an execution    *)
(* overwrite each other, so CANCELLED may replace, and be replaced by, any *)
(* state of an execution, and a cancelled job may still be submitted.      *)
(***************************************************************************)
EXTENDS JobStates

CONSTANTS
  Jobs,         \* the job ids that can be allocated
  Cancels       \* a Boolean: may owners cancel?

VARIABLES
  status,       \* status[j]: the status column of job j, or NoRow
  op,           \* op[j]: the operation column of job j, or NoRow
  submitted     \* the jobs for which a meeting exists on the backend

Init ==
  /\ status = [j \in Jobs |-> NoRow]
  /\ op = [j \in Jobs |-> NoRow]
  /\ submitted = {}

Create(j) ==
  /\ status[j] = NoRow
  /\ status' = [status EXCEPT ![j] = "RECEIVED"]
  /\ \E o \in Operation : op' = [op EXCEPT ![j] = o]
  /\ UNCHANGED submitted

\* The states an execution writes.
Executing == {"PROCESSING", "NEEDS_CLARIFICATION", "COMPLETED", "FAILED"}

\* A cancellation and an execution overwrite each other.
Overwrites(s, t) ==
  /\ Cancels
  /\ \/ s \in Executing /\ t = "CANCELLED"
     \/ s = "CANCELLED" /\ t \in Executing

Advance(j, s) ==
  /\ s \in ALLOWED_TRANSITIONS(status[j]) \/ Overwrites(status[j], s)
  /\ s = "COMPLETED" => j \in submitted \/ op[j] = "assess_query"
  /\ s \in {"NEEDS_CLARIFICATION", "QUEUED"} => j \notin submitted
  /\ status' = [status EXCEPT ![j] = s]
  /\ UNCHANGED <<op, submitted>>

Submit(j) ==
  /\ status[j] = "PROCESSING" \/ (Cancels /\ status[j] = "CANCELLED")
  /\ op[j] = "submit_transcript"
  /\ j \notin submitted
  /\ submitted' = submitted \cup {j}
  /\ UNCHANGED <<status, op>>

Next ==
  \E j \in Jobs : \/ Create(j)
                  \/ \E s \in JobState : Advance(j, s)
                  \/ Submit(j)

Spec == Init /\ [][Next]_<<status, op, submitted>>
=============================================================================

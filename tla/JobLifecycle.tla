---------------------------- MODULE JobLifecycle ----------------------------
(***************************************************************************)
(* The life of a job, as the two threads of app/main.py drive it: the mail *)
(* thread accepts, cancels and answers questions about jobs                *)
(* (app/pipeline.py, app/handlers), the worker executes the queued ones    *)
(* (app/jobs/worker.py, submit_transcript.execute, assess_query.execute).  *)
(*                                                                         *)
(* Every SQL statement commits by itself (app/storage/db.py opens each     *)
(* connection in autocommit mode), so every statement, file operation and  *)
(* backend call is a step of its own, and the threads interleave between   *)
(* any two.  In particular JobStore.set_status is a SELECT followed by an  *)
(* UPDATE.  A thread is a label (at), the job it works on (on) and, inside *)
(* set_status, the status it has read (read).                              *)
(*                                                                         *)
(* Left out: the ledger of incoming mail (Inbox), the sending of outgoing  *)
(* mail (Outbox), the choice of the group (GroupQuestion) and the          *)
(* throttling of admin alerts.  The senders' requests are taken from the   *)
(* point where Pipeline has dispatched them; that no message gets there as *)
(* long as _match_report raises is the subject of Inbox.                   *)
(***************************************************************************)
EXTENDS JobStates, Naturals

CONSTANTS
  Jobs,         \* job ids, in the order create_job allocates them
  Requests,     \* what senders mail: Operation, plus "cancel" and "answer"
  MaxPosts,     \* attempts of the HTTP client at one POST (its retry limit)
  MaxFaults,    \* bound on crashes and failed file operations
  GroupsChange  \* may a group disappear or be renamed after it was chosen?

ASSUME JobsAssumption == Jobs \subseteq Nat /\ Jobs # {}
ASSUME RequestsAssumption == Requests \subseteq Operation \cup {"cancel", "answer"}
ASSUME BoundsAssumption ==
  MaxPosts \in Nat \ {0} /\ MaxFaults \in Nat /\ GroupsChange \in BOOLEAN

VARIABLES
  status,    \* jobs.status, or NoRow
  op,        \* jobs.operation, or NoRow
  path,      \* jobs.attachment_storage_path: the directory the row names
  file,      \* the directory the attachment really is in
  settled,   \* jobs whose group_hint is a sender's answer
  pending,   \* jobs with a row in pending_clarifications
  notices,   \* <<job, kind>> for each mail ever put into the outbox
  meetings,  \* meetings[j]: meetings on the backend that stem from job j
  uploaded,  \* jobs whose transcript the backend has
  batch,     \* what is left of the worker's list_queued() snapshot
  at,        \* at[t]: where thread t is
  on,        \* on[t]: the job thread t works on
  read,      \* read[t]: the status set_status has selected, or NoRow
  faults     \* crashes and failed file operations so far

rows    == <<status, op, path, settled, pending, notices>>
backend == <<meetings, uploaded>>
threads == <<batch, at, on, read>>
vars    == <<rows, file, backend, threads, faults>>

Threads == {"mail", "worker"}
Dir     == {"none", "incoming", "processing", "completed", "failed"}

-----------------------------------------------------------------------------
(* The straight-line parts of the handlers, as tables from a label to what *)
(* is done there.  Labels are named after the statement they stand before. *)

\* The calls of set_status: the state each one asks for.
SetsStatus ==
  [validate |-> "VALIDATING", reject |-> "FAILED", queue |-> "QUEUED",
   cancel |-> "CANCELLED", requeue |-> "QUEUED",
   start |-> "PROCESSING", clarify |-> "NEEDS_CLARIFICATION",
   complete |-> "COMPLETED", fail |-> "FAILED"]

\* The calls of save_incoming and move_to: the directory the file ends in.
MovesFile ==
  [save |-> "incoming", take |-> "processing", shelve |-> "completed",
   discard |-> "failed", throwout |-> "failed"]

\* The calls of outbox.enqueue: the mail each one queues.  Acknowledgements
\* and the like, which settle nothing, are all "routine".
Enqueues ==
  [tellAck |-> "routine", tellReject |-> "failure", tellCancel |-> "cancelled",
   tellTooLate |-> "routine", tellReceived |-> "routine",
   tellQuestion |-> "clarification", tellDone |-> "completion",
   tellFailed |-> "failure"]

Notice == {"routine", "clarification", "cancelled", "completion", "failure"}

\* Where a thread goes after the statement at label l, in the order of the
\* code; a job of assess_query has no file and skips those statements.
Then(l, o) ==
  CASE l = "validate"    -> IF o = "assess_query" THEN "queue" ELSE "save"
    [] l = "save"        -> "noteSave"
    [] l = "noteSave"    -> "parse"
    [] l = "reject"      -> "throwout"
    [] l = "throwout"    -> "noteThrowout"
    [] l = "noteThrowout" -> "tellReject"
    [] l = "queue"       -> "tellAck"
    [] l = "cancel"      -> "tellCancel"
    [] l = "requeue"     -> "unpend"
    [] l = "unpend"      -> "tellReceived"
    [] l = "start"       -> IF o = "assess_query" THEN "match" ELSE "take"
    [] l = "take"        -> "noteTake"
    [] l = "noteTake"    -> "match"
    [] l = "clarify"     -> "pend"
    [] l = "pend"        -> "tellQuestion"
    [] l = "complete"    -> IF o = "assess_query" THEN "tellDone" ELSE "shelve"
    [] l = "shelve"      -> "noteShelve"
    [] l = "noteShelve"  -> "tellDone"
    [] l = "fail"        -> IF o = "assess_query" THEN "tellFailed" ELSE "discard"
    [] l = "discard"     -> "noteDiscard"
    [] l = "noteDiscard" -> "tellFailed"
    [] OTHER             -> "idle"

\* Where an exception raised at label l is caught: inside the try block of
\* execute it leads to the failure handler, anywhere else it reaches the
\* guard around one message or one job.
Raised(l) == IF l \in {"clarify", "complete", "shelve"} THEN "fail" ELSE "idle"

FileNoted == {"noteSave", "noteThrowout", "noteTake", "noteShelve", "noteDiscard"}

MailLabels ==
  {"idle", "validate", "save", "noteSave", "parse", "reject", "throwout",
   "noteThrowout", "tellReject", "queue", "tellAck", "cancel", "tellCancel",
   "tellTooLate", "requeue", "unpend", "tellReceived"}

WorkerLabels ==
  {"idle", "start", "take", "noteTake", "match", "clarify", "pend",
   "tellQuestion", "submit", "upload", "sources", "complete", "shelve",
   "noteShelve", "tellDone", "fail", "discard", "noteDiscard", "tellFailed"}


-----------------------------------------------------------------------------
Init ==
  /\ status = [j \in Jobs |-> NoRow]
  /\ op = [j \in Jobs |-> NoRow]
  /\ path = [j \in Jobs |-> "none"]
  /\ file = [j \in Jobs |-> "none"]
  /\ settled = {} /\ pending = {} /\ notices = {}
  /\ meetings = [j \in Jobs |-> 0]
  /\ uploaded = {}
  /\ batch = {}
  /\ at = [t \in Threads |-> "idle"]
  /\ on = [t \in Threads |-> CHOOSE j \in Jobs : TRUE]
  /\ read = [t \in Threads |-> NoRow]
  /\ faults = 0

Goto(t, l) == at' = [at EXCEPT ![t] = l]
Step(t) == Goto(t, Then(at[t], op[on[t]]))

\* A thread turns to job j.
Enter(t, l, j) ==
  /\ Goto(t, l)
  /\ on' = [on EXCEPT ![t] = j]

\* (Slip: the table is not consulted.  The definitions marked like this are no
\* part of the model: each is the operator after it with a plausible mistake,
\* which the properties must be able to notice.)
SelectStatusUnchecked(t) ==
  /\ at[t] \in DOMAIN SetsStatus
  /\ read[t] = NoRow
  /\ read' = [read EXCEPT ![t] = status[on[t]]]
  /\ UNCHANGED <<rows, file, backend, batch, at, on, faults>>

\* (Slip: a forbidden transition is skipped instead of raised.)
SelectStatusLenient(t) ==
  /\ at[t] \in DOMAIN SetsStatus
  /\ read[t] = NoRow
  /\ LET now == status[on[t]]
     IN  IF SetsStatus[at[t]] \in ALLOWED_TRANSITIONS(now) \cup {now}
           THEN read' = [read EXCEPT ![t] = now] /\ UNCHANGED at
           ELSE Step(t) /\ UNCHANGED read
  /\ UNCHANGED <<rows, file, backend, batch, on, faults>>

(* JobStore.set_status, first half: SELECT and check the transition.       *)
SelectStatus(t) ==
  /\ at[t] \in DOMAIN SetsStatus
  /\ read[t] = NoRow
  /\ LET now == status[on[t]]
     IN  IF SetsStatus[at[t]] \in ALLOWED_TRANSITIONS(now) \cup {now}
           THEN read' = [read EXCEPT ![t] = now] /\ UNCHANGED at
           ELSE Goto(t, Raised(at[t])) /\ UNCHANGED read
  /\ UNCHANGED <<rows, file, backend, batch, on, faults>>

(* JobStore.set_status, second half: UPDATE, whatever the status is now.   *)
UpdateStatus(t) ==
  /\ at[t] \in DOMAIN SetsStatus
  /\ read[t] # NoRow
  /\ status' = [status EXCEPT ![on[t]] = SetsStatus[at[t]]]
  /\ read' = [read EXCEPT ![t] = NoRow]
  /\ Step(t)
  /\ UNCHANGED <<op, path, settled, pending, notices, file, backend, batch, on, faults>>

(* save_incoming and move_to put the file where the table says ...         *)
MoveFile(t) ==
  /\ at[t] \in DOMAIN MovesFile
  /\ file' = [file EXCEPT ![on[t]] = MovesFile[at[t]]]
  /\ Step(t)
  /\ UNCHANGED <<rows, backend, batch, on, read, faults>>

(* ... or raise an OSError, ...                                            *)
MoveFails(t) ==
  /\ at[t] \in DOMAIN MovesFile
  /\ faults < MaxFaults
  /\ faults' = faults + 1
  /\ Goto(t, Raised(at[t]))
  /\ UNCHANGED <<rows, file, backend, batch, on, read>>

\* (Slip: the new path is not stored.)
NoteFileForgotten(t) ==
  /\ at[t] \in FileNoted
  /\ Step(t)
  /\ UNCHANGED <<rows, file, backend, batch, on, read, faults>>

(* ... and the row is told in a statement of its own.                      *)
NoteFile(t) ==
  /\ at[t] \in FileNoted
  /\ path' = [path EXCEPT ![on[t]] = file[on[t]]]
  /\ Step(t)
  /\ UNCHANGED <<status, op, settled, pending, notices, file, backend, batch, on, read, faults>>

Enqueue(t) ==
  /\ at[t] \in DOMAIN Enqueues
  /\ notices' = notices \cup {<<on[t], Enqueues[at[t]]>>}
  /\ Step(t)
  /\ UNCHANGED <<status, op, path, settled, pending, file, backend, batch, on, read, faults>>

-----------------------------------------------------------------------------
(* The mail thread, between two messages.                                  *)

(* submit_transcript.accept and assess_query.accept: create_job commits    *)
(* the new row first and everything else follows.                          *)
Accept(o) ==
  /\ at["mail"] = "idle"
  /\ o \in Requests \cap Operation
  /\ \E j \in Jobs :
       /\ status[j] = NoRow
       /\ \A k \in Jobs : k < j => status[k] # NoRow
       /\ status' = [status EXCEPT ![j] = "RECEIVED"]
       /\ op' = [op EXCEPT ![j] = o]
       /\ Enter("mail", "validate", j)
  /\ UNCHANGED <<path, settled, pending, notices, file, backend, batch, read, faults>>

(* parse_vtt reads the stored file, or rejects it.                         *)
ParseTranscript ==
  /\ at["mail"] = "parse"
  /\ \E l \in {"queue", "reject"} : Goto("mail", l)
  /\ UNCHANGED <<rows, file, backend, batch, on, read, faults>>

(* cancel.handle: the status is looked at once, before set_status is.      *)
Cancel(j) ==
  /\ at["mail"] = "idle"
  /\ "cancel" \in Requests
  /\ status[j] # NoRow
  /\ Enter("mail", IF status[j] \in {"QUEUED", "NEEDS_CLARIFICATION"}
                     THEN "cancel" ELSE "tellTooLate", j)
  /\ UNCHANGED <<rows, file, backend, batch, read, faults>>

(* Pipeline._continue_clarification with an answer that names one option:  *)
(* the hint is stored, then the job is queued again.                       *)
AnswerQuestion(j) ==
  /\ at["mail"] = "idle"
  /\ "answer" \in Requests
  /\ j \in pending
  /\ status[j] = "NEEDS_CLARIFICATION"
  /\ settled' = settled \cup {j}
  /\ Enter("mail", "requeue", j)
  /\ UNCHANGED <<status, op, path, pending, notices, file, backend, batch, read, faults>>

(* ... with any other answer: the question is mailed again.                *)
RepeatQuestion(j) ==
  /\ at["mail"] = "idle"
  /\ "answer" \in Requests
  /\ j \in pending
  /\ notices' = notices \cup {<<j, "clarification">>}
  /\ UNCHANGED <<status, op, path, settled, pending, file, backend, threads, faults>>

DeletePending ==
  /\ at["mail"] = "unpend"
  /\ pending' = pending \ {on["mail"]}
  /\ Step("mail")
  /\ UNCHANGED <<status, op, path, settled, notices, file, backend, batch, on, read, faults>>

-----------------------------------------------------------------------------
(* The worker.                                                             *)

\* (Slip: jobs found PROCESSING are taken up again.)
ListQueuedOrStarted ==
  /\ at["worker"] = "idle" /\ batch = {}
  /\ batch' = {j \in Jobs : status[j] \in {"QUEUED", "PROCESSING"}}
  /\ UNCHANGED <<rows, file, backend, at, on, read, faults>>

(* run_once: one snapshot of the queue ...                                 *)
ListQueued ==
  /\ at["worker"] = "idle" /\ batch = {}
  /\ batch' = {j \in Jobs : status[j] = "QUEUED"}
  /\ UNCHANGED <<rows, file, backend, at, on, read, faults>>

(* ... worked through in the order of created_at, unchecked.               *)
TakeJob ==
  /\ at["worker"] = "idle"
  /\ \E j \in batch :
       /\ \A k \in batch : j <= k
       /\ batch' = batch \ {j}
       /\ Enter("worker", "start", j)
  /\ UNCHANGED <<rows, file, backend, read, faults>>

\* (Slip: an unreachable backend is not caught.)
MatchGroupUncaught ==
  /\ at["worker"] = "match"
  /\ \/ Goto("worker", IF op[on["worker"]] = "assess_query" THEN "sources" ELSE "submit")
     \/ Goto("worker", "clarify")
     \/ Goto("worker", "idle")
  /\ UNCHANGED <<rows, file, backend, batch, on, read, faults>>

(* login, list_groups and match_group: the group is found, has to be asked *)
(* for, or the backend cannot be reached.  A chosen group is found again   *)
(* unless the groups have changed.                                         *)
MatchGroup ==
  /\ at["worker"] = "match"
  /\ \/ Goto("worker", IF op[on["worker"]] = "assess_query" THEN "sources" ELSE "submit")
     \/ /\ on["worker"] \notin settled \/ GroupsChange
        /\ Goto("worker", "clarify")
     \/ Goto("worker", "fail")
  /\ UNCHANGED <<rows, file, backend, batch, on, read, faults>>

PutPending ==
  /\ at["worker"] = "pend"
  /\ pending' = pending \cup {on["worker"]}
  /\ Step("worker")
  /\ UNCHANGED <<status, op, path, settled, notices, file, backend, batch, on, read, faults>>

\* (Slip: the outcome of the last attempt is not looked at.)
CreateMeetingUnchecked ==
  /\ at["worker"] = "submit"
  /\ \E n \in 0..MaxPosts :
       /\ meetings' = [meetings EXCEPT ![on["worker"]] = @ + n]
       /\ Goto("worker", "upload")
  /\ UNCHANGED <<rows, file, uploaded, batch, on, read, faults>>

(* create_meeting: the client posts until it sees an answer, so each       *)
(* attempt whose answer is lost may leave a meeting behind.                *)
CreateMeeting ==
  /\ at["worker"] = "submit"
  /\ \E n \in 0..MaxPosts :
       /\ meetings' = [meetings EXCEPT ![on["worker"]] = @ + n]
       /\ \/ n > 0 /\ Goto("worker", "upload")
          \/ Goto("worker", "fail")
  /\ UNCHANGED <<rows, file, uploaded, batch, on, read, faults>>

(* read_bytes, upload_file, resolve_aliases, add_attendee: any of them may *)
(* raise, the last two after the upload.                                   *)
UploadTranscript ==
  /\ at["worker"] = "upload"
  /\ \/ /\ file[on["worker"]] = path[on["worker"]]
        /\ uploaded' = uploaded \cup {on["worker"]}
        /\ \E l \in {"complete", "fail"} : Goto("worker", l)
     \/ Goto("worker", "fail") /\ UNCHANGED uploaded
  /\ UNCHANGED <<rows, file, meetings, batch, on, read, faults>>

(* The sources of an assess_query: one of them answered, or none did.      *)
QuerySources ==
  /\ at["worker"] = "sources"
  /\ \E l \in {"complete", "fail"} : Goto("worker", l)
  /\ UNCHANGED <<rows, file, backend, batch, on, read, faults>>

-----------------------------------------------------------------------------
(* The process dies, or is stopped before its threads are done (run() only *)
(* joins them for five seconds), and is started again.                     *)
Crash ==
  /\ faults < MaxFaults
  /\ faults' = faults + 1
  /\ at' = [t \in Threads |-> "idle"]
  /\ read' = [t \in Threads |-> NoRow]
  /\ batch' = {}
  /\ UNCHANGED <<rows, file, backend, on>>

ThreadStep(t) ==
  \/ SelectStatus(t) \/ UpdateStatus(t)
  \/ MoveFile(t) \/ NoteFile(t) \/ Enqueue(t)

MailStep == ThreadStep("mail") \/ ParseTranscript \/ DeletePending

MailRequest ==
  \/ \E o \in Operation : Accept(o)
  \/ \E j \in Jobs : Cancel(j) \/ AnswerQuestion(j) \/ RepeatQuestion(j)

WorkerStep ==
  \/ ThreadStep("worker")
  \/ ListQueued \/ TakeJob \/ MatchGroup \/ PutPending
  \/ CreateMeeting \/ UploadTranscript \/ QuerySources

Fault == Crash \/ \E t \in Threads : MoveFails(t)

Next == MailStep \/ MailRequest \/ WorkerStep \/ Fault

Spec == Init /\ [][Next]_vars

(* Both loops of run() go on until the process stops, and neither thread   *)
(* waits for the other; senders need not write, and nothing has to fail.   *)
FairSpec == Spec /\ WF_vars(MailStep) /\ WF_vars(WorkerStep)

-----------------------------------------------------------------------------
(* Properties.                                                             *)

IsTranscript(j) == op[j] = "submit_transcript"

\* Thread t is at one of the labels L, working on job j.
Busy(t, j, L) == at[t] \in L /\ on[t] = j

\* The shape of the state: the columns of jobs, the two threads, the bounds.
TypeOK ==
  /\ status \in [Jobs -> JobState \cup {NoRow}]
  /\ op \in [Jobs -> Operation \cup {NoRow}]
  /\ path \in [Jobs -> Dir] /\ file \in [Jobs -> Dir]
  /\ settled \subseteq Jobs /\ pending \subseteq Jobs /\ uploaded \subseteq Jobs
  /\ notices \subseteq Jobs \X Notice
  /\ meetings \in [Jobs -> Nat]
  /\ batch \subseteq Jobs
  /\ at \in [Threads -> MailLabels \cup WorkerLabels]
  /\ at["mail"] \in MailLabels /\ at["worker"] \in WorkerLabels
  /\ on \in [Threads -> Jobs]
  /\ read \in [Threads -> JobState \cup {NoRow}]
  /\ faults \in 0..MaxFaults

\* No transcript is submitted to the backend by two executions, however
\* cancellations, answers, failed file moves and restarts interleave:
\* whatever meetings a job left there stem from one call of create_meeting
\* and the retries inside it (submit_transcript.py:131).
SubmittedOnce == \A j \in Jobs : meetings[j] <= MaxPosts

\* A transcript job that says COMPLETED has its meeting and its file on the
\* backend (submit_transcript.py:131-158), also when another thread wrote
\* the row in between and when the process was restarted.
CompletedIsSubmitted ==
  \A j \in Jobs : status[j] = "COMPLETED" /\ IsTranscript(j) =>
                    meetings[j] > 0 /\ j \in uploaded

\* A job that can still be executed names the directory its transcript is
\* really in, although moving the file and updating the row are two steps
\* and a crash can part them: execute will open that path.
RunnableFileInPlace ==
  \A j \in Jobs : status[j] \in {"QUEUED", "NEEDS_CLARIFICATION"} /\ IsTranscript(j) =>
                    file[j] = path[j] /\ file[j] \in {"incoming", "processing"}

\* What the owner reads of the outcome is true and never contradictory,
\* whatever fails after COMPLETED is written (submit_transcript.py:158-177):
\* one told of a completion has the transcript on the backend, one told of a
\* failure has no COMPLETED job, and nobody is told both.
VerdictIsTrue ==
  \A j \in Jobs :
    /\ ~(<<j, "completion">> \in notices /\ <<j, "failure">> \in notices)
    /\ <<j, "completion">> \in notices /\ IsTranscript(j) => j \in uploaded
    /\ <<j, "failure">> \in notices => status[j] # "COMPLETED"

\* The job store keeps the promise of JobContract, through crashes, failed
\* moves and repeated POSTs: the separate SELECT and UPDATE of set_status
\* (jobs/store.py:136-157) show only where a cancellation and an execution
\* overwrite each other, and even then a job completes only when submitted.
Contract == INSTANCE JobContract WITH submitted <- {j \in Jobs : meetings[j] > 0},
                                      Cancels <- ("cancel" \in Requests)
KeepsContract == Contract!Spec

\* A job that has been queued ends in a mail that settles it: a verdict, a
\* cancellation, or a question that can still be answered, whatever the
\* backend does and whoever cancels (worker.py:80-86, submit_transcript.py:
\* 95-207).
QueuedIsAnswered ==
  \A j \in Jobs : status[j] \in {"QUEUED", "PROCESSING"} ~>
    \/ \E k \in {"completion", "failure", "cancelled"} : <<j, k>> \in notices
    \/ /\ status[j] = "NEEDS_CLARIFICATION" /\ j \in pending
       /\ <<j, "clarification">> \in notices

\* What jobs/models.py:21-23 says of set_status: no transition outside the
\* table is ever written, whichever thread writes.  (Proved of a service
\* without cancellations only: see KeepsContract.)
TableIsEnforced ==
  [][\A j \in Jobs : status'[j] # status[j] =>
       status[j] = NoRow \/ status'[j] \in ALLOWED_TRANSITIONS(status[j])]_vars

-----------------------------------------------------------------------------
(* The inductive invariant behind SubmittedOnce, CompletedIsSubmitted,     *)
(* RunnableFileInPlace and VerdictIsTrue: what each status and each label  *)
(* says of the job.                                                        *)

Filed(j) == IsTranscript(j) => file[j] = path[j] /\ file[j] \in {"incoming", "processing"}
Fresh(j) == meetings[j] = 0 /\ j \notin uploaded
Delivered(j) == IsTranscript(j) => meetings[j] > 0 /\ j \in uploaded

\* The worker does nothing with job j beyond the labels in L, nor will it.
Released(j, L) == j \notin batch /\ (on["worker"] = j => at["worker"] \in L)
Asking == {"idle", "pend", "tellQuestion"}

RowInv(j) ==
  /\ status[j] # NoRow => op[j] \in Operation
  /\ meetings[j] <= MaxPosts
  /\ status[j] \in {NoRow, "RECEIVED", "VALIDATING", "QUEUED", "NEEDS_CLARIFICATION"} => Fresh(j)
  /\ status[j] \in {NoRow, "RECEIVED", "VALIDATING"} => Released(j, {"idle"})
  /\ status[j] = "NEEDS_CLARIFICATION" => Released(j, Asking)
  /\ status[j] \in {"QUEUED", "NEEDS_CLARIFICATION"} => Filed(j)
  /\ status[j] = "QUEUED" /\ on["worker"] = j => at["worker"] \in Asking \cup {"start"}
  /\ status[j] = "COMPLETED" => Delivered(j)
  /\ j \in batch => status[j] \in {"QUEUED", "CANCELLED"} /\ Fresh(j) /\ Filed(j)
  /\ <<j, "failure">> \in notices => status[j] \in {"FAILED", "CANCELLED"} /\ Released(j, {"idle"})
  /\ <<j, "completion">> \in notices =>
       /\ status[j] \in {"COMPLETED", "CANCELLED"} /\ Released(j, {"idle"}) /\ Delivered(j)
       /\ <<j, "failure">> \notin notices

WorkerInv(j, l) ==
  /\ l # "idle" => j \notin batch
  /\ l = "start" => status[j] \in {"QUEUED", "CANCELLED"} /\ Filed(j)
  /\ l \in {"take", "noteTake", "match", "clarify", "submit", "upload", "sources", "complete"} =>
       status[j] \in {"PROCESSING", "CANCELLED"}
  /\ l \in {"start", "take", "noteTake", "match", "clarify", "submit"} => Fresh(j)
  /\ l \in {"take", "match", "clarify"} => Filed(j)
  /\ l = "noteTake" => file[j] = "processing"
  /\ l \in {"upload", "complete"} /\ IsTranscript(j) => meetings[j] > 0
  /\ l = "sources" => ~IsTranscript(j)
  /\ l \in {"submit", "upload"} => IsTranscript(j)
  /\ l \in {"complete", "shelve", "noteShelve", "tellDone"} => Delivered(j)
  /\ l \in {"shelve", "noteShelve", "tellDone"} => status[j] \in {"COMPLETED", "CANCELLED"}
  /\ l = "fail" => status[j] \in {"PROCESSING", "COMPLETED", "CANCELLED"}
  /\ l = "fail" /\ read["worker"] # NoRow => status[j] \in {"PROCESSING", "CANCELLED"}
  /\ l \in {"discard", "noteDiscard", "tellFailed"} => status[j] \in {"FAILED", "CANCELLED"}

MailInv(j, l) ==
  /\ l = "validate" => status[j] = "RECEIVED"
  /\ l \in {"save", "noteSave", "parse", "reject", "queue"} => status[j] = "VALIDATING"
  /\ l = "noteSave" => file[j] = "incoming"
  /\ l \in {"parse", "queue"} => Filed(j)
  /\ l \in {"throwout", "noteThrowout", "tellReject"} =>
       status[j] = "FAILED" /\ Released(j, {"idle"})
  /\ l = "requeue" => status[j] = "NEEDS_CLARIFICATION"
  /\ l = "cancel" => status[j] \notin {NoRow, "RECEIVED", "VALIDATING"}

\* What the rows, the worker's position and the mail thread's position say
\* of each other at any moment.
JobInv ==
  /\ \A j \in Jobs : RowInv(j)
  /\ WorkerInv(on["worker"], at["worker"])
  /\ MailInv(on["mail"], at["mail"])
  /\ \A t \in Threads : read[t] # NoRow => at[t] \in DOMAIN SetsStatus

\* What a status read by set_status is still worth when it is written back:
\* it was checked, and only a cancellation can have come in between.
RaceInv ==
  /\ \A t \in Threads : read[t] # NoRow =>
       /\ SetsStatus[at[t]] \in ALLOWED_TRANSITIONS(read[t]) \cup {read[t]}
       /\ at[t] = "cancel" \/ status[on[t]] \in {read[t], "CANCELLED"}
  /\ "cancel" \notin Requests =>
       at["mail"] # "cancel" /\ \A j \in Jobs : status[j] # "CANCELLED"
=============================================================================

------------------------- MODULE JobLifecycleProofs -------------------------
(***************************************************************************)
(* What JobLifecycle guarantees for every set of jobs, every mix of        *)
(* requests, every retry limit and any number of crashes.                  *)
(***************************************************************************)
EXTENDS JobLifecycle, GroupQuestion, TLAPS

\* The tables' domains, and what stands in them.
LEMMA Tables ==
  /\ DOMAIN SetsStatus = {"validate", "reject", "queue", "cancel", "requeue",
                          "start", "clarify", "complete", "fail"}
  /\ \A l \in DOMAIN SetsStatus : SetsStatus[l] \in JobState
  /\ DOMAIN MovesFile = {"save", "take", "shelve", "discard", "throwout"}
  /\ \A l \in DOMAIN MovesFile : MovesFile[l] \in Dir
  /\ DOMAIN Enqueues = {"tellAck", "tellReject", "tellCancel", "tellTooLate",
                        "tellReceived", "tellQuestion", "tellDone", "tellFailed"}
  /\ \A l \in DOMAIN Enqueues : Enqueues[l] \in Notice
BY DEF SetsStatus, MovesFile, Enqueues, JobState, Dir, Notice

\* A thread stays among its own labels, after a statement and after an
\* exception.
LEMMA LabelsStay ==
  /\ \A l \in MailLabels : \A o : Then(l, o) \in MailLabels
  /\ \A l \in WorkerLabels : \A o : Then(l, o) \in WorkerLabels
  /\ \A l \in MailLabels : Raised(l) \in MailLabels
  /\ \A l \in WorkerLabels : Raised(l) \in WorkerLabels
BY DEF Then, Raised, MailLabels, WorkerLabels

\* Labels of the two threads.
AtOK(a) == /\ a \in [Threads -> MailLabels \cup WorkerLabels]
           /\ a["mail"] \in MailLabels /\ a["worker"] \in WorkerLabels

\* A thread that goes to a label of its own leaves the labels well-typed ...
LEMMA GotoOK ==
  ASSUME TypeOK, NEW t \in Threads, NEW l, Goto(t, l),
         t = "mail" => l \in MailLabels, t = "worker" => l \in WorkerLabels
  PROVE  AtOK(at')
BY DEF TypeOK, Goto, Threads, AtOK

\* ... as after a statement ...
LEMMA StepOK ==
  ASSUME TypeOK, NEW t \in Threads, Step(t) PROVE AtOK(at')
<1>1. t = "mail" => Then(at[t], op[on[t]]) \in MailLabels
  BY LabelsStay DEF TypeOK
<1>2. t = "worker" => Then(at[t], op[on[t]]) \in WorkerLabels
  BY LabelsStay DEF TypeOK
<1>3. QED
  BY <1>1, <1>2, GotoOK DEF Step

\* ... and after an exception.
LEMMA RaiseOK ==
  ASSUME TypeOK, NEW t \in Threads, Goto(t, Raised(at[t])) PROVE AtOK(at')
<1>1. t = "mail" => Raised(at[t]) \in MailLabels
  BY LabelsStay DEF TypeOK
<1>2. t = "worker" => Raised(at[t]) \in WorkerLabels
  BY LabelsStay DEF TypeOK
<1>3. QED
  BY <1>1, <1>2, GotoOK

\* The initial state is well-typed.
LEMMA InitTypeOK == Init => TypeOK
<1> SUFFICES ASSUME Init PROVE TypeOK
  OBVIOUS
<1>1. (CHOOSE j \in Jobs : TRUE) \in Jobs
  BY JobsAssumption
<1>2. faults \in 0..MaxFaults
  BY BoundsAssumption DEF Init
<1>3. QED
  BY <1>1, <1>2 DEF Init, TypeOK, Threads, MailLabels, WorkerLabels, Dir

\* Every step keeps the state well-typed.
LEMMA StepTypeOK == TypeOK /\ [Next]_vars => TypeOK'
<1> SUFFICES ASSUME TypeOK, [Next]_vars PROVE TypeOK'
  OBVIOUS
<1> USE DEF rows, backend
<1>1. ASSUME NEW t \in Threads, SelectStatus(t) PROVE TypeOK'
  <2>1. AtOK(at')
    BY <1>1, RaiseOK DEF SelectStatus, TypeOK, AtOK
  <2>2. read' \in [Threads -> JobState \cup {NoRow}]
    BY <1>1 DEF SelectStatus, TypeOK
  <2>3. QED
    BY <1>1, <2>1, <2>2 DEF SelectStatus, TypeOK, AtOK
<1>2. ASSUME NEW t \in Threads, UpdateStatus(t) PROVE TypeOK'
  <2>1. AtOK(at')
    BY <1>2, StepOK DEF UpdateStatus
  <2>2. status' \in [Jobs -> JobState \cup {NoRow}]
    BY <1>2, Tables DEF UpdateStatus, TypeOK
  <2>3. QED
    BY <1>2, <2>1, <2>2 DEF UpdateStatus, TypeOK, AtOK
<1>3. ASSUME NEW t \in Threads, MoveFile(t) PROVE TypeOK'
  <2>1. AtOK(at')
    BY <1>3, StepOK DEF MoveFile
  <2>2. file' \in [Jobs -> Dir]
    BY <1>3, Tables DEF MoveFile, TypeOK
  <2>3. QED
    BY <1>3, <2>1, <2>2 DEF MoveFile, TypeOK, AtOK
<1>4. ASSUME NEW t \in Threads, NoteFile(t) PROVE TypeOK'
  <2>1. AtOK(at')
    BY <1>4, StepOK DEF NoteFile
  <2>2. QED
    BY <1>4, <2>1 DEF NoteFile, TypeOK, AtOK
<1>5. ASSUME NEW t \in Threads, Enqueue(t) PROVE TypeOK'
  <2>1. AtOK(at')
    BY <1>5, StepOK DEF Enqueue
  <2>2. notices' \subseteq Jobs \X Notice
    BY <1>5, Tables DEF Enqueue, TypeOK
  <2>3. QED
    BY <1>5, <2>1, <2>2 DEF Enqueue, TypeOK, AtOK
<1>6. ASSUME NEW t \in Threads, MoveFails(t) PROVE TypeOK'
  <2>1. AtOK(at')
    BY <1>6, RaiseOK DEF MoveFails
  <2>2. faults' \in 0..MaxFaults
    BY <1>6, BoundsAssumption DEF MoveFails, TypeOK
  <2>3. QED
    BY <1>6, <2>1, <2>2 DEF MoveFails, TypeOK, AtOK
<1>7. ASSUME NEW o \in Operation, Accept(o) PROVE TypeOK'
  BY <1>7 DEF Accept, Enter, Goto, TypeOK, Threads, MailLabels, JobState
<1>8. CASE ParseTranscript
  BY <1>8 DEF ParseTranscript, Goto, TypeOK, Threads, MailLabels
<1>9. ASSUME NEW j \in Jobs, Cancel(j) PROVE TypeOK'
  BY <1>9 DEF Cancel, Enter, Goto, TypeOK, Threads, MailLabels
<1>10. ASSUME NEW j \in Jobs, AnswerQuestion(j) PROVE TypeOK'
  BY <1>10 DEF AnswerQuestion, Enter, Goto, TypeOK, Threads, MailLabels
<1>11. ASSUME NEW j \in Jobs, RepeatQuestion(j) PROVE TypeOK'
  BY <1>11 DEF RepeatQuestion, TypeOK, threads, Notice
<1>12. CASE DeletePending
  <2>1. AtOK(at')
    BY <1>12, StepOK DEF DeletePending, Threads
  <2>2. QED
    BY <1>12, <2>1 DEF DeletePending, TypeOK, AtOK
<1>13. CASE ListQueued
  BY <1>13 DEF ListQueued, TypeOK
<1>14. CASE TakeJob
  BY <1>14 DEF TakeJob, Enter, Goto, TypeOK, Threads, WorkerLabels
<1>15. CASE MatchGroup
  BY <1>15 DEF MatchGroup, Goto, TypeOK, Threads, WorkerLabels
<1>16. CASE PutPending
  <2>1. AtOK(at')
    BY <1>16, StepOK DEF PutPending, Threads
  <2>2. QED
    BY <1>16, <2>1 DEF PutPending, TypeOK, AtOK, Threads
<1>17. CASE CreateMeeting
  <2>1. on["worker"] \in Jobs
    BY DEF TypeOK, Threads
  <2>2. meetings' \in [Jobs -> Nat]
    BY <1>17, <2>1, BoundsAssumption DEF CreateMeeting, TypeOK
  <2>3. QED
    BY <1>17, <2>2 DEF CreateMeeting, Goto, TypeOK, Threads, WorkerLabels
<1>18. CASE UploadTranscript
  BY <1>18 DEF UploadTranscript, Goto, TypeOK, Threads, WorkerLabels
<1>19. CASE QuerySources
  BY <1>19 DEF QuerySources, Goto, TypeOK, Threads, WorkerLabels
<1>20. CASE Crash
  <2>1. faults' \in 0..MaxFaults
    BY <1>20, BoundsAssumption DEF Crash, TypeOK
  <2>2. QED
    BY <1>20, <2>1 DEF Crash, TypeOK, Threads, MailLabels, WorkerLabels
<1>21. CASE UNCHANGED vars
  BY <1>21 DEF vars, threads, TypeOK
<1>22. QED
  BY <1>1, <1>2, <1>3, <1>4, <1>5, <1>6, <1>7, <1>8, <1>9, <1>10, <1>11, <1>12,
     <1>13, <1>14, <1>15, <1>16, <1>17, <1>18, <1>19, <1>20, <1>21
     DEF Next, MailStep, MailRequest, WorkerStep, Fault, ThreadStep, Threads

\* The rows, the positions of the threads and the bounds keep their shape,
\* for any number of jobs and any number of crashes (jobs/store.py, worker.py).
THEOREM TypeCorrect == Spec => []TypeOK
BY InitTypeOK, StepTypeOK, PTL DEF Spec

\* accept: the new job is fresh and no thread but this one knows it.
LEMMA AcceptInv == ASSUME TypeOK, JobInv, NEW o \in Operation, Accept(o) PROVE JobInv'
<1> USE DEF rows, backend, threads
<1>0. PICK j \in Jobs : /\ status[j] = NoRow
                        /\ status' = [status EXCEPT ![j] = "RECEIVED"]
                        /\ op' = [op EXCEPT ![j] = o]
                        /\ Enter("mail", "validate", j)
  BY DEF Accept
<1>a. /\ \A i \in Jobs \ {j} : status'[i] = status[i] /\ op'[i] = op[i]
      /\ status'[j] = "RECEIVED" /\ op'[j] \in Operation
      /\ at'["worker"] = at["worker"] /\ on'["worker"] = on["worker"]
      /\ at'["mail"] = "validate" /\ on'["mail"] = j
      /\ on["worker"] \in Jobs
      /\ UNCHANGED <<path, settled, pending, notices, file, backend, batch, read, faults>>
  BY <1>0 DEF Accept, Enter, Goto, TypeOK, Threads
<1>b. on["worker"] = j => at["worker"] \in Asking
  BY <1>0 DEF JobInv, RowInv, Released, Asking
<1>1. ASSUME NEW i \in Jobs PROVE RowInv(i)'
  <2>1. CASE i = j
    BY <2>1, <1>0, <1>a DEF JobInv, RowInv, Fresh, Filed, Delivered, Released, NoRow, Asking
  <2>2. CASE i # j
    BY <2>2, <1>a DEF JobInv, RowInv, Fresh, Filed, Delivered, Released, IsTranscript
  <2>3. QED
    BY <2>1, <2>2
<1>2. WorkerInv(on["worker"], at["worker"])'
  <2>1. CASE on["worker"] = j
    BY <2>1, <1>0, <1>a, <1>b DEF JobInv, RowInv, WorkerInv, Asking, Released, NoRow
  <2>2. CASE on["worker"] # j
    BY <2>2, <1>a DEF JobInv, WorkerInv, Fresh, Filed, Delivered, IsTranscript
  <2>3. QED
    BY <2>1, <2>2
<1>3. MailInv(on["mail"], at["mail"])'
  BY <1>a DEF MailInv
<1>4. (\A t \in Threads : read[t] # NoRow => at[t] \in DOMAIN SetsStatus)'
  BY Tables, <1>a DEF JobInv, Threads
<1>5. QED
  BY <1>1, <1>2, <1>3, <1>4 DEF JobInv

\* parse_vtt only decides where the mail thread goes.
LEMMA ParseTranscriptInv == ASSUME TypeOK, JobInv, ParseTranscript PROVE JobInv'
<1> USE DEF rows, backend, threads, TypeOK, RowInv, WorkerInv, MailInv, Fresh, Filed,
           Delivered, Released, Asking, IsTranscript, Goto, Enter, Threads,
           ParseTranscript
<1>1. ASSUME NEW i \in Jobs PROVE RowInv(i)'
  BY <1>1 DEF JobInv
<1>2. WorkerInv(on["worker"], at["worker"])'
  BY DEF JobInv
<1>3. MailInv(on["mail"], at["mail"])'
  BY DEF JobInv
<1>4. (\A t \in Threads : read[t] # NoRow => at[t] \in DOMAIN SetsStatus)'
  BY Tables DEF JobInv
<1>5. QED
  BY <1>1, <1>2, <1>3, <1>4 DEF JobInv

\* cancel.handle only looks.
LEMMA CancelInv == ASSUME TypeOK, JobInv, NEW j \in Jobs, Cancel(j) PROVE JobInv'
<1> USE DEF rows, backend, threads, TypeOK, RowInv, WorkerInv, MailInv, Fresh, Filed,
           Delivered, Released, Asking, IsTranscript, Goto, Enter, Threads,
           Cancel
<1>1. ASSUME NEW i \in Jobs PROVE RowInv(i)'
  BY <1>1 DEF JobInv
<1>2. WorkerInv(on["worker"], at["worker"])'
  BY DEF JobInv
<1>3. MailInv(on["mail"], at["mail"])'
  BY DEF JobInv
<1>4. (\A t \in Threads : read[t] # NoRow => at[t] \in DOMAIN SetsStatus)'
  BY Tables DEF JobInv
<1>5. QED
  BY <1>1, <1>2, <1>3, <1>4 DEF JobInv

\* _continue_clarification goes on to requeue a job that waits.
LEMMA AnswerQuestionInv == ASSUME TypeOK, JobInv, NEW j \in Jobs, AnswerQuestion(j) PROVE JobInv'
<1> USE DEF rows, backend, threads, TypeOK, RowInv, WorkerInv, MailInv, Fresh, Filed,
           Delivered, Released, Asking, IsTranscript, Goto, Enter, Threads,
           AnswerQuestion
<1>1. ASSUME NEW i \in Jobs PROVE RowInv(i)'
  BY <1>1 DEF JobInv
<1>2. WorkerInv(on["worker"], at["worker"])'
  BY DEF JobInv
<1>3. MailInv(on["mail"], at["mail"])'
  BY DEF JobInv
<1>4. (\A t \in Threads : read[t] # NoRow => at[t] \in DOMAIN SetsStatus)'
  BY Tables DEF JobInv
<1>5. QED
  BY <1>1, <1>2, <1>3, <1>4 DEF JobInv

\* A repeated question is one more mail.
LEMMA RepeatQuestionInv == ASSUME TypeOK, JobInv, NEW j \in Jobs, RepeatQuestion(j) PROVE JobInv'
<1> USE DEF rows, backend, threads, TypeOK, RowInv, WorkerInv, MailInv, Fresh, Filed,
           Delivered, Released, Asking, IsTranscript, Goto, Enter, Threads,
           RepeatQuestion
<1>1. ASSUME NEW i \in Jobs PROVE RowInv(i)'
  BY <1>1 DEF JobInv
<1>2. WorkerInv(on["worker"], at["worker"])'
  BY DEF JobInv
<1>3. MailInv(on["mail"], at["mail"])'
  BY DEF JobInv
<1>4. (\A t \in Threads : read[t] # NoRow => at[t] \in DOMAIN SetsStatus)'
  BY Tables DEF JobInv
<1>5. QED
  BY <1>1, <1>2, <1>3, <1>4 DEF JobInv

\* PendingClarificationStore.delete.
LEMMA DeletePendingInv == ASSUME TypeOK, JobInv, DeletePending PROVE JobInv'
<1> USE DEF rows, backend, threads, TypeOK, RowInv, WorkerInv, MailInv, Fresh, Filed,
           Delivered, Released, Asking, IsTranscript, Goto, Enter, Threads,
           DeletePending, Step, Then
<1>1. ASSUME NEW i \in Jobs PROVE RowInv(i)'
  BY <1>1 DEF JobInv
<1>2. WorkerInv(on["worker"], at["worker"])'
  BY DEF JobInv
<1>3. MailInv(on["mail"], at["mail"])'
  BY DEF JobInv
<1>4. (\A t \in Threads : read[t] # NoRow => at[t] \in DOMAIN SetsStatus)'
  BY Tables DEF JobInv
<1>5. QED
  BY <1>1, <1>2, <1>3, <1>4 DEF JobInv

\* list_queued: every job in the snapshot is QUEUED, so fresh and filed.
LEMMA ListQueuedInv == ASSUME TypeOK, JobInv, ListQueued PROVE JobInv'
<1> USE DEF rows, backend, threads, TypeOK, RowInv, WorkerInv, MailInv, Fresh, Filed,
           Delivered, Released, Asking, IsTranscript, Goto, Enter, Threads,
           ListQueued, NoRow
<1>1. ASSUME NEW i \in Jobs PROVE RowInv(i)'
  <2>1. i \in batch' <=> status[i] = "QUEUED"
    BY <1>1
  <2>2. UNCHANGED <<status, op, path, notices, file, meetings, uploaded, at, on>> /\ at["worker"] = "idle"
    OBVIOUS
  <2>3. RowInv(i)
    BY DEF JobInv
  <2>4. QED
    BY <2>1, <2>2, <2>3
<1>2. WorkerInv(on["worker"], at["worker"])'
  BY DEF JobInv
<1>3. MailInv(on["mail"], at["mail"])'
  BY DEF JobInv
<1>4. (\A t \in Threads : read[t] # NoRow => at[t] \in DOMAIN SetsStatus)'
  BY Tables DEF JobInv
<1>5. QED
  BY <1>1, <1>2, <1>3, <1>4 DEF JobInv

\* The worker leaves the snapshot with a job that was QUEUED.
LEMMA TakeJobInv == ASSUME TypeOK, JobInv, TakeJob PROVE JobInv'
<1> USE DEF rows, backend, threads, TypeOK, RowInv, WorkerInv, MailInv, Fresh, Filed,
           Delivered, Released, Asking, IsTranscript, Goto, Enter, Threads,
           TakeJob
<1>1. ASSUME NEW i \in Jobs PROVE RowInv(i)'
  BY <1>1 DEF JobInv
<1>2. WorkerInv(on["worker"], at["worker"])'
  BY DEF JobInv
<1>3. MailInv(on["mail"], at["mail"])'
  BY DEF JobInv
<1>4. (\A t \in Threads : read[t] # NoRow => at[t] \in DOMAIN SetsStatus)'
  BY Tables DEF JobInv
<1>5. QED
  BY <1>1, <1>2, <1>3, <1>4 DEF JobInv

\* match_group: no status changes; a transcript goes on to be submitted.
LEMMA MatchGroupInv == ASSUME TypeOK, JobInv, MatchGroup PROVE JobInv'
<1> USE DEF rows, backend, threads, TypeOK, RowInv, WorkerInv, MailInv, Fresh, Filed,
           Delivered, Released, Asking, IsTranscript, Goto, Enter, Threads,
           MatchGroup
<1>1. ASSUME NEW i \in Jobs PROVE RowInv(i)'
  BY <1>1 DEF JobInv
<1>2. WorkerInv(on["worker"], at["worker"])'
  <2>1. /\ WorkerInv(on["worker"], "match") /\ on["worker"] \in Jobs
        /\ op[on["worker"]] \in {"submit_transcript", "assess_query"}
        /\ read["worker"] = NoRow
    BY Tables DEF JobInv, NoRow, Operation
  <2>2. at'["worker"] \in {"sources", "submit", "clarify", "fail"}
    OBVIOUS
  <2>3. at'["worker"] = "sources" => op[on["worker"]] = "assess_query"
    OBVIOUS
  <2>4. at'["worker"] = "submit" => op[on["worker"]] = "submit_transcript"
    BY <2>1
  <2>5. QED
    BY <2>1, <2>2, <2>3, <2>4
<1>3. MailInv(on["mail"], at["mail"])'
  BY DEF JobInv
<1>4. (\A t \in Threads : read[t] # NoRow => at[t] \in DOMAIN SetsStatus)'
  BY Tables DEF JobInv
<1>5. QED
  BY <1>1, <1>2, <1>3, <1>4 DEF JobInv

\* PendingClarificationStore.put.
LEMMA PutPendingInv == ASSUME TypeOK, JobInv, PutPending PROVE JobInv'
<1> USE DEF rows, backend, threads, TypeOK, RowInv, WorkerInv, MailInv, Fresh, Filed,
           Delivered, Released, Asking, IsTranscript, Goto, Enter, Threads,
           PutPending, Step, Then
<1>1. ASSUME NEW i \in Jobs PROVE RowInv(i)'
  BY <1>1 DEF JobInv
<1>2. WorkerInv(on["worker"], at["worker"])'
  BY DEF JobInv
<1>3. MailInv(on["mail"], at["mail"])'
  BY DEF JobInv
<1>4. (\A t \in Threads : read[t] # NoRow => at[t] \in DOMAIN SetsStatus)'
  BY Tables DEF JobInv
<1>5. QED
  BY <1>1, <1>2, <1>3, <1>4 DEF JobInv

\* create_meeting is reached with no meeting on the backend.
LEMMA CreateMeetingInv == ASSUME TypeOK, JobInv, CreateMeeting PROVE JobInv'
<1> USE DEF rows, backend, threads, TypeOK, RowInv, WorkerInv, MailInv, Fresh, Filed,
           Delivered, Released, Asking, IsTranscript, Goto, Enter, Threads,
           CreateMeeting
<1>1. ASSUME NEW i \in Jobs PROVE RowInv(i)'
  BY <1>1, BoundsAssumption DEF JobInv
<1>2. WorkerInv(on["worker"], at["worker"])'
  BY BoundsAssumption DEF JobInv
<1>3. MailInv(on["mail"], at["mail"])'
  BY BoundsAssumption DEF JobInv
<1>4. (\A t \in Threads : read[t] # NoRow => at[t] \in DOMAIN SetsStatus)'
  BY Tables DEF JobInv
<1>5. QED
  BY <1>1, <1>2, <1>3, <1>4 DEF JobInv

\* upload_file: only what was uploaded goes on to COMPLETED.
LEMMA UploadTranscriptInv == ASSUME TypeOK, JobInv, UploadTranscript PROVE JobInv'
<1> USE DEF rows, backend, threads, TypeOK, RowInv, WorkerInv, MailInv, Fresh, Filed,
           Delivered, Released, Asking, IsTranscript, Goto, Enter, Threads,
           UploadTranscript
<1>1. ASSUME NEW i \in Jobs PROVE RowInv(i)'
  BY <1>1 DEF JobInv
<1>2. WorkerInv(on["worker"], at["worker"])'
  BY DEF JobInv
<1>3. MailInv(on["mail"], at["mail"])'
  BY DEF JobInv
<1>4. (\A t \in Threads : read[t] # NoRow => at[t] \in DOMAIN SetsStatus)'
  BY Tables DEF JobInv
<1>5. QED
  BY <1>1, <1>2, <1>3, <1>4 DEF JobInv

\* The sources of a question.
LEMMA QuerySourcesInv == ASSUME TypeOK, JobInv, QuerySources PROVE JobInv'
<1> USE DEF rows, backend, threads, TypeOK, RowInv, WorkerInv, MailInv, Fresh, Filed,
           Delivered, Released, Asking, IsTranscript, Goto, Enter, Threads,
           QuerySources
<1>1. ASSUME NEW i \in Jobs PROVE RowInv(i)'
  BY <1>1 DEF JobInv
<1>2. WorkerInv(on["worker"], at["worker"])'
  BY DEF JobInv
<1>3. MailInv(on["mail"], at["mail"])'
  BY DEF JobInv
<1>4. (\A t \in Threads : read[t] # NoRow => at[t] \in DOMAIN SetsStatus)'
  BY Tables DEF JobInv
<1>5. QED
  BY <1>1, <1>2, <1>3, <1>4 DEF JobInv

\* A restart forgets the threads, and the rows do not depend on them.
LEMMA CrashInv == ASSUME TypeOK, JobInv, Crash PROVE JobInv'
<1> USE DEF rows, backend, threads, TypeOK, RowInv, WorkerInv, MailInv, Fresh, Filed,
           Delivered, Released, Asking, IsTranscript, Goto, Enter, Threads,
           Crash
<1>1. ASSUME NEW i \in Jobs PROVE RowInv(i)'
  BY <1>1 DEF JobInv
<1>2. WorkerInv(on["worker"], at["worker"])'
  BY DEF JobInv
<1>3. MailInv(on["mail"], at["mail"])'
  BY DEF JobInv
<1>4. (\A t \in Threads : read[t] # NoRow => at[t] \in DOMAIN SetsStatus)'
  BY Tables DEF JobInv
<1>5. QED
  BY <1>1, <1>2, <1>3, <1>4 DEF JobInv

\* Nothing happens.
LEMMA StutterInv == ASSUME TypeOK, JobInv, UNCHANGED vars PROVE JobInv'
<1> USE DEF rows, backend, threads, TypeOK, RowInv, WorkerInv, MailInv, Fresh, Filed,
           Delivered, Released, Asking, IsTranscript, Goto, Enter, Threads,
           vars
<1>1. ASSUME NEW i \in Jobs PROVE RowInv(i)'
  BY <1>1 DEF JobInv
<1>2. WorkerInv(on["worker"], at["worker"])'
  BY DEF JobInv
<1>3. MailInv(on["mail"], at["mail"])'
  BY DEF JobInv
<1>4. (\A t \in Threads : read[t] # NoRow => at[t] \in DOMAIN SetsStatus)'
  BY Tables DEF JobInv
<1>5. QED
  BY <1>1, <1>2, <1>3, <1>4 DEF JobInv
\* The mail thread selects a status.
LEMMA MailSelectStatusInv == ASSUME TypeOK, JobInv, SelectStatus("mail") PROVE JobInv'
<1> USE DEF rows, backend, threads, TypeOK, RowInv, WorkerInv, MailInv, Fresh, Filed,
           Delivered, Released, Asking, IsTranscript, Goto, Enter, Threads,
           SelectStatus, SetsStatus, ALLOWED_TRANSITIONS, MailLabels, WorkerLabels, JobState, Step, Then, NoRow, Raised
<1>1. ASSUME NEW i \in Jobs PROVE RowInv(i)'
  BY <1>1 DEF JobInv
<1>2. WorkerInv(on["worker"], at["worker"])'
  BY DEF JobInv
<1>3. MailInv(on["mail"], at["mail"])'
  BY DEF JobInv
<1>4. (\A t \in Threads : read[t] # NoRow => at[t] \in DOMAIN SetsStatus)'
  BY Tables DEF JobInv
<1>5. QED
  BY <1>1, <1>2, <1>3, <1>4 DEF JobInv

\* The mail thread updates a status, whatever it is by now.
LEMMA MailUpdateStatusInv == ASSUME TypeOK, JobInv, UpdateStatus("mail") PROVE JobInv'
<1> USE DEF rows, backend, threads, TypeOK, RowInv, WorkerInv, MailInv, Fresh, Filed,
           Delivered, Released, Asking, IsTranscript, Goto, Enter, Threads,
           UpdateStatus, SetsStatus, MailLabels, WorkerLabels, Step, Then, NoRow, Raised
<1>1. ASSUME NEW i \in Jobs PROVE RowInv(i)'
  BY <1>1 DEF JobInv
<1>2. WorkerInv(on["worker"], at["worker"])'
  BY DEF JobInv
<1>3. MailInv(on["mail"], at["mail"])'
  <2>1. RowInv(on["mail"]) /\ MailInv(on["mail"], at["mail"]) /\ on["mail"] \in Jobs
    BY DEF JobInv
  <2>2. CASE at["mail"] = "reject"
    BY <2>1, <2>2
  <2>3. CASE at["mail"] # "reject"
    BY <2>1, <2>3
  <2>4. QED
    BY <2>2, <2>3
<1>4. (\A t \in Threads : read[t] # NoRow => at[t] \in DOMAIN SetsStatus)'
  BY Tables DEF JobInv
<1>5. QED
  BY <1>1, <1>2, <1>3, <1>4 DEF JobInv

\* The mail thread moves a file.
LEMMA MailMoveFileInv == ASSUME TypeOK, JobInv, MoveFile("mail") PROVE JobInv'
<1> USE DEF rows, backend, threads, TypeOK, RowInv, WorkerInv, MailInv, Fresh, Filed,
           Delivered, Released, Asking, IsTranscript, Goto, Enter, Threads,
           MoveFile, MovesFile, MailLabels, WorkerLabels, Step, Then, NoRow, Raised
<1>1. ASSUME NEW i \in Jobs PROVE RowInv(i)'
  BY <1>1 DEF JobInv
<1>2. WorkerInv(on["worker"], at["worker"])'
  BY DEF JobInv
<1>3. MailInv(on["mail"], at["mail"])'
  BY DEF JobInv
<1>4. (\A t \in Threads : read[t] # NoRow => at[t] \in DOMAIN SetsStatus)'
  BY Tables DEF JobInv
<1>5. QED
  BY <1>1, <1>2, <1>3, <1>4 DEF JobInv

\* The mail thread fails to move a file.
LEMMA MailMoveFailsInv == ASSUME TypeOK, JobInv, MoveFails("mail") PROVE JobInv'
<1> USE DEF rows, backend, threads, TypeOK, RowInv, WorkerInv, MailInv, Fresh, Filed,
           Delivered, Released, Asking, IsTranscript, Goto, Enter, Threads,
           MoveFails, MovesFile, MailLabels, WorkerLabels, Step, Then, NoRow, Raised
<1>1. ASSUME NEW i \in Jobs PROVE RowInv(i)'
  BY <1>1 DEF JobInv
<1>2. WorkerInv(on["worker"], at["worker"])'
  BY DEF JobInv
<1>3. MailInv(on["mail"], at["mail"])'
  BY DEF JobInv
<1>4. (\A t \in Threads : read[t] # NoRow => at[t] \in DOMAIN SetsStatus)'
  BY Tables DEF JobInv
<1>5. QED
  BY <1>1, <1>2, <1>3, <1>4 DEF JobInv

\* The mail thread stores the path of a file.
LEMMA MailNoteFileInv == ASSUME TypeOK, JobInv, NoteFile("mail") PROVE JobInv'
<1> USE DEF rows, backend, threads, TypeOK, RowInv, WorkerInv, MailInv, Fresh, Filed,
           Delivered, Released, Asking, IsTranscript, Goto, Enter, Threads,
           NoteFile, FileNoted, MailLabels, WorkerLabels, Step, Then, NoRow, Raised
<1>1. ASSUME NEW i \in Jobs PROVE RowInv(i)'
  BY <1>1 DEF JobInv
<1>2. WorkerInv(on["worker"], at["worker"])'
  BY DEF JobInv
<1>3. MailInv(on["mail"], at["mail"])'
  BY DEF JobInv
<1>4. (\A t \in Threads : read[t] # NoRow => at[t] \in DOMAIN SetsStatus)'
  BY Tables DEF JobInv
<1>5. QED
  BY <1>1, <1>2, <1>3, <1>4 DEF JobInv

\* The mail thread queues a mail.
LEMMA MailEnqueueInv == ASSUME TypeOK, JobInv, Enqueue("mail") PROVE JobInv'
<1> USE DEF rows, backend, threads, TypeOK, RowInv, WorkerInv, MailInv, Fresh, Filed,
           Delivered, Released, Asking, IsTranscript, Goto, Enter, Threads,
           Enqueue, Enqueues, MailLabels, WorkerLabels, Step, Then, NoRow, Raised
<1>1. ASSUME NEW i \in Jobs PROVE RowInv(i)'
  BY <1>1 DEF JobInv
<1>2. WorkerInv(on["worker"], at["worker"])'
  BY DEF JobInv
<1>3. MailInv(on["mail"], at["mail"])'
  BY DEF JobInv
<1>4. (\A t \in Threads : read[t] # NoRow => at[t] \in DOMAIN SetsStatus)'
  BY Tables DEF JobInv
<1>5. QED
  BY <1>1, <1>2, <1>3, <1>4 DEF JobInv

\* The worker selects a status.
LEMMA WorkerSelectStatusInv == ASSUME TypeOK, JobInv, SelectStatus("worker") PROVE JobInv'
<1> USE DEF rows, backend, threads, TypeOK, RowInv, WorkerInv, MailInv, Fresh, Filed,
           Delivered, Released, Asking, IsTranscript, Goto, Enter, Threads,
           SelectStatus, SetsStatus, ALLOWED_TRANSITIONS, MailLabels, WorkerLabels, JobState, Step, Then, NoRow, Raised
<1>1. ASSUME NEW i \in Jobs PROVE RowInv(i)'
  BY <1>1 DEF JobInv
<1>2. WorkerInv(on["worker"], at["worker"])'
  BY DEF JobInv
<1>3. MailInv(on["mail"], at["mail"])'
  BY DEF JobInv
<1>4. (\A t \in Threads : read[t] # NoRow => at[t] \in DOMAIN SetsStatus)'
  BY Tables DEF JobInv
<1>5. QED
  BY <1>1, <1>2, <1>3, <1>4 DEF JobInv

\* The worker updates a status, whatever it is by now.
LEMMA WorkerUpdateStatusInv == ASSUME TypeOK, JobInv, UpdateStatus("worker") PROVE JobInv'
<1> USE DEF rows, backend, threads, TypeOK, RowInv, WorkerInv, MailInv, Fresh, Filed,
           Delivered, Released, Asking, IsTranscript, Goto, Enter, Threads,
           UpdateStatus, SetsStatus, MailLabels, WorkerLabels, Step, Then, NoRow, Raised
<1>1. ASSUME NEW i \in Jobs PROVE RowInv(i)'
  BY <1>1 DEF JobInv
<1>2. WorkerInv(on["worker"], at["worker"])'
  <2>0. RowInv(on["worker"]) /\ WorkerInv(on["worker"], at["worker"]) /\ on["worker"] \in Jobs
    BY DEF JobInv
  <2>1. CASE at["worker"] = "start"
    BY <2>0, <2>1
  <2>2. CASE at["worker"] = "clarify"
    BY <2>0, <2>2
  <2>3. CASE at["worker"] = "complete"
    BY <2>0, <2>3
  <2>4. CASE at["worker"] = "fail"
    BY <2>0, <2>4
  <2>5. QED
    BY <2>1, <2>2, <2>3, <2>4, Tables
<1>3. MailInv(on["mail"], at["mail"])'
  BY DEF JobInv
<1>4. (\A t \in Threads : read[t] # NoRow => at[t] \in DOMAIN SetsStatus)'
  BY Tables DEF JobInv
<1>5. QED
  BY <1>1, <1>2, <1>3, <1>4 DEF JobInv

\* The worker moves a file.
LEMMA WorkerMoveFileInv == ASSUME TypeOK, JobInv, MoveFile("worker") PROVE JobInv'
<1> USE DEF rows, backend, threads, TypeOK, RowInv, WorkerInv, MailInv, Fresh, Filed,
           Delivered, Released, Asking, IsTranscript, Goto, Enter, Threads,
           MoveFile, MovesFile, MailLabels, WorkerLabels, Step, Then, NoRow, Raised
<1>1. ASSUME NEW i \in Jobs PROVE RowInv(i)'
  BY <1>1 DEF JobInv
<1>2. WorkerInv(on["worker"], at["worker"])'
  <2>0. RowInv(on["worker"]) /\ WorkerInv(on["worker"], at["worker"]) /\ on["worker"] \in Jobs
    BY DEF JobInv
  <2>1. CASE at["worker"] = "take"
    BY <2>0, <2>1
  <2>2. CASE at["worker"] = "shelve"
    BY <2>0, <2>2
  <2>3. CASE at["worker"] = "discard"
    BY <2>0, <2>3
  <2>4. QED
    BY <2>1, <2>2, <2>3, Tables
<1>3. MailInv(on["mail"], at["mail"])'
  BY DEF JobInv
<1>4. (\A t \in Threads : read[t] # NoRow => at[t] \in DOMAIN SetsStatus)'
  BY Tables DEF JobInv
<1>5. QED
  BY <1>1, <1>2, <1>3, <1>4 DEF JobInv

\* The worker fails to move a file.
LEMMA WorkerMoveFailsInv == ASSUME TypeOK, JobInv, MoveFails("worker") PROVE JobInv'
<1> USE DEF rows, backend, threads, TypeOK, RowInv, WorkerInv, MailInv, Fresh, Filed,
           Delivered, Released, Asking, IsTranscript, Goto, Enter, Threads,
           MoveFails, MovesFile, MailLabels, WorkerLabels, Step, Then, NoRow, Raised
<1>1. ASSUME NEW i \in Jobs PROVE RowInv(i)'
  BY <1>1 DEF JobInv
<1>2. WorkerInv(on["worker"], at["worker"])'
  <2>0. /\ RowInv(on["worker"]) /\ WorkerInv(on["worker"], at["worker"]) /\ on["worker"] \in Jobs
        /\ at["worker"] \notin DOMAIN SetsStatus => read["worker"] = NoRow
    BY DEF JobInv
  <2>1. CASE at["worker"] = "take"
    BY <2>0, <2>1
  <2>2. CASE at["worker"] = "shelve"
    BY <2>0, <2>2, Tables
  <2>3. CASE at["worker"] = "discard"
    BY <2>0, <2>3
  <2>4. QED
    BY <2>1, <2>2, <2>3, Tables
<1>3. MailInv(on["mail"], at["mail"])'
  BY DEF JobInv
<1>4. (\A t \in Threads : read[t] # NoRow => at[t] \in DOMAIN SetsStatus)'
  BY Tables DEF JobInv
<1>5. QED
  BY <1>1, <1>2, <1>3, <1>4 DEF JobInv

\* The worker stores the path of a file.
LEMMA WorkerNoteFileInv == ASSUME TypeOK, JobInv, NoteFile("worker") PROVE JobInv'
<1> USE DEF rows, backend, threads, TypeOK, RowInv, WorkerInv, MailInv, Fresh, Filed,
           Delivered, Released, Asking, IsTranscript, Goto, Enter, Threads,
           NoteFile, FileNoted, MailLabels, WorkerLabels, Step, Then, NoRow, Raised
<1>1. ASSUME NEW i \in Jobs PROVE RowInv(i)'
  BY <1>1 DEF JobInv
<1>2. WorkerInv(on["worker"], at["worker"])'
  <2>0. RowInv(on["worker"]) /\ WorkerInv(on["worker"], at["worker"]) /\ on["worker"] \in Jobs
    BY DEF JobInv
  <2>1. CASE at["worker"] = "noteTake"
    BY <2>0, <2>1
  <2>2. CASE at["worker"] = "noteShelve"
    BY <2>0, <2>2
  <2>3. CASE at["worker"] = "noteDiscard"
    BY <2>0, <2>3
  <2>4. QED
    BY <2>1, <2>2, <2>3
<1>3. MailInv(on["mail"], at["mail"])'
  BY DEF JobInv
<1>4. (\A t \in Threads : read[t] # NoRow => at[t] \in DOMAIN SetsStatus)'
  BY Tables DEF JobInv
<1>5. QED
  BY <1>1, <1>2, <1>3, <1>4 DEF JobInv

\* The worker queues a mail.
LEMMA WorkerEnqueueInv == ASSUME TypeOK, JobInv, Enqueue("worker") PROVE JobInv'
<1> USE DEF rows, backend, threads, TypeOK, RowInv, WorkerInv, MailInv, Fresh, Filed,
           Delivered, Released, Asking, IsTranscript, Goto, Enter, Threads,
           Enqueue, Enqueues, MailLabels, WorkerLabels, Step, Then, NoRow, Raised
<1>1. ASSUME NEW i \in Jobs PROVE RowInv(i)'
  BY <1>1 DEF JobInv
<1>2. WorkerInv(on["worker"], at["worker"])'
  <2>0. RowInv(on["worker"]) /\ WorkerInv(on["worker"], at["worker"]) /\ on["worker"] \in Jobs
    BY DEF JobInv
  <2>1. CASE at["worker"] = "tellQuestion"
    BY <2>0, <2>1
  <2>2. CASE at["worker"] = "tellDone"
    BY <2>0, <2>2
  <2>3. CASE at["worker"] = "tellFailed"
    BY <2>0, <2>3
  <2>4. QED
    BY <2>1, <2>2, <2>3, Tables
<1>3. MailInv(on["mail"], at["mail"])'
  BY DEF JobInv
<1>4. (\A t \in Threads : read[t] # NoRow => at[t] \in DOMAIN SetsStatus)'
  BY Tables DEF JobInv
<1>5. QED
  BY <1>1, <1>2, <1>3, <1>4 DEF JobInv

\* Nothing is allocated and both threads are idle.
LEMMA InitInv == Init => JobInv
<1> SUFFICES ASSUME Init PROVE JobInv
  OBVIOUS
<1>1. MaxPosts \in Nat
  BY BoundsAssumption
<1>2. ASSUME NEW j \in Jobs PROVE RowInv(j)
  BY <1>1, <1>2 DEF Init, RowInv, Fresh, Filed, Released, Asking, Threads, NoRow
<1>3. WorkerInv(on["worker"], at["worker"]) /\ MailInv(on["mail"], at["mail"])
  BY DEF Init, WorkerInv, MailInv, Threads
<1>4. QED
  BY <1>2, <1>3 DEF Init, JobInv

\* Every step keeps rows and threads in agreement.
LEMMA StepInv == TypeOK /\ JobInv /\ [Next]_vars => JobInv'
<1> SUFFICES ASSUME TypeOK, JobInv, [Next]_vars PROVE JobInv'
  OBVIOUS
<1>1. CASE MailStep
  BY <1>1, MailSelectStatusInv, MailUpdateStatusInv, MailMoveFileInv, MailNoteFileInv,
     MailEnqueueInv, ParseTranscriptInv, DeletePendingInv DEF MailStep, ThreadStep
<1>2. CASE MailRequest
  BY <1>2, AcceptInv, CancelInv, AnswerQuestionInv, RepeatQuestionInv DEF MailRequest
<1>3. CASE WorkerStep
  BY <1>3, WorkerSelectStatusInv, WorkerUpdateStatusInv, WorkerMoveFileInv, WorkerNoteFileInv,
     WorkerEnqueueInv, ListQueuedInv, TakeJobInv, MatchGroupInv, PutPendingInv,
     CreateMeetingInv, UploadTranscriptInv, QuerySourcesInv DEF WorkerStep, ThreadStep
<1>4. CASE Fault
  BY <1>4, CrashInv, MailMoveFailsInv, WorkerMoveFailsInv DEF Fault, Threads
<1>5. CASE UNCHANGED vars
  BY <1>5, StutterInv
<1>6. QED
  BY <1>1, <1>2, <1>3, <1>4, <1>5 DEF Next

\* The rows, the worker and the mail thread always agree as JobInv says,
\* for any number of jobs and crashes (worker.py, pipeline.py, handlers).
THEOREM Agreement == Spec => []JobInv
<1>1. Init => TypeOK /\ JobInv
  BY InitTypeOK, InitInv
<1>2. TypeOK /\ JobInv /\ [Next]_vars => (TypeOK /\ JobInv)'
  BY StepTypeOK, StepInv
<1>3. QED
  BY <1>1, <1>2, PTL DEF Spec

\* No transcript is submitted by two executions (submit_transcript.py:131).
THEOREM NeverSubmittedTwice == Spec => []SubmittedOnce
<1>1. JobInv => SubmittedOnce
  BY DEF JobInv, RowInv, SubmittedOnce
<1>2. QED
  BY <1>1, Agreement, PTL

\* A COMPLETED transcript is on the backend (submit_transcript.py:131-158).
THEOREM CompletionIsReal == Spec => []CompletedIsSubmitted
<1>1. JobInv => CompletedIsSubmitted
  BY DEF JobInv, RowInv, CompletedIsSubmitted, Delivered
<1>2. QED
  BY <1>1, Agreement, PTL

\* The file of a job that can still run is where its row says
\* (submit_transcript.py:108-111, storage/attachments.py:23-31).
THEOREM RunnableFileIsFound == Spec => []RunnableFileInPlace
<1>1. JobInv => RunnableFileInPlace
  BY DEF JobInv, RowInv, RunnableFileInPlace, Filed
<1>2. QED
  BY <1>1, Agreement, PTL

\* Owners get at most one verdict and it is true (submit_transcript.py:158-207,
\* assess_query.py:126-169).
THEOREM VerdictsAreSound == Spec => []VerdictIsTrue
<1>1. JobInv => VerdictIsTrue
  BY DEF JobInv, RowInv, VerdictIsTrue, Delivered
<1>2. QED
  BY <1>1, Agreement, PTL

-----------------------------------------------------------------------------
\* No thread is inside set_status.
LEMMA InitRace == Init => RaceInv
BY DEF Init, RaceInv, Threads, NoRow

\* A step that writes no status and moves no thread inside set_status.
Quiet ==
  /\ UNCHANGED <<status, read>>
  /\ \A t \in Threads : read[t] # NoRow => at'[t] = at[t] /\ on'[t] = on[t]
  /\ at'["mail"] = "cancel" => at["mail"] = "cancel" \/ "cancel" \in Requests

\* A quiet step cannot make a selected status stale.
LEMMA QuietRace == ASSUME RaceInv, Quiet PROVE RaceInv'
BY DEF RaceInv, Quiet

\* The statements outside set_status are quiet.
LEMMA ThreadQuiet ==
  ASSUME TypeOK, JobInv, NEW t \in Threads,
         MoveFile(t) \/ MoveFails(t) \/ NoteFile(t) \/ Enqueue(t)
  PROVE  Quiet
<1>1. at[t] \notin DOMAIN SetsStatus
  BY Tables DEF MoveFile, MoveFails, NoteFile, Enqueue, FileNoted
<1>2. read[t] = NoRow
  BY <1>1 DEF JobInv
<1>3. \E l : Goto(t, l) /\ l # "cancel"
  <2>1. ASSUME NEW l, NEW o PROVE Then(l, o) # "cancel" /\ Raised(l) # "cancel"
    BY DEF Then, Raised
  <2>2. QED
    BY <2>1 DEF MoveFile, MoveFails, NoteFile, Enqueue, Step
<1>4. /\ UNCHANGED <<status, read, on>>
      /\ \A u \in Threads \ {t} : at'[u] = at[u]
  BY <1>3 DEF MoveFile, MoveFails, NoteFile, Enqueue, Goto, rows, TypeOK
<1>5. at'["mail"] = "cancel" => at["mail"] = "cancel"
  BY <1>3, <1>4 DEF Goto, TypeOK, Threads
<1>6. QED
  BY <1>2, <1>4, <1>5 DEF Quiet

\* The mail thread's other statements are quiet.
LEMMA MailQuiet ==
  ASSUME TypeOK, JobInv, NEW j \in Jobs,
         ParseTranscript \/ DeletePending \/ Cancel(j) \/ AnswerQuestion(j) \/ RepeatQuestion(j)
  PROVE  Quiet
<1>1. RepeatQuestion(j) \/ at["mail"] \in {"parse", "unpend", "idle"}
  BY DEF ParseTranscript, DeletePending, Cancel, AnswerQuestion
<1>2. RepeatQuestion(j) \/ read["mail"] = NoRow
  BY <1>1, Tables DEF JobInv, Threads
<1>3. QED
  BY <1>2 DEF Quiet, ParseTranscript, DeletePending, Cancel, AnswerQuestion, RepeatQuestion,
     Enter, Goto, Step, Then, TypeOK, Threads, rows, threads

\* So are the worker's.
LEMMA WorkerQuiet ==
  ASSUME TypeOK, JobInv,
         ListQueued \/ TakeJob \/ MatchGroup \/ PutPending \/ CreateMeeting \/ UploadTranscript
         \/ QuerySources
  PROVE  Quiet
<1>1. at["worker"] \in {"idle", "match", "pend", "submit", "upload", "sources"}
  BY DEF ListQueued, TakeJob, MatchGroup, PutPending, CreateMeeting, UploadTranscript, QuerySources
<1>2. read["worker"] = NoRow
  BY <1>1, Tables DEF JobInv, Threads
<1>3. QED
  BY <1>2 DEF Quiet, ListQueued, TakeJob, MatchGroup, PutPending, CreateMeeting,
     UploadTranscript, QuerySources, Enter, Goto, Step, TypeOK, Threads, rows, threads

\* The worker is not inside set_status for a job the mail thread is about to
\* give a status other than CANCELLED.
LEMMA Apart ==
  ASSUME TypeOK, JobInv, on["worker"] = on["mail"], at["worker"] \in DOMAIN SetsStatus,
         at["mail"] \in DOMAIN SetsStatus
  PROVE  at["mail"] = "cancel"
<1>1. RowInv(on["mail"]) /\ MailInv(on["mail"], at["mail"])
  BY DEF JobInv, TypeOK, Threads
<1>2. at["mail"] \in {"validate", "reject", "queue", "cancel", "requeue"}
  BY Tables DEF TypeOK, MailLabels
<1>3. at["worker"] \in {"start", "clarify", "complete", "fail"}
  BY Tables DEF TypeOK, WorkerLabels
<1>4. QED
  BY <1>1, <1>2, <1>3 DEF RowInv, MailInv, Released, Asking

\* What has just been selected is current.
LEMMA SelectRace == ASSUME TypeOK, JobInv, RaceInv, NEW t \in Threads, SelectStatus(t) PROVE RaceInv'
<1>1. UNCHANGED <<status, on>>
  BY DEF SelectStatus, rows
<1>2. \A u \in Threads \ {t} : read'[u] = read[u] /\ at'[u] = at[u]
  BY DEF SelectStatus, Goto, TypeOK
<1>3. \/ read'[t] = NoRow /\ at'[t] = Raised(at[t])
      \/ /\ read'[t] = status[on[t]] /\ at'[t] = at[t]
         /\ SetsStatus[at[t]] \in ALLOWED_TRANSITIONS(read'[t]) \cup {read'[t]}
  BY DEF SelectStatus, Goto, TypeOK
<1>4. Raised(at[t]) # "cancel"
  BY DEF Raised
<1>5. at'["mail"] = "cancel" => at["mail"] = "cancel"
  BY <1>2, <1>3, <1>4 DEF Threads
<1>6. QED
  BY <1>1, <1>2, <1>3, <1>5 DEF RaceInv

\* An update makes another thread's selection stale only if one of them cancels.
LEMMA UpdateRace == ASSUME TypeOK, JobInv, RaceInv, NEW t \in Threads, UpdateStatus(t) PROVE RaceInv'
<1>1. /\ read'[t] = NoRow /\ on' = on
      /\ at'[t] = Then(at[t], op[on[t]])
      /\ \A u \in Threads \ {t} : read'[u] = read[u] /\ at'[u] = at[u]
  BY DEF UpdateStatus, Step, Goto, TypeOK
<1>2. status' = [status EXCEPT ![on[t]] = SetsStatus[at[t]]] /\ on[t] \in Jobs
  BY DEF UpdateStatus, TypeOK
<1>3. ASSUME NEW u \in Threads, read'[u] # NoRow
      PROVE  at'[u] = "cancel" \/ status'[on'[u]] \in {read'[u], "CANCELLED"}
  <2>1. u # t /\ at[u] \in DOMAIN SetsStatus /\ at[t] \in DOMAIN SetsStatus
    BY <1>1, <1>3 DEF JobInv, UpdateStatus
  <2>2. CASE on[u] # on[t]
    BY <1>1, <1>2, <1>3, <2>1, <2>2 DEF RaceInv, TypeOK
  <2>3. CASE on[u] = on[t]
    <3>1. at["mail"] = "cancel"
      BY <2>1, <2>3, Apart DEF Threads
    <3>2. QED
      BY <1>1, <1>2, <1>3, <2>1, <2>3, <3>1 DEF Threads, SetsStatus, TypeOK
  <2>4. QED
    BY <2>2, <2>3
<1>4. ASSUME "cancel" \notin Requests
      PROVE  at'["mail"] # "cancel" /\ \A j \in Jobs : status'[j] # "CANCELLED"
  <2>1. at[t] # "cancel"
    BY <1>4 DEF RaceInv, TypeOK, Threads, WorkerLabels
  <2>2. SetsStatus[at[t]] # "CANCELLED"
    BY <2>1, Tables DEF UpdateStatus, SetsStatus
  <2>3. Then(at[t], op[on[t]]) # "cancel"
    BY DEF Then
  <2>4. QED
    BY <1>1, <1>2, <1>4, <2>2, <2>3 DEF RaceInv, TypeOK, Threads
<1>5. QED
  BY <1>1, <1>3, <1>4 DEF RaceInv

\* A new job is in nobody's hands.
LEMMA AcceptRace ==
  ASSUME TypeOK, JobInv, RaceInv, NEW o \in Operation, Accept(o) PROVE RaceInv'
<1>1. PICK j \in Jobs : /\ status[j] = NoRow
                        /\ status' = [status EXCEPT ![j] = "RECEIVED"]
                        /\ Enter("mail", "validate", j)
  BY DEF Accept
<1>2. at["mail"] = "idle" /\ read' = read
  BY DEF Accept
<1>3. read["mail"] = NoRow
  BY <1>2, Tables DEF JobInv, Threads
<1>4. on["worker"] = j => read["worker"] = NoRow
  BY <1>1, Tables DEF JobInv, RowInv, Released, Threads
<1>5. at'["worker"] = at["worker"] /\ on'["worker"] = on["worker"] /\ at'["mail"] = "validate"
  BY <1>1 DEF Enter, Goto, TypeOK, Threads
<1>6. \A i \in Jobs : status'[i] = status[i] \/ (i = j /\ status'[i] = "RECEIVED")
  BY <1>1 DEF TypeOK
<1>7. QED
  BY <1>2, <1>3, <1>4, <1>5, <1>6 DEF RaceInv, TypeOK, Threads

\* Every step keeps RaceInv.
LEMMA StepRace == TypeOK /\ JobInv /\ RaceInv /\ [Next]_vars => RaceInv'
<1> SUFFICES ASSUME TypeOK, JobInv, RaceInv, [Next]_vars PROVE RaceInv'
  OBVIOUS
<1>1. ASSUME NEW t \in Threads, ThreadStep(t) PROVE RaceInv'
  BY <1>1, SelectRace, UpdateRace, ThreadQuiet, QuietRace DEF ThreadStep
<1>2. CASE MailStep
  <2>1. Jobs # {}
    BY JobsAssumption
  <2>2. QED
    BY <1>1, <1>2, <2>1, MailQuiet, QuietRace DEF MailStep, Threads
<1>3. CASE MailRequest
  BY <1>3, AcceptRace, MailQuiet, QuietRace DEF MailRequest
<1>4. CASE WorkerStep
  BY <1>1, <1>4, WorkerQuiet, QuietRace DEF WorkerStep, Threads
<1>5. CASE Fault
  <2>1. CASE Crash
    BY <2>1 DEF Crash, RaceInv, Threads, rows, NoRow
  <2>2. QED
    BY <1>5, <2>1, ThreadQuiet, QuietRace DEF Fault
<1>6. CASE UNCHANGED vars
  BY <1>6 DEF vars, rows, threads, RaceInv
<1>7. QED
  BY <1>2, <1>3, <1>4, <1>5, <1>6 DEF Next

\* The three invariants together.
LEMMA AllInv == Spec => [](TypeOK /\ JobInv /\ RaceInv)
<1>1. Init => TypeOK /\ JobInv /\ RaceInv
  BY InitTypeOK, InitInv, InitRace
<1>2. TypeOK /\ JobInv /\ RaceInv /\ [Next]_vars => (TypeOK /\ JobInv /\ RaceInv)'
  BY StepTypeOK, StepInv, StepRace
<1>3. QED
  BY <1>1, <1>2, PTL DEF Spec

\* Which step writes a status, and which.
LEMMA StatusWrites ==
  ASSUME TypeOK, [Next]_vars
  PROVE  \/ \E t \in Threads : UpdateStatus(t)
         \/ \E o \in Operation : Accept(o)
         \/ UNCHANGED status
<1> USE DEF rows
<1>1. ASSUME NEW t \in Threads, ThreadStep(t) \/ MoveFails(t)
      PROVE  UpdateStatus(t) \/ UNCHANGED status
  BY <1>1 DEF ThreadStep, SelectStatus, MoveFile, MoveFails, NoteFile, Enqueue
<1>2. CASE MailStep
  BY <1>1, <1>2 DEF MailStep, Threads, ParseTranscript, DeletePending
<1>3. CASE MailRequest
  BY <1>3 DEF MailRequest, Cancel, AnswerQuestion, RepeatQuestion
<1>4. CASE WorkerStep
  BY <1>1, <1>4 DEF WorkerStep, Threads, ListQueued, TakeJob, MatchGroup, PutPending,
     CreateMeeting, UploadTranscript, QuerySources
<1>5. CASE Fault
  BY <1>1, <1>5 DEF Fault, Crash
<1>6. QED
  BY <1>2, <1>3, <1>4, <1>5 DEF Next, vars

\* A row leaves the table only where a cancellation is involved.
CancelOnly(j) ==
  status'[j] # status[j] =>
    \/ status[j] = NoRow
    \/ status'[j] \in ALLOWED_TRANSITIONS(status[j])
    \/ "CANCELLED" \in {status[j], status'[j]}

\* No step leaves the table otherwise.
LEMMA StepCancelOnly ==
  ASSUME TypeOK, JobInv, RaceInv, [Next]_vars, NEW j \in Jobs PROVE CancelOnly(j)
<1>1. ASSUME NEW t \in Threads, UpdateStatus(t) PROVE CancelOnly(j)
  <2>1. read[t] # NoRow /\ status' = [status EXCEPT ![on[t]] = SetsStatus[at[t]]] /\ on[t] \in Jobs
    BY <1>1 DEF UpdateStatus, TypeOK
  <2>2. CASE on[t] # j
    BY <2>1, <2>2 DEF CancelOnly, TypeOK
  <2>3. CASE on[t] = j /\ at[t] = "cancel"
    BY <2>1, <2>3 DEF CancelOnly, TypeOK, SetsStatus
  <2>4. CASE on[t] = j /\ at[t] # "cancel"
    <3>1. /\ SetsStatus[at[t]] \in ALLOWED_TRANSITIONS(read[t]) \cup {read[t]}
          /\ status[j] \in {read[t], "CANCELLED"}
      BY <2>1, <2>4 DEF RaceInv
    <3>2. status'[j] = SetsStatus[at[t]]
      BY <2>1, <2>4 DEF TypeOK
    <3>3. QED
      BY <3>1, <3>2 DEF CancelOnly
  <2>5. QED
    BY <2>2, <2>3, <2>4
<1>2. ASSUME NEW o \in Operation, Accept(o) PROVE CancelOnly(j)
  BY <1>2 DEF Accept, CancelOnly, TypeOK
<1>3. CASE UNCHANGED status
  BY <1>3 DEF CancelOnly
<1>4. QED
  BY <1>1, <1>2, <1>3, StatusWrites

\* If nobody cancels, the table is enforced (jobs/models.py:21-37).
THEOREM TableHoldsWithoutCancel ==
  ASSUME "cancel" \notin Requests PROVE Spec => TableIsEnforced
<1>1. ASSUME TypeOK, JobInv, RaceInv, RaceInv', [Next]_vars, NEW j \in Jobs,
             status'[j] # status[j]
      PROVE  status[j] = NoRow \/ status'[j] \in ALLOWED_TRANSITIONS(status[j])
  <2>1. CancelOnly(j)
    BY <1>1, StepCancelOnly
  <2>2. "CANCELLED" \notin {status[j], status'[j]}
    BY <1>1 DEF RaceInv
  <2>3. QED
    BY <1>1, <2>1, <2>2 DEF CancelOnly
<1>2. TypeOK /\ JobInv /\ RaceInv /\ RaceInv' /\ [Next]_vars =>
        [\A j \in Jobs : status'[j] # status[j] =>
           status[j] = NoRow \/ status'[j] \in ALLOWED_TRANSITIONS(status[j])]_vars
  BY <1>1
<1>3. QED
  BY <1>2, AllInv, PTL DEF Spec, TableIsEnforced

-----------------------------------------------------------------------------
(* The job store keeps the promise of JobContract.                         *)

Submitted == {j \in Jobs : meetings[j] > 0}

\* Which steps the contract can see.
LEMMA SubmittedChange ==
  ASSUME TypeOK, JobInv, [Next]_vars
  PROVE  \/ UNCHANGED <<status, op>> /\ Submitted' = Submitted
         \/ UNCHANGED Submitted /\ \E t \in Threads : UpdateStatus(t)
         \/ UNCHANGED Submitted /\ \E o \in Operation : Accept(o)
         \/ CreateMeeting
<1> USE DEF rows, backend, Submitted
<1>1. ASSUME NEW t \in Threads, ThreadStep(t) \/ MoveFails(t)
      PROVE  UNCHANGED meetings /\ (UpdateStatus(t) \/ UNCHANGED <<status, op>>)
  BY <1>1 DEF ThreadStep, SelectStatus, UpdateStatus, MoveFile, MoveFails, NoteFile, Enqueue
<1>2. CASE MailStep
  BY <1>1, <1>2 DEF MailStep, Threads, ParseTranscript, DeletePending
<1>3. CASE MailRequest
  BY <1>3 DEF MailRequest, Accept, Cancel, AnswerQuestion, RepeatQuestion
<1>4. CASE WorkerStep
  BY <1>1, <1>4 DEF WorkerStep, Threads, ListQueued, TakeJob, MatchGroup, PutPending,
     UploadTranscript, QuerySources
<1>5. CASE Fault
  BY <1>1, <1>5 DEF Fault, Crash
<1>6. QED
  BY <1>2, <1>3, <1>4, <1>5 DEF Next, vars

\* JobContract has the same vocabulary.
LEMMA SameWords ==
  /\ Contract!NoRow = NoRow /\ Contract!JobState = JobState /\ Contract!Operation = Operation
  /\ \A s : Contract!ALLOWED_TRANSITIONS(s) = ALLOWED_TRANSITIONS(s)
BY DEF Contract!NoRow, NoRow, Contract!JobState, JobState, Contract!Operation, Operation,
   Contract!ALLOWED_TRANSITIONS, ALLOWED_TRANSITIONS

\* Initial states map to initial states.
LEMMA ContractInit == Init => Contract!Init
BY DEF Init, Contract!Init, NoRow, Contract!NoRow

\* A write of set_status: a transition of the table, or a cancellation and an
\* execution that overwrite each other.
LEMMA ContractAllows ==
  ASSUME TypeOK, JobInv, RaceInv, NEW t \in Threads, UpdateStatus(t),
         SetsStatus[at[t]] # status[on[t]]
  PROVE  \/ SetsStatus[at[t]] \in ALLOWED_TRANSITIONS(status[on[t]])
         \/ Contract!Overwrites(status[on[t]], SetsStatus[at[t]])
<1> DEFINE j == on[t]
<1> USE DEF Contract!Overwrites, Contract!Executing
<1>1. /\ read[t] # NoRow /\ j \in Jobs /\ at[t] \in DOMAIN SetsStatus
      /\ status[j] \in JobState \cup {NoRow}
      /\ (t = "worker" => at[t] \in WorkerLabels) /\ (t = "mail" => at[t] \in MailLabels)
  BY DEF UpdateStatus, TypeOK
<1>2. (t = "mail" => MailInv(j, at[t])) /\ t \in {"mail", "worker"}
  BY DEF JobInv, Threads
<1>3. status[j] = "CANCELLED" \/ at[t] = "cancel" => "cancel" \in Requests
  BY <1>1, <1>2 DEF RaceInv, WorkerLabels
<1>4. CASE at[t] = "cancel"
  <2>1. status[j] \in JobState \ {"RECEIVED", "VALIDATING"}
    BY <1>1, <1>2, <1>4 DEF MailInv, WorkerLabels
  <2>2. SetsStatus[at[t]] = "CANCELLED"
    BY <1>4 DEF SetsStatus
  <2>3. QED
    BY <1>3, <1>4, <2>1, <2>2 DEF JobState, ALLOWED_TRANSITIONS
<1>5. CASE at[t] # "cancel" /\ status[j] = read[t]
  BY <1>1, <1>5 DEF RaceInv
<1>6. CASE at[t] # "cancel" /\ status[j] = "CANCELLED"
  <2>1. t = "worker"
    BY <1>1, <1>2, <1>6 DEF MailInv, MailLabels, SetsStatus
  <2>2. SetsStatus[at[t]] \in {"PROCESSING", "NEEDS_CLARIFICATION", "COMPLETED", "FAILED"}
    BY <1>1, <2>1 DEF WorkerLabels, SetsStatus
  <2>3. QED
    BY <1>3, <1>6, <2>2
<1>7. QED
  BY <1>1, <1>4, <1>5, <1>6 DEF RaceInv

\* Every step maps to a step of the contract or to a stutter.
LEMMA ContractStep ==
  ASSUME TypeOK, JobInv, RaceInv, [Next]_vars
  PROVE  [Contract!Next]_<<status, op, Submitted>>
<1>1. ASSUME NEW t \in Threads, UpdateStatus(t), UNCHANGED Submitted
      PROVE  Contract!Next \/ UNCHANGED <<status, op>>
  <2>1. /\ read[t] # NoRow /\ on[t] \in Jobs /\ op' = op
        /\ status' = [status EXCEPT ![on[t]] = SetsStatus[at[t]]]
        /\ at[t] \in DOMAIN SetsStatus
    BY <1>1 DEF UpdateStatus, TypeOK
  <2>2. CASE SetsStatus[at[t]] = status[on[t]]
    BY <2>1, <2>2 DEF TypeOK
  <2>3. CASE SetsStatus[at[t]] # status[on[t]]
    <3>1. /\ RowInv(on[t]) /\ (t = "worker" => WorkerInv(on[t], at[t]))
          /\ (t = "mail" => MailInv(on[t], at[t]))
      BY <2>1 DEF JobInv
    <3>2. SetsStatus[at[t]] = "COMPLETED" => Delivered(on[t]) /\ status[on[t]] # NoRow
      BY <2>1, <3>1, Tables DEF SetsStatus, TypeOK, MailLabels, WorkerInv, Threads, NoRow
    <3>3. SetsStatus[at[t]] \in {"NEEDS_CLARIFICATION", "QUEUED"} => Fresh(on[t])
      BY <2>1, <3>1, Tables DEF SetsStatus, TypeOK, MailLabels, WorkerLabels, WorkerInv, MailInv,
         RowInv, Threads
    <3>4. status[on[t]] # NoRow /\ op[on[t]] # "submit_transcript" => op[on[t]] = "assess_query"
      BY <3>1 DEF RowInv, Operation
    <3>5. SetsStatus[at[t]] = "COMPLETED" => on[t] \in Submitted \/ op[on[t]] = "assess_query"
      BY <2>1, <3>2, <3>4 DEF Delivered, IsTranscript, Submitted
    <3>6. SetsStatus[at[t]] \in {"NEEDS_CLARIFICATION", "QUEUED"} => on[t] \notin Submitted
      BY <3>3 DEF Fresh, Submitted
    <3>7. \/ SetsStatus[at[t]] \in ALLOWED_TRANSITIONS(status[on[t]])
          \/ Contract!Overwrites(status[on[t]], SetsStatus[at[t]])
      BY <1>1, <2>3, ContractAllows
    <3>8. Contract!Advance(on[t], SetsStatus[at[t]])
      BY <1>1, <2>1, <3>5, <3>6, <3>7, SameWords DEF Contract!Advance, Submitted
    <3>9. QED
      BY <2>1, <3>8, Tables, SameWords DEF Contract!Next
  <2>4. QED
    BY <2>2, <2>3
<1>2. ASSUME NEW o \in Operation, Accept(o), UNCHANGED Submitted PROVE Contract!Next
  <2>1. PICK j \in Jobs : Contract!Create(j)
    BY <1>2, SameWords DEF Accept, Contract!Create, Submitted
  <2>2. QED
    BY <2>1 DEF Contract!Next
<1>3. CASE CreateMeeting
  <2>0. PICK j \in Jobs : j = on["worker"]
    BY DEF TypeOK, Threads
  <2>1. PICK n \in 0..MaxPosts : meetings' = [meetings EXCEPT ![j] = @ + n]
    BY <1>3, <2>0 DEF CreateMeeting
  <2>2. /\ on["worker"] = j /\ at["worker"] = "submit" /\ UNCHANGED <<status, op>>
        /\ n \in Nat
    BY <1>3, <2>0, BoundsAssumption DEF CreateMeeting, TypeOK, Threads, rows
  <2>3. /\ meetings[j] = 0
        /\ status[j] = "PROCESSING" \/ ("cancel" \in Requests /\ status[j] = "CANCELLED")
    BY <2>2 DEF JobInv, WorkerInv, Fresh, RaceInv
  <2>4. op[j] = "submit_transcript"
    BY <2>2 DEF JobInv, WorkerInv, IsTranscript
  <2>5. CASE n = 0
    BY <2>1, <2>2, <2>3, <2>5 DEF Submitted, TypeOK
  <2>6. CASE n > 0
    <3>1. Submitted' = Submitted \cup {j} /\ j \notin Submitted
      BY <2>1, <2>2, <2>3, <2>6 DEF Submitted, TypeOK
    <3>2. Contract!Submit(j)
      BY <2>2, <2>3, <2>4, <3>1 DEF Contract!Submit, Submitted
    <3>3. Contract!Next
      BY <2>2, <3>2 DEF Contract!Next
    <3>4. QED
      BY <3>3
  <2>7. QED
    BY <2>2, <2>5, <2>6
<1>4. QED
  BY <1>1, <1>2, <1>3, SubmittedChange

\* The two threads, their files, faults and restarts keep the promise of
\* JobContract, for any number of jobs; where nobody cancels that is the table
\* of allowed transitions itself.
THEOREM ImplementsContract == Spec => KeepsContract
<1>1. Init => Contract!Init
  BY ContractInit
<1>2. TypeOK /\ JobInv /\ RaceInv /\ [Next]_vars => [Contract!Next]_<<status, op, Submitted>>
  BY ContractStep
<1>3. QED
  BY <1>1, <1>2, AllInv, PTL DEF Spec, KeepsContract, Contract!Spec, Submitted
-----------------------------------------------------------------------------
(* Which group a job is for, GroupQuestion: what the life of a job leaves  *)
(* open between "start" and "upload", for any groups, names and number of  *)
(* changes.  An accepted answer settles the question, and no transcript is *)
(* filed under another group than the one the sender named.                *)

\* A listing gives names to some of the groups.
LEMMA ListingsAreNames ==
  ASSUME NEW f \in Listings
  PROVE  DOMAIN f \subseteq Groups /\ \A g \in DOMAIN f : f[g] \in Name
<1>1. PICK S \in SUBSET Groups : f \in [S -> Name]
  BY DEF Listings
<1> QED
  BY <1>1

\* The shape of the state is kept (QuestionTypeOK).
THEOREM QuestionTyped == QuestionSpec => []QuestionTypeOK
<1>1. QuestionInit => QuestionTypeOK
  <2> SUFFICES ASSUME QuestionInit PROVE QuestionTypeOK
    OBVIOUS
  <2> QED
    BY GroupAssumption DEF QuestionInit, QuestionTypeOK
<1>2. QuestionTypeOK /\ [QuestionNext]_question => QuestionTypeOK'
  <2> SUFFICES ASSUME QuestionTypeOK, [QuestionNext]_question PROVE QuestionTypeOK'
    OBVIOUS
  <2> USE DEF QuestionTypeOK
  <2>1. CASE File
    <3>1. Candidates \subseteq Groups
      BY ListingsAreNames DEF Candidates
    <3> QED
      BY <2>1, <3>1 DEF File
  <2>2. CASE Ask
    BY <2>2 DEF Ask
  <2>3. ASSUME NEW n \in Name, Answer(n) PROVE QuestionTypeOK'
    <3>1. PICK g \in Groups : Meant(n) = {g} /\ hint' = options[g]
      BY <2>3 DEF Answer
    <3>2. g \in DOMAIN options
      BY <3>1 DEF Meant
    <3>3. options \in Listings
      BY <3>2
    <3>4. hint' \in Name /\ picked' \in SUBSET Groups
      BY <2>3, <3>1, <3>2, <3>3, ListingsAreNames DEF Answer
    <3> QED
      BY <2>3, <3>4 DEF Answer
  <2>4. ASSUME NEW n \in Name, AskAgain(n) PROVE QuestionTypeOK'
    BY <2>4 DEF AskAgain
  <2>5. ASSUME NEW g \in Groups, Change(g) PROVE QuestionTypeOK'
    <3>1. name' \in Listings /\ changes' \in 0..MaxChanges
      BY <2>5, GroupAssumption DEF Change
    <3> QED
      BY <2>5, <3>1 DEF Change
  <2>6. CASE UNCHANGED question
    BY <2>6 DEF question
  <2> QED
    BY <2>1, <2>2, <2>3, <2>4, <2>5, <2>6 DEF QuestionNext, MatchStep
<1> QED
  BY <1>1, <1>2, PTL DEF QuestionSpec

\* The answer that was accepted stays the one option that is like it, until
\* the next question (AnswerInv).
THEOREM AnswerIsKept == QuestionSpec => []AnswerInv
<1>1. QuestionInit => AnswerInv
  BY DEF QuestionInit, AnswerInv
<1>2. QuestionTypeOK /\ AnswerInv /\ [QuestionNext]_question => AnswerInv'
  <2> SUFFICES ASSUME QuestionTypeOK, AnswerInv, [QuestionNext]_question PROVE AnswerInv'
    OBVIOUS
  <2> USE DEF AnswerInv, Meant, Candidates
  <2>1. CASE File
    BY <2>1 DEF File
  <2>2. CASE Ask
    BY <2>2 DEF Ask
  <2>3. ASSUME NEW n \in Name, Answer(n) PROVE AnswerInv'
    <3>1. PICK g \in Groups : Meant(n) = {g} /\ hint' = options[g]
      BY <2>3 DEF Answer
    <3>2. g \in DOMAIN options /\ Normalise(options[g]) = Normalise(n)
      BY <3>1
    <3>3. picked' = {g} /\ options' = options /\ state' # "filed"
      BY <2>3, <3>1 DEF Answer
    <3>4. {h \in DOMAIN options : Normalise(options[h]) = Normalise(options[g])} = {g}
      BY <3>1, <3>2
    <3> QED
      BY <3>1, <3>2, <3>3, <3>4
  <2>4. ASSUME NEW n \in Name, AskAgain(n) PROVE AnswerInv'
    BY <2>4 DEF AskAgain
  <2>5. ASSUME NEW g \in Groups, Change(g) PROVE AnswerInv'
    BY <2>5 DEF Change
  <2>6. CASE UNCHANGED question
    BY <2>6 DEF question
  <2> QED
    BY <2>1, <2>2, <2>3, <2>4, <2>5, <2>6 DEF QuestionNext, MatchStep
<1> QED
  BY <1>1, <1>2, QuestionTyped, PTL DEF QuestionSpec

\* What Lower takes for equal, Normalise does.
LEMMA NormaliseIsCoarser ==
  ASSUME NEW m, NEW n, Lower(m) = Lower(n)
  PROVE  Normalise(m) = Normalise(n)
BY DEF Lower, Normalise

\* An accepted answer settles the question unless the groups have changed
\* (AnswerSettles): the comparison of the worker is the finer one.
THEOREM AnsweredOnceIsEnough == QuestionSpec => []AnswerSettles
<1>1. QuestionTypeOK /\ AnswerInv => AnswerSettles
  <2> SUFFICES ASSUME QuestionTypeOK, AnswerInv, picked # {}, name = options
               PROVE  Candidates = picked
    BY DEF AnswerSettles
  <2>1. PICK g \in Groups : /\ g \in DOMAIN options /\ hint = options[g]
                            /\ picked = {g} /\ Meant(hint) = {g}
    BY DEF AnswerInv
  <2>2. hint # NoHint
    BY <2>1, ListingsAreNames, GroupAssumption DEF QuestionTypeOK
  <2>3. g \in Candidates
    BY <2>1, <2>2 DEF Candidates
  <2>4. ASSUME NEW h \in Candidates PROVE h = g
    <3>1. h \in DOMAIN options /\ Lower(options[h]) = Lower(hint)
      BY <2>2 DEF Candidates
    <3>2. h \in Meant(hint)
      BY <3>1, NormaliseIsCoarser DEF Meant
    <3> QED
      BY <2>1, <3>2
  <2> QED
    BY <2>1, <2>3, <2>4
<1> QED
  BY <1>1, QuestionTyped, AnswerIsKept, PTL

\* However the groups change: as long as the group the sender named keeps
\* its name, the transcript goes there (NeverAnotherGroup).
THEOREM FiledWhereMeant == QuestionSpec => []NeverAnotherGroup
<1>1. QuestionTypeOK /\ AnswerInv => NeverAnotherGroup
  <2> SUFFICES ASSUME QuestionTypeOK, AnswerInv, NEW g \in picked, state = "filed",
                      g \in DOMAIN name, name[g] = options[g]
               PROVE  filed = {g}
    BY DEF NeverAnotherGroup
  <2>1. hint = options[g]
    BY DEF AnswerInv
  <2>2. g \in Candidates
    BY <2>1 DEF Candidates
  <2> QED
    BY <2>2 DEF AnswerInv
<1> QED
  BY <1>1, QuestionTyped, AnswerIsKept, PTL
=============================================================================

------------------------------- MODULE Outbox -------------------------------
(***************************************************************************)
(* Outgoing mail: the outbox table (Outbox, app/jobs/store.py 326-411) and *)
(* the two loops that empty it, Pipeline.flush_outbox of the running agent *)
(* and _flush_report_outbox of the weekly process.  Both take the rows     *)
(* that are PENDING, send each one and only then write that it was SENT;   *)
(* nothing keeps one loop from a row the other is sending.  Each statement *)
(* is a step; mark_failed reads the attempts and writes them back in two.  *)
(* A row has one message_links row at most (outbox_id is UNIQUE, db.py:79): *)
(* mark_sent raises for a second copy, which then counts as not sent.      *)
(*                                                                         *)
(* A mail may name a file, which is read only when it is sent.  The one    *)
(* place that attaches one is the results handler, which the mail thread   *)
(* runs between two rounds: it names the transcript of a COMPLETED job     *)
(* where the row says it is, while the worker may still be moving it from  *)
(* processing to completed (submit_transcript.py:158-162).  One such job   *)
(* is modelled, from the moment it is COMPLETED.                           *)
(***************************************************************************)
EXTENDS Integers, FiniteSets

CONSTANTS
  Rows,         \* ids of outbox rows
  WeeklyRows,   \* those whose job_id starts with WEEKLY-
  MaxAttempts,  \* max_attempts of mark_failed
  MaxRaises,    \* bound on exceptions
  MaxCrashes    \* bound on crashes

ASSUME OutboxAssumption ==
  /\ WeeklyRows \subseteq Rows /\ Rows # {}
  /\ MaxAttempts \in Nat \ {0} /\ MaxRaises \in Nat /\ MaxCrashes \in Nat

VARIABLES
  status,    \* outbox.status, or "none" without a row
  attempts,  \* outbox.attempts
  sent,      \* sent[f][r]: copies of r the recipient has from flusher f
  linked,    \* the rows that have one in message_links
  batch,     \* batch[f]: what is left of the list pending() returned
  at, on,    \* at[f]: the next statement of flusher f; on[f]: its row
  counted,   \* counted[f]: the attempts mark_failed has read
  tail,      \* what the worker has still to do: "shelve", "note" or "done"
  file,      \* the directory the transcript is in
  path,      \* the directory its job row names
  seen,      \* the path the results handler has read
  attached,  \* attached[r]: the path mail r names, or "none"
  overtaken, \* history: the mails that named the file when it was moved
  raises, crashes

faults     == <<raises, crashes>>
transcript == <<tail, file, path, seen, attached, overtaken>>
vars       == <<status, attempts, sent, linked, batch, at, on, counted, transcript, faults>>

Flusher == {"mail", "weekly"}
Label == {"idle", "exists", "queue", "send", "noteSent", "link", "respond", "count", "giveUp"}
Place == {"processing", "completed"}

\* The rows a flusher sends: the weekly process passes over all others.
Handles(f) == IF f = "mail" THEN Rows ELSE WeeklyRows

-----------------------------------------------------------------------------
Init ==
  /\ status = [r \in Rows |-> "none"]
  /\ attempts = [r \in Rows |-> 0]
  /\ sent = [f \in Flusher |-> [r \in Rows |-> 0]]
  /\ linked = {}
  /\ batch = [f \in Flusher |-> {}]
  /\ at = [f \in Flusher |-> "idle"]
  /\ on = [f \in Flusher |-> CHOOSE r \in Rows : TRUE]
  /\ counted = [f \in Flusher |-> 0]
  /\ tail = "shelve" /\ file = "processing" /\ path = "processing"
  /\ seen = "processing" /\ attached = [r \in Rows |-> "none"] /\ overtaken = {}
  /\ raises = 0 /\ crashes = 0

Goto(f, l) == at' = [at EXCEPT ![f] = l]

Raises == raises < MaxRaises /\ raises' = raises + 1 /\ UNCHANGED crashes

\* The mail the results handler is preparing, if any.
Prepared == {r \in Rows : at["mail"] \in {"exists", "queue"} /\ on["mail"] = r}

(* Some handler, the worker or the weekly workflow queues a mail.          *)
Enqueue(r) ==
  /\ status[r] = "none" /\ r \notin Prepared
  /\ status' = [status EXCEPT ![r] = "PENDING"]
  /\ UNCHANGED <<attempts, sent, linked, batch, at, on, counted, transcript, faults>>

(* handlers/results.py: the row of the job is read, ...                    *)
AskResults(r) ==
  /\ at["mail"] = "idle" /\ batch["mail"] = {}
  /\ status[r] = "none" /\ r \notin WeeklyRows
  /\ on' = [on EXCEPT !["mail"] = r]
  /\ seen' = path
  /\ Goto("mail", "exists")
  /\ UNCHANGED <<status, attempts, sent, linked, batch, counted, tail, file, path, attached,
                 overtaken, faults>>

(* ... the file it names is attached if it is there, ...                   *)
CheckFile ==
  /\ at["mail"] = "exists"
  /\ attached' = [attached EXCEPT ![on["mail"]] = IF file = seen THEN seen ELSE "none"]
  /\ Goto("mail", "queue")
  /\ UNCHANGED <<status, attempts, sent, linked, batch, on, counted, tail, file, path, seen,
                 overtaken, faults>>

(* ... and the mail is queued.                                             *)
QueueResults ==
  /\ at["mail"] = "queue"
  /\ status' = [status EXCEPT ![on["mail"]] = "PENDING"]
  /\ Goto("mail", "idle")
  /\ UNCHANGED <<attempts, sent, linked, batch, on, counted, transcript, faults>>

(* The worker, after COMPLETED: the file is moved ...                      *)
Shelve ==
  /\ tail = "shelve"
  /\ tail' = "note"
  /\ file' = "completed"
  /\ overtaken' = {r \in Rows : attached[r] # "none"}
  /\ UNCHANGED <<status, attempts, sent, linked, batch, at, on, counted, path, seen, attached,
                 faults>>

\* (Slip: the row is not told.  The definitions marked like this are no part of
\* the model: each is the operator after it with a plausible mistake, which the
\* properties must be able to notice.)
NoteShelvedForgotten ==
  /\ tail = "note"
  /\ tail' = "done"
  /\ UNCHANGED <<status, attempts, sent, linked, batch, at, on, counted, file, path, seen,
                 attached, overtaken, faults>>

(* ... and the row told, in two steps.                                     *)
NoteShelved ==
  /\ tail = "note"
  /\ tail' = "done"
  /\ path' = file
  /\ UNCHANGED <<status, attempts, sent, linked, batch, at, on, counted, file, seen, attached,
                 overtaken, faults>>

\* A new round over the rows in S.
Round(f, S) ==
  /\ at[f] = "idle" /\ batch[f] = {}
  /\ batch' = [batch EXCEPT ![f] = S]
  /\ UNCHANGED <<status, attempts, sent, linked, at, on, counted, transcript, faults>>

\* (Slip: the weekly process takes every row.)
ListPendingAll(f) == Round(f, {r \in Rows : status[r] = "PENDING"})

\* (Slip: a row that has failed once is not looked at again.)
ListPendingFresh(f) ==
  Round(f, {r \in Handles(f) : status[r] = "PENDING" /\ attempts[r] = 0})

(* pending(): one query per round.                                         *)
ListPending(f) == Round(f, {r \in Handles(f) : status[r] = "PENDING"})

\* (Slip: the row is written off before it is sent.)
TakeRowFirst(f) ==
  /\ at[f] = "idle"
  /\ \E r \in batch[f] :
       /\ batch' = [batch EXCEPT ![f] = @ \ {r}]
       /\ on' = [on EXCEPT ![f] = r]
       /\ status' = [status EXCEPT ![r] = "SENT"]
  /\ Goto(f, "send")
  /\ UNCHANGED <<attempts, sent, linked, counted, transcript, faults>>

(* The next row of the list, whatever has become of it meanwhile.          *)
TakeRow(f) ==
  /\ at[f] = "idle"
  /\ \E r \in batch[f] :
       /\ batch' = [batch EXCEPT ![f] = @ \ {r}]
       /\ on' = [on EXCEPT ![f] = r]
  /\ Goto(f, "send")
  /\ UNCHANGED <<status, attempts, sent, linked, counted, transcript, faults>>

\* The recipient gets one more copy of r.
Delivered(f, r) == sent' = [sent EXCEPT ![f][r] = @ + 1]

\* Every file the mail names is where it was.
Readable(r) == attached[r] \in {"none", file}

Send(f) ==
  /\ at[f] = "send" /\ Readable(on[f])
  /\ Delivered(f, on[f])
  /\ Goto(f, "noteSent")
  /\ UNCHANGED <<status, attempts, linked, batch, on, counted, transcript, faults>>

(* read_bytes of a file that has been moved raises, every time.            *)
FileIsGone(f) ==
  /\ at[f] = "send" /\ ~Readable(on[f])
  /\ Goto(f, "count")
  /\ UNCHANGED <<status, attempts, sent, linked, batch, on, counted, transcript, faults>>

(* Sending raises; a copy may have got out.                                *)
SendRaises(f) ==
  /\ at[f] = "send" /\ Readable(on[f])
  /\ Raises
  /\ Delivered(f, on[f]) \/ UNCHANGED sent
  /\ Goto(f, "count")
  /\ UNCHANGED <<status, attempts, linked, batch, on, counted, transcript>>

\* (Slip: SENT is not written.)
NoteSentForgotten(f) ==
  /\ at[f] = "noteSent"
  /\ Goto(f, "link")
  /\ UNCHANGED <<status, attempts, sent, linked, batch, on, counted, transcript, faults>>

(* mark_sent, first statement: SENT, ...                                   *)
NoteSent(f) ==
  /\ at[f] = "noteSent"
  /\ status' = [status EXCEPT ![on[f]] = "SENT"]
  /\ Goto(f, "link")
  /\ UNCHANGED <<attempts, sent, linked, batch, on, counted, transcript, faults>>

\* (Slip: the Message-ID is not written.)
LinkForgotten(f) ==
  /\ at[f] = "link"
  /\ Goto(f, "respond")
  /\ UNCHANGED <<status, attempts, sent, linked, batch, on, counted, transcript, faults>>

(* ... second: the Message-ID, by which a reply finds its job, ...         *)
Link(f) ==
  /\ at[f] = "link" /\ on[f] \notin linked
  /\ linked' = linked \cup {on[f]}
  /\ Goto(f, "respond")
  /\ UNCHANGED <<status, attempts, sent, batch, on, counted, transcript, faults>>

(* ... which breaks UNIQUE if an earlier copy of the mail has its own.     *)
LinkTaken(f) ==
  /\ at[f] = "link" /\ on[f] \in linked
  /\ Goto(f, "count")
  /\ UNCHANGED <<status, attempts, sent, linked, batch, on, counted, transcript, faults>>

(* The job, or the weekly report, is told.                                 *)
Respond(f) ==
  /\ at[f] = "respond"
  /\ Goto(f, "idle")
  /\ UNCHANGED <<status, attempts, sent, linked, batch, on, counted, transcript, faults>>

(* An exception after the mail has been sent: it counts as not sent.       *)
RaisesLate(f) ==
  /\ at[f] \in {"noteSent", "link", "respond"}
  /\ Raises
  /\ Goto(f, "count")
  /\ UNCHANGED <<status, attempts, sent, linked, batch, on, counted, transcript>>

(* mark_failed, first statement: how many attempts have there been?        *)
CountAttempts(f) ==
  /\ at[f] = "count"
  /\ counted' = [counted EXCEPT ![f] = attempts[on[f]]]
  /\ Goto(f, "giveUp")
  /\ UNCHANGED <<status, attempts, sent, linked, batch, on, transcript, faults>>

\* (Slip: one attempt too few.)
MarkFailedEarly(f) ==
  /\ at[f] = "giveUp"
  /\ attempts' = [attempts EXCEPT ![on[f]] = counted[f] + 1]
  /\ status' = [status EXCEPT ![on[f]] =
                  IF counted[f] + 2 >= MaxAttempts THEN "FAILED" ELSE "PENDING"]
  /\ Goto(f, "idle")
  /\ UNCHANGED <<sent, linked, batch, on, counted, transcript, faults>>

(* mark_failed, second: one more, and PENDING again or given up.           *)
MarkFailed(f) ==
  /\ at[f] = "giveUp"
  /\ attempts' = [attempts EXCEPT ![on[f]] = counted[f] + 1]
  /\ status' = [status EXCEPT ![on[f]] =
                  IF counted[f] + 1 >= MaxAttempts THEN "FAILED" ELSE "PENDING"]
  /\ Goto(f, "idle")
  /\ UNCHANGED <<sent, linked, batch, on, counted, transcript, faults>>

\* The agent's worker stops with it, and does not come back to this job; a
\* mail that was being prepared is lost.
AgentStops ==
  /\ tail' = "done"
  /\ attached' = [r \in Rows |-> IF r \in Prepared THEN "none" ELSE attached[r]]
  /\ overtaken' = overtaken \ Prepared

(* The process of flusher f stops; it is started again some time.          *)
Crash(f) ==
  /\ crashes < MaxCrashes /\ crashes' = crashes + 1
  /\ batch' = [batch EXCEPT ![f] = {}]
  /\ Goto(f, "idle")
  /\ IF f = "mail" THEN AgentStops ELSE UNCHANGED <<tail, attached, overtaken>>
  /\ UNCHANGED <<status, attempts, sent, linked, on, counted, file, path, seen, raises>>

FlushStep(f) ==
  \/ ListPending(f) \/ TakeRow(f) \/ Send(f) \/ NoteSent(f) \/ Link(f)
  \/ FileIsGone(f) \/ LinkTaken(f) \/ Respond(f) \/ CountAttempts(f) \/ MarkFailed(f)

MailStep == FlushStep("mail") \/ CheckFile \/ QueueResults

FaultStep(f) == SendRaises(f) \/ RaisesLate(f) \/ Crash(f)

Next ==
  \/ \E r \in Rows : Enqueue(r) \/ AskResults(r)
  \/ MailStep \/ FlushStep("weekly")
  \/ Shelve \/ NoteShelved
  \/ \E f \in Flusher : FaultStep(f)

Spec == Init /\ [][Next]_vars

(* The agent flushes after every poll (main.py:166-175) until it is        *)
(* stopped.  Nothing is assumed of the weekly process, which the scheduler *)
(* of the machine starts, nor of the worker.                               *)
FairSpec == Spec /\ WF_vars(MailStep)

-----------------------------------------------------------------------------
(* Properties.                                                             *)

\* The shape of the state; the weekly process sticks to its own rows.
TypeOK ==
  /\ status \in [Rows -> {"none", "PENDING", "SENT", "FAILED"}]
  /\ attempts \in [Rows -> Nat]
  /\ sent \in [Flusher -> [Rows -> Nat]]
  /\ linked \subseteq Rows
  /\ batch \in [Flusher -> SUBSET Rows]
  /\ \A f \in Flusher : batch[f] \subseteq Handles(f)
  /\ at \in [Flusher -> Label]
  /\ on \in [Flusher -> Rows]
  /\ counted \in [Flusher -> Nat]
  /\ tail \in {"shelve", "note", "done"} /\ {file, path, seen} \subseteq Place
  /\ attached \in [Rows -> Place \cup {"none"}] /\ overtaken \subseteq Rows
  /\ raises \in 0..MaxRaises /\ crashes \in 0..MaxCrashes

Copies(r) == sent["mail"][r] + sent["weekly"][r]

\* Some loop has taken r and not yet written down what became of it.
Underway(r) == \E f \in Flusher : on[f] = r /\ at[f] \in {"link", "count", "giveUp"}

\* A row says SENT only if a copy has got out, whichever loop wrote it last.
SentIsDelivered == \A r \in Rows : status[r] = "SENT" => Copies(r) > 0

\* A mail that is SENT has the link by which a reply finds its job, unless a
\* crash came between the two statements of mark_sent (store.py:381-391).
SentIsLinked ==
  \A r \in Rows : status[r] = "SENT" => r \in linked \/ Underway(r) \/ crashes > 0

\* A mail of which no copy has been recorded is given up only after
\* MaxAttempts exceptions, although two loops count in one column, or because
\* the worker moved the file it names after the results handler had found it
\* there (results.py:34-36, pipeline.py:352): that mail can never be sent.
GivenUpIsEarned ==
  \A r \in Rows : status[r] = "FAILED" /\ r \notin linked =>
                    raises >= MaxAttempts \/ r \in overtaken

\* A results mail goes without the transcript only while the worker is
\* moving the file, or if the agent was stopped before it had told the row.
TranscriptIsAttached ==
  at["mail"] = "queue" /\ attached[on["mail"]] = "none" =>
    tail = "note" \/ seen # path \/ crashes > 0

\* A mail that only one loop sends goes out again only after an attempt that
\* has been counted or a crash; so the recipient has MaxAttempts copies at
\* most, and one more for each crash.  (Two loops can each send a copy.)
CopiesAreCounted ==
  \A r \in Rows \ WeeklyRows :
    Copies(r) <= attempts[r] + crashes + (IF status[r] = "FAILED" THEN 0 ELSE 1)

\* In the end every mail is sent or given up, and stays so.
EventuallySettled == \A r \in Rows : <>[](status[r] # "PENDING")
=============================================================================

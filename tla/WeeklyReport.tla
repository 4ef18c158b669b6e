---------------------------- MODULE WeeklyReport ----------------------------
(***************************************************************************)
(* The weekly update (app/weekly_update.py, app/reports/): a process that  *)
(* the scheduler of the machine starts, which makes one report per group   *)
(* for the period that ends on the day of the run.  The rows of one period *)
(* are modelled, with every run that works on them: the scheduled one, one *)
(* started again after a failure, one that overlaps another.  Each write   *)
(* to weekly_reports, report_evidence and outbox is a step of its own, for *)
(* the connection commits every statement (app/storage/db.py 136-145).     *)
(***************************************************************************)
EXTENDS Naturals, FiniteSets

CONSTANTS
  Processes,          \* weekly processes; each may be started many times
  Owners,             \* the authorised owners of the configuration
  Groups,             \* the groups the backend lists for them
  Sources,            \* meetings, github, trello
  MaxRuns,            \* bound on the runs started
  MaxReplies,         \* bound on the questions asked about each report; in
                      \* the code as it stands none is ever answered, because
                      \* pipeline.py:321 raises (see Inbox)
  MaxFaults           \* bound on exceptions and crashes

ASSUME WeeklyAssumption ==
  /\ Processes # {} /\ IsFiniteSet(Processes) /\ Owners # {} /\ Groups # {}
  /\ MaxRuns \in Nat /\ MaxReplies \in Nat /\ MaxFaults \in Nat

VARIABLES
  status,    \* weekly_reports.status, or "none" without a row
  text,      \* the evidence that report_text was written from
  evidence,  \* the sources that have rows in report_evidence
  made,      \* made[m]: mails of sort m ever queued
  pending,   \* pending[m]: those still to be sent
  sent,      \* the sorts of mail the owner has at least a copy of
  at, on,    \* at[p]: the next statement of process p; on[p]: its group
  owners,    \* owners[p]: the owners p has yet to deal with
  groups,    \* groups[p]: the groups of the present owner, likewise
  found,     \* found[p]: the sources that gave evidence
  left,      \* left[p]: those whose rows have yet to be inserted
  mails,     \* mails[p]: what is left of the list pending() returned
  runs, faults,
  overlaps   \* overlaps[g]: how often a run took up the report of g while
             \* another one was at it; the code does not keep it

report == <<status, text, evidence>>
outbox == <<made, pending, sent>>
agenda == <<owners, groups>>
local  == <<found, left, mails>>
vars   == <<report, outbox, at, on, agenda, local, runs, faults, overlaps>>

Status == {"none", "RECEIVED", "COLLECTING", "SYNTHESISING", "QUEUED", "SENT",
           "FAILED"}
Label  == {"idle", "owner", "group", "check", "load", "collect", "clear",
           "insert", "persisted", "generate", "queue", "mail", "fail",
           "flush", "note"}

\* The statements at which a process is in the middle of a report.
AtWork == {"load", "collect", "clear", "insert", "persisted", "generate",
           "queue", "mail", "fail"}

\* A report mail, or a mail that answers a question about the report; both
\* carry the id of the report as their job_id.
Mail == {"report", "reply"} \X Groups
None == [m \in Mail |-> 0]

-----------------------------------------------------------------------------
Init ==
  /\ status = [g \in Groups |-> "none"]
  /\ text = [g \in Groups |-> {}] /\ evidence = [g \in Groups |-> {}]
  /\ made = None /\ pending = None /\ sent = {}
  /\ at = [p \in Processes |-> "idle"]
  /\ on = [p \in Processes |-> CHOOSE g \in Groups : TRUE]
  /\ owners = [p \in Processes |-> {}] /\ groups = [p \in Processes |-> {}]
  /\ found = [p \in Processes |-> {}] /\ left = [p \in Processes |-> {}]
  /\ mails = [p \in Processes |-> None]
  /\ runs = 0 /\ faults = 0
  /\ overlaps = [g \in Groups |-> 0]

Goto(p, l) == at' = [at EXCEPT ![p] = l]

Fault == faults < MaxFaults /\ faults' = faults + 1

\* Process p goes from statement a to statement b, and ...
Step(p, a, b) == at[p] = a /\ Goto(p, b) /\ UNCHANGED <<runs, faults, overlaps>>

\* ... gives the report it works on the status s.
SetStatus(p, s) == status' = [status EXCEPT ![on[p]] = s]

\* One more mail of sort m in the outbox.
Queue(m) ==
  /\ made' = [made EXCEPT ![m] = @ + 1]
  /\ pending' = [pending EXCEPT ![m] = @ + 1]
  /\ UNCHANGED sent

-----------------------------------------------------------------------------
(* run_once: every owner, every group of the owner, then the outbox.  The  *)
(* order of the configuration is of no account here.                       *)
Start(p) ==
  /\ at[p] = "idle" /\ runs < MaxRuns
  /\ runs' = runs + 1
  /\ Goto(p, "owner")
  /\ owners' = [owners EXCEPT ![p] = Owners]
  /\ UNCHANGED <<report, outbox, on, groups, local, faults, overlaps>>

(* login and list_groups; an owner for whom they fail is passed over,      *)
(* which is to say that no groups are listed.                              *)
ListGroups(p) ==
  /\ Step(p, "owner", "group")
  /\ \E o \in owners[p], S \in SUBSET Groups :
       /\ owners' = [owners EXCEPT ![p] = @ \ {o}]
       /\ groups' = [groups EXCEPT ![p] = S]
  /\ UNCHANGED <<report, outbox, on, local>>

NextOwner(p) ==
  /\ groups[p] = {} /\ owners[p] # {}
  /\ Step(p, "group", "owner")
  /\ UNCHANGED <<report, outbox, on, agenda, local>>

(* create_or_get: the row of the group and the period, inserted if there   *)
(* is none.  Two owners who share a group are led to the same row.         *)
CreateOrGet(p) ==
  /\ Step(p, "group", "check")
  /\ \E g \in groups[p] :
       /\ groups' = [groups EXCEPT ![p] = @ \ {g}]
       /\ on' = [on EXCEPT ![p] = g]
       /\ status' = [status EXCEPT ![g] = IF @ = "none" THEN "RECEIVED" ELSE @]
  /\ UNCHANGED <<text, evidence, outbox, owners, local>>

(* WeeklyReportWorkflow.run: a report that is done is left alone.          *)
\* (The definitions marked "Slip" are no part of the model: each is the
\* operator after it with a plausible mistake, which the properties must be
\* able to notice.  This one: only a report that was sent is left alone.)
DoneIfSent == {"SENT"}

Done == {"COMPLETED", "QUEUED", "SENT"}

\* Those who are in the middle of the report of g.
Working(g) == {p \in Processes : at[p] \in AtWork /\ on[p] = g}

Check(p) ==
  /\ at[p] = "check"
  /\ Goto(p, IF status[on[p]] \in Done THEN "group" ELSE "load")
  /\ overlaps' = IF status[on[p]] \in Done \/ Working(on[p]) = {} THEN overlaps
                 ELSE [overlaps EXCEPT ![on[p]] = @ + 1]
  /\ UNCHANGED <<report, outbox, on, agenda, local, runs, faults>>

(* _load.                                                                  *)
Load(p) ==
  /\ Step(p, "load", "collect")
  /\ SetStatus(p, "COLLECTING")
  /\ UNCHANGED <<text, evidence, outbox, on, agenda, local>>

(* _collect: both source threads have answered.  A source that is not to   *)
(* be had, or has nothing to say, gives no evidence.                       *)
Collect(p) ==
  /\ Step(p, "collect", "clear")
  /\ \E S \in SUBSET Sources :
       /\ found' = [found EXCEPT ![p] = S]
       /\ left' = [left EXCEPT ![p] = S]
  /\ UNCHANGED <<report, outbox, on, agenda, mails>>

\* (Slip: the rows of an earlier attempt are not deleted.)
ClearForgotten(p) ==
  /\ Step(p, "clear", "insert")
  /\ UNCHANGED <<report, outbox, on, agenda, local>>

(* replace_evidence: the rows of an earlier attempt are deleted, ...       *)
Clear(p) ==
  /\ Step(p, "clear", "insert")
  /\ evidence' = [evidence EXCEPT ![on[p]] = {}]
  /\ UNCHANGED <<status, text, outbox, on, agenda, local>>

(* ... those of this one inserted, one after the other.  A row that is     *)
(* there already breaks UNIQUE(report_id, source, evidence_id) and raises. *)
Insert(p) ==
  \E s \in left[p] :
    /\ Step(p, "insert", IF s \in evidence[on[p]] THEN "fail" ELSE "insert")
    /\ evidence' = [evidence EXCEPT ![on[p]] = @ \cup {s}]
    /\ left' = [left EXCEPT ![p] = @ \ {s}]
    /\ UNCHANGED <<status, text, outbox, on, agenda, found, mails>>

Inserted(p) ==
  /\ left[p] = {}
  /\ Step(p, "insert", "persisted")
  /\ UNCHANGED <<report, outbox, on, agenda, local>>

(* _persist, its second half.                                              *)
Persisted(p) ==
  /\ Step(p, "persisted", "generate")
  /\ SetStatus(p, "SYNTHESISING")
  /\ UNCHANGED <<text, evidence, outbox, on, agenda, local>>

(* _synthesise: the model writes a text from the evidence in memory.       *)
Generate(p) ==
  /\ Step(p, "generate", "queue")
  /\ UNCHANGED <<report, outbox, on, agenda, local>>

(* _enqueue: QUEUED and the text are written, ...                          *)
WriteQueued(p) ==
  /\ Step(p, "queue", "mail")
  /\ SetStatus(p, "QUEUED")
  /\ text' = [text EXCEPT ![on[p]] = found[p]]
  /\ UNCHANGED <<evidence, outbox, on, agenda, local>>

(* ... and then the mail is put into the outbox.                           *)
EnqueueReport(p) ==
  /\ Step(p, "mail", "group")
  /\ Queue(<<"report", on[p]>>)
  /\ UNCHANGED <<report, on, agenda, local>>

(* A node of the graph raises before it has changed anything: the backend  *)
(* refuses the login, Ollama is unavailable, the database is locked.       *)
Raise(p) ==
  /\ at[p] \in AtWork \ {"fail"}
  /\ Fault
  /\ Goto(p, "fail")
  /\ UNCHANGED <<report, outbox, on, agenda, local, runs, overlaps>>

(* run()'s handler: FAILED, and an alert to the administrator.             *)
Fail(p) ==
  /\ Step(p, "fail", "group")
  /\ SetStatus(p, "FAILED")
  /\ UNCHANGED <<text, evidence, outbox, on, agenda, local>>

-----------------------------------------------------------------------------
(* _flush_report_outbox: the mails of all reports, as pending() lists them. *)
ListPending(p) ==
  /\ owners[p] = {} /\ groups[p] = {}
  /\ Step(p, "group", "flush")
  /\ mails' = [mails EXCEPT ![p] = pending]
  /\ UNCHANGED <<report, outbox, on, agenda, found, left>>

\* A mail m goes out and its row is SENT, if it has not been so already.
\* (What becomes of a row between the two loops is the subject of Outbox.)
Delivered(m) ==
  /\ sent' = sent \cup {m}
  /\ pending' = [pending EXCEPT ![m] = IF @ = 0 THEN 0 ELSE @ - 1]
  /\ UNCHANGED made

\* Sending or recording m fails, perhaps after it has got out.  Its row is
\* still pending, or has used up its attempts.
NotDelivered(m) ==
  /\ sent' \in {sent, sent \cup {m}}
  /\ pending' \in {pending, [pending EXCEPT ![m] = IF @ = 0 THEN 0 ELSE @ - 1]}
  /\ UNCHANGED made

\* The next mail of the list of p is m.
TakeMail(p, m) ==
  /\ mails[p][m] > 0
  /\ mails' = [mails EXCEPT ![p][m] = @ - 1]
  /\ UNCHANGED <<report, agenda, found, left>>

(* send_email and mark_sent.                                               *)
SendReport(p) ==
  /\ Step(p, "flush", "note")
  /\ \E m \in Mail :
       /\ TakeMail(p, m)
       /\ on' = [on EXCEPT ![p] = m[2]]
       /\ Delivered(m)

(* The agent has sent the mail since it was listed: recording the second   *)
(* copy raises (as LinkTaken in Outbox), and the row is pending again.     *)
SendAgain(p) ==
  /\ Step(p, "flush", "flush")
  /\ \E m \in sent :
       /\ TakeMail(p, m)
       /\ pending' = [pending EXCEPT ![m] = IF @ < made[m] THEN @ + 1 ELSE @]
  /\ UNCHANGED <<made, sent, on>>

\* (Slip: it is noted as sent all the same.)
SendRaisesNoted(p) ==
  /\ at[p] = "flush"
  /\ Fault
  /\ \E m \in Mail :
       /\ TakeMail(p, m)
       /\ on' = [on EXCEPT ![p] = m[2]]
       /\ NotDelivered(m)
  /\ Goto(p, "note")
  /\ UNCHANGED <<runs, overlaps>>

(* The mail cannot be sent, or not be recorded.                            *)
SendRaises(p) ==
  /\ at[p] = "flush"
  /\ Fault
  /\ \E m \in Mail : TakeMail(p, m) /\ NotDelivered(m)
  /\ UNCHANGED <<at, on, runs, overlaps>>

(* The report the mail belongs to, report or answer, is SENT.              *)
NoteSent(p) ==
  /\ Step(p, "note", "flush")
  /\ SetStatus(p, "SENT")
  /\ UNCHANGED <<text, evidence, outbox, on, agenda, local>>

Finish(p) ==
  /\ mails[p] = None
  /\ Step(p, "flush", "idle")
  /\ UNCHANGED <<report, outbox, on, agenda, local>>

(* The process is stopped; all that was in memory is lost.                 *)
Crash(p) ==
  /\ at[p] # "idle"
  /\ Fault
  /\ Goto(p, "idle")
  /\ owners' = [owners EXCEPT ![p] = {}] /\ groups' = [groups EXCEPT ![p] = {}]
  /\ found' = [found EXCEPT ![p] = {}] /\ left' = [left EXCEPT ![p] = {}]
  /\ mails' = [mails EXCEPT ![p] = None]
  /\ UNCHANGED <<report, outbox, on, runs, overlaps>>

-----------------------------------------------------------------------------
(* Meanwhile, the running agent.                                           *)

(* Pipeline.flush_outbox: it sends these mails like all others, and does   *)
(* not touch the report.                                                   *)
AgentSends(m) ==
  /\ pending[m] > 0
  /\ Delivered(m)
  /\ UNCHANGED <<report, at, on, agenda, local, runs, faults, overlaps>>

(* It cannot send the mail, or not record it.                              *)
AgentRaises(m) ==
  /\ pending[m] > 0
  /\ Fault
  /\ NotDelivered(m)
  /\ UNCHANGED <<report, at, on, agenda, local, runs, overlaps>>

(* WeeklyReportReplyService.reply: the owner asks about a report, by its   *)
(* id or by a reply to the mail, and is answered from report_evidence.     *)
Reply(g) ==
  /\ status[g] # "none" /\ made[<<"reply", g>>] < MaxReplies
  /\ Queue(<<"reply", g>>)
  /\ UNCHANGED <<report, at, on, agenda, local, runs, faults, overlaps>>

Workflow(p) ==
  \/ Load(p) \/ Collect(p) \/ Clear(p) \/ Insert(p) \/ Inserted(p)
  \/ Persisted(p) \/ Generate(p) \/ WriteQueued(p) \/ EnqueueReport(p)
  \/ Raise(p) \/ Fail(p)

RunOnce(p) ==
  \/ Start(p) \/ ListGroups(p) \/ NextOwner(p) \/ CreateOrGet(p) \/ Check(p)
  \/ ListPending(p) \/ SendReport(p) \/ SendAgain(p) \/ SendRaises(p)
  \/ NoteSent(p) \/ Finish(p) \/ Crash(p)

Next ==
  \/ \E p \in Processes : RunOnce(p) \/ Workflow(p)
  \/ \E m \in Mail : AgentSends(m) \/ AgentRaises(m)
  \/ \E g \in Groups : Reply(g)

Spec == Init /\ [][Next]_vars

-----------------------------------------------------------------------------
(* Properties.                                                             *)

\* The shape of the state.  COMPLETED is looked for, but never written.
TypeOK ==
  /\ status \in [Groups -> Status]
  /\ text \in [Groups -> SUBSET Sources]
  /\ evidence \in [Groups -> SUBSET Sources]
  /\ made \in [Mail -> Nat] /\ pending \in [Mail -> Nat] /\ sent \subseteq Mail
  /\ at \in [Processes -> Label] /\ on \in [Processes -> Groups]
  /\ owners \in [Processes -> SUBSET Owners]
  /\ groups \in [Processes -> SUBSET Groups]
  /\ found \in [Processes -> SUBSET Sources]
  /\ left \in [Processes -> SUBSET Sources]
  /\ mails \in [Processes -> [Mail -> Nat]]
  /\ runs \in 0..MaxRuns /\ faults \in 0..MaxFaults
  /\ overlaps \in [Groups -> Nat]

\* A group gets one report a period, however often the command is run,
\* whatever fails, and however many owners share the group; and one more, at
\* most, each time that a run takes it up while another is at it, which
\* nothing in the code prevents (workflow.py:74-79, 149-155).
OneReportMail ==
  \A g \in Groups : made[<<"report", g>>] <= 1 + overlaps[g]

\* Once the mail of a report is queued, the evidence its text was written
\* from is what the table holds, all of it and nothing else, unless runs have
\* overlapped: it is what questions about the report are answered from
\* (reply.py:28-39).
SnapshotIsSource ==
  \A g \in Groups :
    made[<<"report", g>>] > 0 /\ overlaps[g] = 0 => evidence[g] = text[g]

\* A report that says SENT has been sent, unless a question about it has
\* been asked: the answer carries the id of the report too, and the loop of
\* the weekly process cannot tell the two mails apart (weekly_update.py:92-113).
SentIsMailed ==
  \A g \in Groups : status[g] = "SENT" => <<"report", g>> \in sent \/ made[<<"reply", g>>] > 0

\* Once the mail of a report is queued the report is done with: no later run
\* and no failure takes it up, or calls it FAILED, unless it is one that
\* overlapped (workflow.py:78-88).
MailedIsDone ==
  \A g \in Groups :
    made[<<"report", g>>] > 0 /\ overlaps[g] = 0 => status[g] \in {"QUEUED", "SENT"}

\* A report that a later run passes over as done has had its mail queued;
\* a crash-safe, resumable run needs that (ROADMAP.md:32-33).
PassedOverIsMailed ==
  \A p \in Processes :
    at[p] = "check" /\ status[on[p]] \in Done => made[<<"report", on[p]>>] > 0

(* The inductive invariant behind OneReportMail, SnapshotIsSource and      *)
(* MailedIsDone.                                                           *)

\* Who is about to mail the report of g, and who is at an earlier statement,
\* or fails.
Mailing(g) == {p \in Working(g) : at[p] = "mail"}
Making(g)  == {p \in Working(g) : at[p] # "mail"}

\* The mails of the report of g and those that are bound to come.  As long as
\* the report is not done somebody may take it up: that is one more, unless
\* somebody is at it already.
Claims(g) ==
  made[<<"report", g>>] + Cardinality(Mailing(g))
    + (IF status[g] \in Done \/ Making(g) # {} THEN Cardinality(Making(g)) ELSE 1)

\* What a run has done of a report that it has to itself, ...
WorkInv(p) ==
  /\ at[p] = "clear" => left[p] = found[p]
  /\ at[p] = "insert" => evidence[on[p]] \cup left[p] = found[p]
  /\ at[p] \in {"persisted", "generate", "queue"} => evidence[on[p]] = found[p]
  /\ at[p] = "mail" => status[on[p]] \in {"QUEUED", "SENT"} /\ evidence[on[p]] = text[on[p]]

\* ... and what such a report is like when it is finished.
ReportOf(g) ==
  overlaps[g] = 0 =>
    /\ \A p, q \in Working(g) : p = q
    /\ \A p \in Working(g) : WorkInv(p)
    /\ made[<<"report", g>>] > 0 =>
         status[g] \in {"QUEUED", "SENT"} /\ evidence[g] = text[g]

ReportInv == \A g \in Groups : Claims(g) <= 1 + overlaps[g] /\ ReportOf(g)

\* As long as no question about g has been answered, every mail under the
\* id of its report is the report: the inductive form of SentIsMailed.
MailOf(g) ==
  made[<<"reply", g>>] = 0 =>
    /\ status[g] = "SENT" => <<"report", g>> \in sent
    /\ \A p \in Processes :
         /\ at[p] = "note" /\ on[p] = g => <<"report", g>> \in sent
         /\ mails[p][<<"reply", g>>] = 0
    /\ pending[<<"reply", g>>] = 0

MailInv == \A g \in Groups : MailOf(g)
=============================================================================

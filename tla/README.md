# GroupAssessmentAgent in TLA+

This directory models the agent in `src/app/`: what it does with mail, jobs and
weekly reports while threads interleave, processes stop, services fail and
mails are repeated. The modules are translated from the source; the line
numbers each definition stands for are in `PROJECT.json` under `map`.

## 1. The system

The agent is one process with two daemon threads (`main.py:164-203`), and a
second program that a scheduler starts once a week. All of them share one
SQLite file in autocommit mode (`storage/db.py:136-145`): **every SQL statement
is a transaction of its own**, so any two statements can be parted by another
thread, another process or a stop.

* The *mail thread* polls the mailbox, handles each message to its end
  (`Pipeline.poll_once`), then empties the outbox (`flush_outbox`).
* The *worker thread* lists the QUEUED jobs and executes one after the other
  (`JobWorker.run_once`).
* The *weekly process* (`weekly_update.run_once`) makes a report per group and
  empties the outbox of the mails that carry a report id.

| component | state | operations | what is hard | properties |
|---|---|---|---|---|
| Inbound pipeline (`pipeline.py`) | mailbox flags, `processed_messages` | poll, begin, route, reply, alert, finalise, mark | a stop between any two steps; redelivery; a budget of three attempts that outages use up; one message that makes every fetch raise; alerts that the cooldown suppresses | ReadIsSettled, RepeatsCostFaults, GivingUpCosts, SettledIsTold, UnreadIsRead, AnsweredUnlessGivenUp |
| Jobs and store (`jobs/`) | `jobs`, `pending_clarifications` | create, set_status (SELECT, then UPDATE), update, list | two threads write one row; a restart in PROCESSING | KeepsContract |
| Worker and handlers (`handlers/`) | the row, the file, the backend, the outbox | accept, execute, fail, clarify, cancel | exceptions after COMPLETED; files moved before rows are updated; POSTs that are retried | SubmittedOnce, CompletedIsSubmitted, RunnableFileInPlace, VerdictIsTrue, QueuedIsAnswered |
| Group choice (`diarisation/group_matching.py`, `pipeline.py:278-318`) | hint, stored options | match, ask, accept, repeat | two different comparisons of names; options that are out of date | AnswerSettles, NeverAnotherGroup, QuestionEnds |
| Outgoing mail (`jobs/store.py:326-411`) | `outbox`, `message_links`, the files a mail names | enqueue, attach, pending, mark_sent, mark_failed | two loops over the same rows; a stop after sending; UNIQUE in `message_links`; a file moved while a mail names it | SentIsDelivered, SentIsLinked, GivenUpIsEarned, TranscriptIsAttached, CopiesAreCounted, EventuallySettled |
| Mail clients (`mail/`) | the mailbox of the provider | fetch, mark | sequence numbers that shift; a limit per fetch; a message that cannot be converted | SeenIsHandled, OldestFirst, EveryMessageHandled |
| Thread matching (`mail/thread_matcher.py`) | Message-IDs of links and jobs | match | forwarded mails, threads about several jobs, mails without a link, an id from the language model | OwnJobsOnly, ReplyReachesItsJob, ActedIsMentioned |
| Weekly update (`weekly_update.py`, `reports/`) | `weekly_reports`, `report_evidence`, outbox | list, collect, persist, synthesise, enqueue, flush, answer | re-runs, overlaps, a stop between two writes | OneReportMail, SnapshotIsSource, SentIsMailed |
| Authorisation, commands, language model (`auth/`, `commands/`, `llm/`) | none | authorise, parse, validate | a model that makes up names; two lookups of one attachment | StoredIsSound |
| Backend clients, synthesis (`diarisation/`, `github_raginator/`, `llm/transcript_synthesis.py`) | the backend's meetings | login, list, create, upload, resolve, add, search, query | a request that was carried out without its answer coming back, and is repeated; two sources, either of which may be down | CompletedIsWhole, OrphansAreEmpty, ConflictIsItsOwn, OneSourceIsEnough, ImplementsLifecycle |
| Admin alerts (`admin/notifier.py`) | `admin_alerts` | alert | a cooldown that is checked and recorded in separate steps, by threads and processes | NoFlood, TellsAgain |
| Start (`main.py`) | the owners this process knows | load_group_owners | asked once; a failure is taken for "no owners" | SettledIsTold, AnsweredUnlessGivenUp |
| VTT parser, templates, settings, logging | none | | text | the outcomes appear, the text does not |

Handing over: the pipeline *calls* the handlers, which write `jobs` and
`outbox`; the worker *reads* `jobs` and never talks to the mail thread
otherwise; the outbox is the only way out, and `message_links` the way back by
which a reply finds its job.

## 2. Modules

`JobStates` has the statuses and the table of transitions. Each module below is
one component; where one component needs another it uses what the other
guarantees, and the comment at the head of the module says what is left to
whom.

| module | models | leaves out |
|---|---|---|
| `JobLifecycle` | both threads on the job rows, statement by statement | the requests of an execution: three steps |
| `JobContract` | what the store promises its readers, with cancellations or without; `JobLifecycle` implements it | threads, files, crashes |
| `Commands` | the verdict about a sender and about a command, as operators | how a command comes about |
| `Request` | one mail from its command to the end of the execution, one HTTP request after another; extends `Commands` and implements the execution steps of `JobLifecycle` | other jobs, cancellation, restarts |
| `Inbox` | the ledger and the flags of incoming mail, the owners a start has got, the fetch that raises, the alerts about strangers with their cooldown | what a job does; alerts of other categories |
| `Outbox` | the two loops over the outbox, the file a results mail names | why another mail was queued |
| `AdminAlerts` | the cooldown of alerts | what the alerts are about |
| `GroupQuestion` | the hint of one job, the options and the answers | the rest of the job |
| `Mailbox` | what fetch and mark do at the provider | how a message is handled |
| `Threads` | which job a mail is about | the handling of the job |
| `WeeklyReport` | the weekly process, the agent beside it, questions about reports | attempts at a mail |

### How state and code correspond

* **JobLifecycle.** A thread is a label (`at`), the job it works on (`on`) and,
  within `set_status`, the status it has read (`read`). The straight parts of
  the handlers are tables from a label to what it does: `SetsStatus` (the
  status it writes), `MovesFile`, `Enqueues`, `Then` (the next statement),
  `Raised` (where an exception leads). The actions `SelectStatus`,
  `UpdateStatus`, `MoveFile`, `NoteFile`, `Enqueue` work from these tables, and
  every branch of the code (`Accept`, `ParseTranscript`, `Cancel`,
  `AnswerQuestion`, `MatchGroup`, `CreateMeeting`, ...) is an action of its own.
  `file` is where the attachment is, `path` what the row says.
* **Inbox.** `route` is the course `_process_message` takes with a message,
  `Then` the order of its steps on that course; `jobs` and `replies` count what
  all attempts together have left behind. `owners` tells whether the last start
  got the list of owners, `Class` what `authorise` makes of a sender then. `mailed`
  are the messages of strangers that the admin was mailed about, `cooling` the one
  whose mail began the cooldown that is running (the row of `admin_alerts`, until
  it is too old to matter), and `hushed` pairs each message whose alert was
  suppressed with that one. `Clogged` says that one of the `Unreadable` messages
  is unread; a fetch that comes upon it raises, which leaves everything as it was
  and therefore is no step of its own: `Poll` just cannot happen with it in the
  list.
* **Outbox.** `batch[f]` is the list loop `f` works from, `counted[f]` the number
  of attempts that `mark_failed` has read, `linked` the rows of `message_links`.
  `file` is where the transcript of one COMPLETED job is and `path` what its row
  says (the worker is between the two statements while they differ), `attached`
  the place a queued mail names, `overtaken` the mails whose file was moved after
  they were queued. `Prepared` is the mail the results handler has in the making,
  which a stop of the agent (`AgentStops`) loses.
* **Request.** `stage` is the next request or computation, or the end; `tries`
  counts the attempts at it and `lost` tells whether one of them was carried out
  although no answer came back. A request ends as `Answered`, `AnswerLost`,
  `Unreached`, `Refused` or `Garbled`; what the code makes of an answer is
  `Proceed`, of an error `Catch`. `uploads` and `attending` are the backend, of
  which the code assumes that adding an attendee twice is a conflict
  (`tests/test_diarisation_client.py:123-129`); `present` are the attendees the
  completion mail will name. An attachment is a stem with an extension and a
  size.
* **AdminAlerts.** Times are kept as ages, counted up to `Cooldown`. `held[a]` is
  the age of the time a call has in hand: first that of the row it has read, then
  that of the clock it will write. `recent[c][n]` are the mails queued in the last
  `n` ticks. The actors are the two threads of the agent and any number of weekly
  processes, which all raise `INFRASTRUCTURE` (`reports/workflow.py:85`).
* **GroupQuestion.** A name is its words, letter case and blanks. `Lower` is
  `match_group`'s comparison and `Normalise` that of `_continue_clarification`.
* **Mailbox.** `provider_ref` is a position for IMAP and the message for Graph.
  `batch` is the list a fetch returned; the order of the list is that of the
  `place` each message had in the mailbox (`Before`: IMAP newest first, Graph
  oldest first). A fetch whose list has an `Unreadable` message is `Blocked`.
* **Threads.** A mail is its position in `mails`, with its References as
  positions of others. `names` are the job ids in its text. `Match` takes the first
  id that hits, in the order in which the code looks: by the least index. The id
  `given` by the language model (`cmd.job_id`, `commands/validator.py:162`) is no
  part of the mail but a choice of the step that handles it, any id or none,
  written down anywhere or not; `Target` lets it go first, as the code does. What
  the agent's own mails say besides the id of their subject (`said`) is the id
  that was not found, the example in the question which job is meant, or whatever
  the model puts into a question of its own.
* **WeeklyReport.** `text` and `evidence` are the sources that the text was
  written from and that the table holds; `made` counts mails ever queued,
  `pending` those still PENDING, `sent` is the set of mails of which the owner
  has a copy. `overlaps` is kept by the model alone: how often a run took up a
  report, in `Check`, while another was in the middle of it (`Working`).

### The line that stops everything

`pipeline.py:321` calls `split` on a tuple and raises for every message of an
authorised sender. As the code stands no such message is dispatched, matched to
a thread or answered (run `InboxReportMatch`). `Inbox` has the constant
`RaisesFor`, the messages for which that line raises: all of `Ids` is the code
as it stands, the empty set the code without that mistake, and `InboxAttempts`
has one message of each kind, which also stands for any other message that the
code can never handle. In `WeeklyReport` the questions about reports lie behind
the line: `MaxReplies = 0` is the code as it stands. `JobLifecycle`,
`GroupQuestion` and `Threads` model what lies behind it too and take the
requests as dispatched, as the tests of the handlers do, and so does `Request`;
`Outbox`, `Mailbox` and `AdminAlerts` do not depend on it.

## 3. Runs

A property that holds on a small instance shows nothing unless a mistake in the
code would break it. For every property of every passing run `PROJECT.json`
names a mutant: a definition marked "Slip" in the module, with a plausible
mistake, by which TLC finds the property violated.

| run | instance | shows |
|---|---|---|
| LifecycleSafety | 2 transcript jobs, cancel and answers, 2 POSTs, 1 fault | SubmittedOnce, RunnableFileInPlace, CompletedIsSubmitted, VerdictIsTrue; KeepsContract: refinement of JobContract |
| LifecycleLiveness | 2 jobs of either operation, all requests, no faults | QueuedIsAnswered |
| RequestPath | 1 mail with up to 2 attachments of 2 stems, 3 speakers, 2 members, 3 attempts | StoredIsSound, CompletedIsWhole, OrphansAreEmpty, ConflictIsItsOwn, OneSourceIsEnough; ImplementsLifecycle: refinement of steps of JobLifecycle |
| InboxAttempts | 2 messages, one delivered twice and one that always raises, and one that cannot be converted, 2 outages, 1 fault, any start without owners, an admin | ReadIsSettled, RepeatsCostFaults, GivingUpCosts, SettledIsTold, UnreadIsRead, AnsweredUnlessGivenUp |
| OutboxFlush | 2 loops, a weekly mail and another, which may name a file, 2 attempts, 2 exceptions, 1 crash | SentIsDelivered, SentIsLinked, GivenUpIsEarned, TranscriptIsAttached, CopiesAreCounted, EventuallySettled |
| AlertCooldown | the mail thread and 2 weekly processes, 2 categories, one of them raised by all three, a cooldown of 2 ticks, 1 stop | NoFlood, TellsAgain |
| GroupAnswers | 2 groups, any of which may be missing, 2 names in all spellings, 2 changes | AnswerSettles, NeverAnotherGroup, QuestionEnds |
| MailboxProviders | IMAP or Graph, 4 messages, of which one cannot be converted, fetches of 2, 1 deletion, 2 faults | SeenIsHandled, OldestFirst, EveryMessageHandled |
| ThreadsOwners | 2 owners, 2 jobs, 6 mails, 1 crash, any id from the model | OwnJobsOnly, ReplyReachesItsJob, ActedIsMentioned |
| WeeklyPeriod | 2 processes, 2 runs for a period, side by side or one after the other, 2 owners who share a group, 1 question, 1 fault | OneReportMail, SnapshotIsSource, SentIsMailed |

Two more runs, in which a property fails, are listed under the disagreements
below. `TypeOK` is checked where more hangs on it than the shape of the state
(that the weekly process sticks to its rows, that a thread knows its last mail),
and proved in the modules that have proofs.

**Bounds.** Faults are bounded because each repeats what the first one did; the
numbers are such that the interesting case happens (three attempts at a message
are used up by outages and a crash, an attempt is interrupted after one already
was, a list is longer than a fetch). Two jobs are enough for the worker to hold
a list with a stale entry. `MaxAttempts` of the outbox is 5 in the code and 2
here: the first failure and the last one. Five mails are the fewest for an
owner to have a second job in the thread of a first and to reply to that, or for
two owners to have one each in a thread; the sixth is the copy that a crash adds.
Owners are `Patient`, writing again only when they have been answered, which
keeps threads that long within reach. `MaxPosts` bounds how often one
execution repeats its POST; one repetition already shows whether the second is
told from the first. `RequestPath` has `MaxAttempts = 3`, so that a lost answer
can be followed by one more failure and by a success; three labels and two
members let two labels be one member while another is a different one; of the
sizes one is above the limit. A cooldown of two ticks lets calls pass each other
within it, which one tick would not; three raisers are the fewest for which a
third can come between two who pass each other, and TLC reaches the bound there. In `WeeklyPeriod` two runs are the
fewest that overlap, and the fewest for a report to be taken up again after a
failure. The two categories of `AlertCooldown` are one that a single actor
raises and one that all do. In `InboxAttempts` the message that is redelivered
is from outside the authorised domains, so that its owner would be dropped
without a word by a start without the owners, and the other is from inside; the
one that cannot be converted may come, be taken away by hand and come again.
There is an admin (`Admins`); without one SettledIsTold says nothing of alerts. The
theorems of section 4 drop these bounds for every safety property, with the
restrictions named there; for liveness, what a larger instance would show is
left open.

**Deadlock** is checked in every run of `JobLifecycle`, `Inbox`, `Outbox` and
`AdminAlerts`, where a loop always has a next round and the clock a next tick. It
is not in those of `GroupQuestion` and `Request` (a job that is filed and a
request that has its outcome are at their end), `Mailbox`, `Threads` and `WeeklyReport`
(the bounded mails, runs and deliveries are used up).

**Fairness.** `JobLifecycle` and `Inbox`, `Mailbox`: weak fairness of each
thread as a whole, since both loops of `main.py` run until the process stops and
neither waits for the other; nothing is assumed of senders, nor that any fault
happens or ends (faults are bounded), nor that a start ever gets the owners. In
`Inbox` a poll is only counted on while no unread message makes the fetch raise
(`Poll /\ ~Clogged`); in `Mailbox` a blocked fetch is disabled, and the fairness
of the thread asks nothing of it. Nobody is assumed to take such a message away. `Outbox`: weak fairness of the agent's
flush. A poll that raises skips the flush of its round (`main.py:166-175`), so
this assumes that polls do not fail for ever, as they do while a message that
cannot be converted is unread; nothing is assumed of the weekly
process or of the worker. `AdminAlerts`: the clock goes on, and a call that has
begun goes on to its end; nobody has to raise an alert. `GroupQuestion`: the sender is assumed to hit on an accepted answer at
last, if there is one; without this a question may stay open, rightly.

### Where the code and its documents disagree

Two of them are runs that TLC ends with a counterexample; `PROJECT.json` quotes
the lines that say otherwise.

| run | what happens |
|---|---|
| InboxReportMatch | no authorised message is ever answered |
| WeeklyLost | stopped between QUEUED and the outbox: the report is never mailed |

The others show as the condition without which a property would fail:

* *The owner reads "cancelled", and the meeting is made all the same.* A
  cancellation that falls between SELECT and UPDATE (`jobs/store.py:136`) and an
  execution overwrite each other, although cancelling is meant to work until
  processing starts (`handlers/cancel.py:9-11`, `README.md:201-202`) and
  CANCELLED to be final (`jobs/models.py:21-23`). KeepsContract admits exactly
  these steps (`Overwrites`), and the proofs show that there are no others.
* *A job that was PROCESSING at a restart stays so for ever*, because the worker
  lists QUEUED rows only: QueuedIsAnswered is checked without crashes.
* *A start while the backend is down takes every owner for a stranger.* The list
  of owners is asked for once (`main.py:63-94`); until the next restart an owner
  is answered "not registered" or dropped, his mail is final and read, and is not
  looked at again when the owners are there. AnsweredUnlessGivenUp excepts it;
  SettledIsTold says what the admin hears of them: as much as of strangers.
* *One message that cannot be converted stops all incoming mail*, although
  `pipeline.py:95-97` has it that a single malformed message must never take down
  polling for every other message in the batch. The fetch converts all messages of
  the list, outside of the try statement of `poll_once` (`pipeline.py:91`), and
  raises for a charset that Python does not know (`mail/imap_client.py:136-150`)
  or attachments that cannot be had (`mail/graph_client.py:189-194`), in every
  round; the flush behind it in `main.py:170-171` is skipped as well. UnreadIsRead,
  AnsweredUnlessGivenUp and EveryMessageHandled except the time in which such a
  message is unread (`Clogged`, `Blocked`).
* *The admin is not told of every stranger*: within the cooldown
  (`admin/notifier.py:46-49`) of one alert the next strangers are settled without
  a mail, and nothing of them is kept for a later one. SettledIsTold says that
  there was a mail about another stranger in the same cooldown (`Known`).
* *A job is acted on that nobody mentioned*, if the language model gives its id:
  the model is told never to invent one (`llm/prompt.py:56-57`), and where the
  agent is not sure it is to ask and never to guess (`commands/validator.py:36`),
  but the id is checked for its owner only (`commands/validator.py:162-169`).
  ActedIsMentioned is about mails for which the model gives no id.
* *Two jobs from one mail*, stopped after `create_job` and handled again:
  RepeatsCostFaults allows one for each fault.
* *Three polls without Ollama, and the mail is marked read unhandled, and flagged
  to nobody*, although `jobs/store.py:25-26` has it flagged to the admin:
  GivingUpCosts asks for three failed attempts, not for three failures of the
  message itself, and AnsweredUnlessGivenUp excepts what was given up.
* *A second copy that is sent until the attempts are used up and the row is
  FAILED, or revived by the other loop after it was given up*:
  `message_links.outbox_id` is UNIQUE, so recording a second copy raises, which
  counts as a failed attempt and leads to a third. CopiesAreCounted holds for
  the rows that one loop alone sends.
* *Results asked for in the moment the job completes are never sent*: the mail
  names the file in `processing/` (`handlers/results.py:34-36`), the worker moves
  it, and every attempt at the mail raises until it is given up, silently.
  GivenUpIsEarned names these mails (`overtaken`).
* *After a stop between the move and the row, all results go without the
  transcript*: TranscriptIsAttached excepts crashes.
* *An attendee who was added fails the job*: when the answer to `add_attendee`
  got lost, or two labels are the same member, the backend's 409 is a final
  error, and the job is FAILED with its meeting and transcript in place.
  ConflictIsItsOwn says that these are the two ways to it.
* *One source does take the other's answer with it*, when Ollama is down during
  the synthesis or an answer of a source is garbled, although a source that
  fails is to be left out (`handlers/assess_query.py:8-10`, `README.md:51-53`):
  OneSourceIsEnough names both cases.
* *More than one alert per cooldown*: raisers of a category can pass the check
  together, an older time is written last, and all who have written pass once more.
  With `n` raisers NoFlood has 1 + 2 + ... + n as the bound, which is proved; TLC
  finds that with three of them five would not do.
* *Two weekly processes that overlap mail the same report twice*: OneReportMail
  allows one mail more for each time that a run takes up a report another is at,
  and SnapshotIsSource is about reports on which no runs overlapped.
* *Under IMAP a deletion shifts the sequence numbers, an unhandled mail is marked
  read, and the newest mail is handed out first*, where `mail/base.py:46` asks for
  the oldest: the properties of `Mailbox` except the mailboxes that are
  `Shifted`, and OldestFirst is about Graph only.
* *A reply to a mail that has no link may be taken to be about another job of the
  thread*: ReplyReachesItsJob is about mails that are linked.
* *The exact name of a group is refused as an answer*, if another one looks alike
  under `Normalise`, and *a question put before the sender had a group can never
  be answered*: QuestionEnds is about questions that stay `Clear`.

Other consequences of the weekly code that no document denies: of two owners of
a group only the first one is mailed; a report the agent's loop sends stays
QUEUED; an answer that the weekly process sends calls even a FAILED report SENT
(which is why SentIsMailed speaks of reports that no answer was made about); a
failed report is taken up again only by a run with the same period.

## 4. Proofs

`tlapm` checks eight modules, one for each component (`JobLifecycleProofs` has
GroupQuestion as well); the theorems hold for all values of the constants that the assumptions named in the
modules allow. Each follows one pattern: an inductive invariant, a lemma per
actor, action or conjunct that the steps keep it, one proof step per action. The
modules the proofs are about have no recursive operator.

* **JobLifecycleProofs.** `JobInv` says what each status means for the file,
  the backend and the worker (`RowInv`), and what each label of the worker and
  of the mail thread means for the job they are at (`WorkerInv`, `MailInv`). It
  is needed because the properties speak of rows while what keeps them true is
  where the worker is: SubmittedOnce holds only because a row that can be queued
  again is `Released` by the worker. Its hardest part is CANCELLED, which a race
  can put in place of any status: the clauses admit it wherever a thread has
  read a status it has not written yet. `Agreement` proves it; SubmittedOnce,
  CompletedIsSubmitted, RunnableFileInPlace and VerdictIsTrue are consequences.
  `RaceInv` adds what a status is still worth between SELECT and UPDATE.
  `ImplementsContract` maps each step to a step of JobContract or to none,
  whatever is asked of the agent: for agents that may be asked to cancel the
  contract is the one with `Overwrites`, for others the bare table
  (`TableHoldsWithoutCancel`).
* **InboxProofs.** `LedgerInv` balances the books: the jobs and replies beyond
  the first that a message has are at most the faults that happened, with the
  attempt in hand counted separately (`AttemptInv`, `HandInv`). A sender counts
  by the class he has for the process that is running (`SameClass`: it does not
  change under way), so that the theorems hold with the owners and without.
  `CoolingInv` says that a cooldown was begun by a mail, by which a suppressed alert
  counts as `Known`. From it:
  ReadIsSettled, RepeatsCostFaults, SettledIsTold and, for the messages for
  which the lookup of reports does not raise, GivingUpCosts.
* **WeeklyProofs.** Any number of processes may overlap. `Claims` adds up, for
  each report, the mails there are, the processes that are about to queue one
  (`Mailing`), those at an earlier statement (`Making`), and one more as long as
  the report is not done and nobody is making it, for then somebody may take it
  up. No statement but `Check` raises the sum: what a process writes moves a claim
  from one summand to the next, and a failure turns the claim of whoever fails
  into that of the next run. `Check` raises it only if another process is at the
  report, which is what `overlaps` counts. So `ReportInv` has the sum at most
  `1 + overlaps`, and OneReportMail follows (`AloneItIsOne`: it is one for a single
  process). Where nothing overlapped the same sum shows that whoever is at a report
  has it to himself and that it has not been mailed; `WorkInv` then says how far he
  has got, which gives SnapshotIsSource and MailedIsDone (a mailed report is not
  taken up again). `MailInv` gives SentIsMailed, until a question about the report
  is answered. Sets are counted with the library's theorems on cardinalities; the
  assumption is that the processes are finitely many.
* **AlertProofs.** The bound of NoFlood holds for any cooldown, any number of
  actors and any number of stops, by a budget (`Budget`) for every length of time
  `x` up to the cooldown. `Tokens` are the actors who may queue a mail as things
  are: they have passed the check, or hold a time to check that is `x` ticks old,
  or would read one. A mail costs its sender his token. They come back all at once
  when someone writes a time that is `x` ticks old; whoever holds such a time is not
  `Free`, and becomes so by writing it, so that the number of free actors bounds how
  often that can have happened. The mails of the last `x` ticks and the tokens
  together are at most 1 + 2 + ... + (free actors), and the stops. The clock turns
  the budget for `x - 1` into the one for `x` (`TickKeeps`), which is why it is
  stated for all lengths at once.
* **GroupQuestion** is in the last part of `JobLifecycleProofs`, which extends both
  modules. `AnswerInv`: the accepted answer is an option like no other under
  `Normalise`, hence under the finer `Lower` too; this is why a job whose question
  was answered is not asked again, which `JobLifecycle` relies on in `MatchGroup`
  (`GroupsChange` = FALSE).
* **OutboxProofs.** The properties speak of rows, and what makes them true is
  which statement of `flush_outbox` each loop is at: `NotedIsDelivered` and
  `RespondedIsLinked` say what has happened by then, `AttemptsAreRaised` that each
  attempt a column or a variable counts has had its exception (`Uncounted` is the
  one that is met and not yet written down), which gives GivenUpIsEarned although
  two loops write the column at once. CopiesAreCounted is about the rows of one
  loop: `RestingCopies` bounds their copies while nobody sends them,
  `SendingCopies` statement by statement, and `BatchIsPending` says that what is
  left of the list is still PENDING. `FileFollowsTail` ties what the results
  handler has read to how far the worker has got with the file; TranscriptIsAttached
  follows from it as long as nothing crashed.
* **ThreadsProofs.** `ThreadsRunBack`: a mail refers only to mails before it and
  to its parent among them; `RecordsAreTrue`: links, last mails and drafts name the
  job in the subject of the mail they are about, so that no mail is linked to
  two jobs. From these, ReplyReachesItsJob (`MatchFollowsLink`: the parent's link is the
  first hit), OwnJobsOnly and ActedIsMentioned (`MatchIsMentioned`: what `Match` finds stands in
  the text or in the subject of a mail of the thread), for any owners, jobs and mails,
  any id that the language model may give, `Patient` or not.
* **MailboxProofs.** `NamesAreTrue`: until another program has shifted the
  sequence numbers, the name by which a fetched message will be marked is still its
  own; with `LedgerIsHandled` and `MarkedIsHandled` it gives SeenIsHandled.
  `BatchIsOldest` (what is older than a listed message has been begun or stands before it)
  gives OldestFirst, for every limit; that a fetch takes an initial segment of the unread
  (`ListedIsInitial`) is by the cardinalities of the sets of older messages.
  `Mailbox` has at most two faults, with which no message uses up the attempts that
  `Inbox` counts; a message that was given up is finalised without being handled.
* **RequestProofs.** `MeetingIsBuilt` says how far the meeting has got at each
  stage, against the number of attempts: each attempt but the current one has left
  one meeting, or one copy of the file, at most, which is why the orphans are empty
  and few. `AttendeesAreAdded`: the speakers with a member are those who have been added
  and those still to be, each once, and the backend is ahead of them by one if an answer was lost;
  CompletedIsWhole and ConflictIsItsOwn rest on it. `CommandIsChecked` and the lemmas on
  `validate_command` (`MatchedIsThere`, `RealIsSound`) give StoredIsSound,
  `SourcesInTurn` OneSourceIsEnough. `ShrinksToLifecycle` is the refinement:
  `WhereTo` lists where each stage may lead, `PhaseOf` what the stages are to the
  worker of `JobLifecycle`, and `LifecycleStep` maps each request to `MatchGroup`,
  `CreateMeeting`, `UploadTranscript`, `QuerySources` or to no step at all.

That a first match is the first, in `Threads` and in `Request`, is the lemma
`LeastIsFirst`: of a set of numbers one is the least, because `<` on the naturals is
well-founded. `TypeOK` of each module is proved as well, for `Mailbox` and `Request` only there.

Model-checked only: the liveness properties, QueuedIsAnswered, UnreadIsRead,
AnsweredUnlessGivenUp, EventuallySettled, TellsAgain, QuestionEnds and
EveryMessageHandled, because fairness and ENABLED are outside the prover's reach.

## 5. Not modelled, and why

* The wording of mails, the grammar of VTT, dates and JSON, MIME, prompts, the
  spelling of addresses: text. Their outcomes (accepted, refused, raises) are
  choices.
* The tokens of the providers, SMTP and IMAP sessions, the delays between
  attempts: an exception or a success. `gmail_client.py` repeats
  `imap_client.py` with another host; `fake_client.py` is for tests.
* Reading the configuration: its values are the constants. Logging: nothing
  reads it.
* An owner who is registered or removed while the agent runs: the list is read
  at the start only, so such an owner is what he was at the start.
* The four queries of the collector's two threads: they only read, and are one
  step of `WeeklyReport`.

## 6. Plan

Done, in this order, the most important first: JobLifecycle with its contract,
Inbox, Outbox with the files of results mails, WeeklyReport, Mailbox, Threads,
GroupQuestion, AdminAlerts, Commands and Request with its refinement of
JobLifecycle's steps; proofs of JobLifecycle, Inbox, WeeklyReport, GroupQuestion,
Outbox, Threads, Mailbox, Request and AdminAlerts; the proofs of WeeklyReport again,
for processes that overlap.

Next: a composition of Inbox and JobLifecycle in which the requests of the second
are the dispatches of the first.

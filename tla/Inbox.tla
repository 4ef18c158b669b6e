------------------------------- MODULE Inbox -------------------------------
(***************************************************************************)
(* Incoming mail: Pipeline.poll_once and _process_message (app/pipeline.py *)
(* 90-233) over the mailbox of the provider (its unread flags) and the     *)
(* ledger processed_messages (ProcessedMessageStore, app/jobs/store.py).   *)
(* The flag and the ledger are written in separate steps, and the process  *)
(* can stop between any two, so that a message is handled again; what each *)
(* attempt leaves behind is counted here.  What becomes of a job once it   *)
(* exists is the subject of JobLifecycle.  Who is a group owner is asked   *)
(* once, when the process starts (load_group_owners, app/main.py).         *)
(* Whether an alert becomes a mail to the administrator depends on the     *)
(* cooldown of its category, a row of the database.  Only the category     *)
(* unauthorised_sender is followed that far: an alert of llm_parse_failure *)
(* is a step without effect, that of infrastructure (pipeline.py:166) is   *)
(* left out.  AdminAlerts has the calls of all of them, which may overlap. *)
(***************************************************************************)
EXTENDS Naturals

CONSTANTS
  Ids,         \* Message-IDs, the key of the ledger
  Copies,      \* deliveries of one Message-ID by the provider, at most
  Redelivered, \* the messages that are delivered more than once
  RaisesFor,   \* the messages for which pipeline.py:321 raises: Ids in
               \* the code as it stands (a tuple has no split()), {}
               \* without that mistake
  Outside,     \* the messages whose From address is in none of the domains
               \* of AUTHORISED_EMAIL_DOMAINS
  Unreadable,  \* the messages that fetch_new_messages cannot convert: an
               \* unknown charset (imap_client.py:136), attachments that
               \* cannot be had (graph_client.py:194)
  Admins,      \* is ADMIN_EMAIL set?  Some of TRUE and FALSE
  MaxOutages,  \* bound on attempts that find Ollama unavailable
  MaxFaults    \* bound on crashes and exceptions

ASSUME InboxAssumption ==
  /\ Ids # {} /\ RaisesFor \subseteq Ids /\ Outside \subseteq Ids
  /\ Unreadable \subseteq Ids /\ Admins \subseteq BOOLEAN /\ Admins # {}
  /\ Copies \in Nat \ {0} /\ Redelivered \subseteq Ids
  /\ MaxOutages \in Nat /\ MaxFaults \in Nat

VARIABLES
  sender,    \* sender[i]: how authorise() classifies the sender of i, given
             \* all the owners that the backend knows
  owners,    \* are the group owners "loaded", or did asking for them fail?
  admin,     \* is there an address for alerts?
  mailbox,   \* mailbox[e]: has entry e arrived, and is it still unread?
  outcome,   \* outcome[i]: processed_messages.outcome, or "none" without a row
  attempts,  \* attempts[i]: processed_messages.attempt_count
  jobs,      \* jobs[i]: rows of jobs that create_job made for message i
  replies,   \* replies[i]: mails queued for the sender in answer to i
  mailed,    \* the strangers' messages that the admin was mailed about
  hushed,    \* <<i, j>>: an alert about i came in the cooldown that the mail
             \* about j had begun
  cooling,   \* the message whose mail began the cooldown that is running
             \* (admin_alerts.last_sent_at), or nothing
  batch,     \* what is left of the list fetch_new_messages() returned
  at, on,    \* the next statement of the mail thread, and its entry
  route,     \* the course _process_message takes with that entry
  outages, faults

ledger == <<outcome, attempts>>
alerts == <<mailed, hushed, cooling>>
traces == <<jobs, replies, alerts>>
setup  == <<sender, owners, admin>>
thread == <<batch, at, on, route>>
vars   == <<setup, mailbox, ledger, traces, thread, outages, faults>>

MAX_PROCESSING_ATTEMPTS == 3

Entry  == {e \in Ids \X (1..Copies) : e[2] = 1 \/ e[1] \in Redelivered}
Sender == {"authorised", "in_domain", "rejected"}
Label  == {"idle", "route", "job", "reply", "alert", "record", "finalize", "mark"}

\* The message in hand.
Msg == on[1]

\* What load_group_owners can come back with.
LoadOwners == {"loaded", "none"}

\* authorise(), with the owners this process has: without them an owner is
\* like anybody else with his address.
Class(i) ==
  IF sender[i] = "authorised" /\ owners = "none"
    THEN IF i \in Outside THEN "rejected" ELSE "in_domain"
    ELSE sender[i]

-----------------------------------------------------------------------------
(* The courses of _process_message.  "submit" is any dispatch that makes a *)
(* job; "answer" is all that makes none and queues one mail: a question, a *)
(* rejection, status, results, cancel, help, the answer to a clarification *)
(* and to a weekly report.  "skip" is a message begin() refuses.           *)
Route  == {"skip", "unrecognised", "rejected", "unparsed", "answer", "submit"}

RoutesOf(s) ==
  CASE s = "in_domain" -> {"unrecognised"}
    [] s = "rejected"  -> {"rejected"}
    [] OTHER           -> {"unparsed", "answer", "submit"}

First(r) ==
  CASE r = "submit"   -> "job"
    [] r = "rejected" -> "alert"
    [] r = "skip"     -> "mark"
    [] OTHER          -> "reply"

\* (Slip: the mail is marked before it is finalised.  The definitions marked
\* like this are no part of the model: each is the operator after it with a
\* plausible mistake, which the properties must be able to notice.)
ThenMarkFirst(l, r) ==
  CASE l = "job"      -> "reply"
    [] l = "reply"    -> IF r = "unrecognised" THEN "alert" ELSE "mark"
    [] l \in {"alert", "record"} -> IF r = "unparsed" THEN "idle" ELSE "mark"
    [] l = "mark"     -> "finalize"
    [] OTHER          -> IF r = "unparsed" THEN "alert" ELSE "idle"

\* (Slip: a stranger from the domain is not reported.)
ThenUnreported(l, r) ==
  CASE l = "job"      -> "reply"
    [] l = "reply"    -> "finalize"
    [] l \in {"alert", "record"} -> IF r = "unparsed" THEN "idle" ELSE "finalize"
    [] l = "finalize" -> "mark"
    [] OTHER          -> IF r = "unparsed" THEN "alert" ELSE "idle"

\* The order of the statements; only a message that could not be parsed is
\* reported to the admin after everything else.
Then(l, r) ==
  CASE l = "job"      -> "reply"
    [] l = "reply"    -> IF r = "unrecognised" THEN "alert" ELSE "finalize"
    [] l \in {"alert", "record"} -> IF r = "unparsed" THEN "idle" ELSE "finalize"
    [] l = "finalize" -> "mark"
    [] OTHER          -> IF r = "unparsed" THEN "alert" ELSE "idle"

Step == at' = Then(at, route) /\ UNCHANGED <<batch, on, route>>
Drop == at' = "idle" /\ UNCHANGED <<batch, on, route>>

-----------------------------------------------------------------------------
Init ==
  /\ sender \in [Ids -> Sender]
  /\ \A i \in Outside : sender[i] # "in_domain"
  /\ \A i \in Unreadable : sender[i] = "rejected"  \* nobody will ever ask
  /\ owners \in LoadOwners /\ admin \in Admins
  /\ mailbox = [e \in Entry |-> "absent"]
  /\ outcome = [i \in Ids |-> "none"]
  /\ attempts = [i \in Ids |-> 0]
  /\ jobs = [i \in Ids |-> 0]
  /\ replies = [i \in Ids |-> 0]
  /\ mailed = {} /\ hushed = {} /\ cooling = {}
  /\ batch = {}
  /\ at = "idle" /\ on = (CHOOSE e \in Entry : TRUE) /\ route = "skip"
  /\ outages = 0 /\ faults = 0

(* The provider delivers a message, possibly once more.                    *)
Deliver(e) ==
  /\ mailbox[e] = "absent"
  /\ mailbox' = [mailbox EXCEPT ![e] = "unread"]
  /\ UNCHANGED <<setup, ledger, traces, thread, outages, faults>>

(* Somebody opens or deletes, in another mail program, a message that the  *)
(* agent cannot read.  Another one may come in its place.                  *)
RemoveByHand(e) ==
  /\ mailbox[e] = "unread" /\ e[1] \in Unreadable
  /\ mailbox' = [mailbox EXCEPT ![e] = "absent"]
  /\ UNCHANGED <<setup, ledger, traces, thread, outages, faults>>

\* An unreadable message is among the unread ones.
Clogged == \E e \in Entry : mailbox[e] = "unread" /\ e[1] \in Unreadable

(* poll_once fetches unread mail.  Which, and in what order, is up to the  *)
(* provider: there is a limit, messages that cannot be fetched are passed  *)
(* over, and the clients do not agree on the order.  But if one of the     *)
(* messages cannot be converted, fetch_new_messages raises, outside of the *)
(* try statement of poll_once, and there is no list at all.                *)
Poll ==
  /\ at = "idle" /\ batch = {}
  /\ \E found \in SUBSET {e \in Entry : mailbox[e] = "unread"} :
       /\ \A e \in found : e[1] \notin Unreadable
       /\ batch' = found
  /\ UNCHANGED <<setup, mailbox, ledger, traces, at, on, route, outages, faults>>

\* What ProcessedMessageStore.begin answers, given a message it has not seen
\* and one it may try again.
Opens(i, retriable) ==
  IF outcome[i] = "none" \/ retriable
    THEN /\ outcome' = [outcome EXCEPT ![i] = "in_progress"]
         /\ attempts' = [attempts EXCEPT ![i] = @ + 1]
         /\ at' = "route" /\ UNCHANGED route
    ELSE /\ at' = "mark" /\ route' = "skip"
         /\ UNCHANGED ledger

\* The next entry of the batch.
Take(e) ==
  /\ at = "idle" /\ e \in batch
  /\ batch' = batch \ {e}
  /\ on' = e
  /\ UNCHANGED <<setup, mailbox, traces, outages, faults>>

\* (Slip: one attempt too few.)
BeginOneShort(e) ==
  /\ Take(e)
  /\ Opens(e[1], outcome[e[1]] = "in_progress"
                   /\ attempts[e[1]] + 1 < MAX_PROCESSING_ATTEMPTS)

\* (Slip: only the attempts count, not the outcome.)
BeginReopens(e) == Take(e) /\ Opens(e[1], attempts[e[1]] < MAX_PROCESSING_ATTEMPTS)

\* (Slip: a refused message is left unread.)
BeginLeavesUnread(e) ==
  /\ Take(e)
  /\ IF outcome[e[1]] = "none"
       THEN Opens(e[1], FALSE)
       ELSE at' = "idle" /\ UNCHANGED <<ledger, route>>

(* begin(): a new row, another attempt at one that is in progress, or a    *)
(* message that is done with and only has to be marked.                    *)
Begin(e) ==
  /\ Take(e)
  /\ Opens(e[1], outcome[e[1]] = "in_progress"
                   /\ attempts[e[1]] < MAX_PROCESSING_ATTEMPTS)

(* The tests of _process_message, in one step: they change nothing.  Which *)
(* course a known sender's message takes is decided by the language model, *)
(* anew in each attempt.                                                   *)
ChooseRoute ==
  /\ at = "route"
  /\ Class(Msg) = "authorised" => Msg \notin RaisesFor
  /\ \E r \in RoutesOf(Class(Msg)) : route' = r /\ at' = First(r)
  /\ UNCHANGED <<setup, mailbox, ledger, traces, batch, on, outages, faults>>

(* Ollama is unavailable: the message is left in progress and unread.      *)
Defer ==
  /\ at = "route"
  /\ Class(Msg) = "authorised" /\ Msg \notin RaisesFor
  /\ outages < MaxOutages
  /\ outages' = outages + 1
  /\ Drop
  /\ UNCHANGED <<setup, mailbox, ledger, traces, faults>>

(* _match_report raises for every message that gets that far.              *)
MatchReportRaises ==
  /\ at = "route"
  /\ Class(Msg) = "authorised" /\ Msg \in RaisesFor
  /\ Drop
  /\ UNCHANGED <<setup, mailbox, ledger, traces, outages, faults>>

CreateJob ==
  /\ at = "job"
  /\ jobs' = [jobs EXCEPT ![Msg] = @ + 1]
  /\ Step
  /\ UNCHANGED <<setup, mailbox, ledger, replies, alerts, outages, faults>>

Reply ==
  /\ at = "reply"
  /\ replies' = [replies EXCEPT ![Msg] = @ + 1]
  /\ Step
  /\ UNCHANGED <<setup, mailbox, ledger, jobs, alerts, outages, faults>>

\* The alert about the message in hand is one about a stranger.
Stranger == Class(Msg) # "authorised"

(* AdminNotifier.alert(): a mail, unless there is nobody to write to or    *)
(* the cooldown of the category is running; ...                            *)
Alert ==
  /\ at = "alert"
  /\ IF Stranger /\ admin /\ cooling = {}
       THEN /\ mailed' = mailed \cup {Msg}
            /\ at' = "record" /\ UNCHANGED <<batch, on, route, hushed>>
       ELSE /\ hushed' = hushed \cup {<<Msg, j>> : j \in IF Stranger THEN cooling ELSE {}}
            /\ Step /\ UNCHANGED mailed
  /\ UNCHANGED <<setup, mailbox, ledger, jobs, replies, cooling, outages, faults>>

(* ... _record_sent() begins the next cooldown, ...                        *)
RecordSent ==
  /\ at = "record"
  /\ cooling' = {Msg}
  /\ Step
  /\ UNCHANGED <<setup, mailbox, ledger, jobs, replies, mailed, hushed, outages, faults>>

(* ... which passes.                                                       *)
CooldownEnds ==
  /\ cooling # {} /\ cooling' = {}
  /\ UNCHANGED <<setup, mailbox, ledger, jobs, replies, mailed, hushed, thread, outages, faults>>

Finalize ==
  /\ at = "finalize"
  /\ outcome' = [outcome EXCEPT ![Msg] = "final"]
  /\ Step
  /\ UNCHANGED <<setup, mailbox, attempts, traces, outages, faults>>

MarkProcessed ==
  /\ at = "mark"
  /\ mailbox' = [mailbox EXCEPT ![on] = "read"]
  /\ Step
  /\ UNCHANGED <<setup, ledger, traces, outages, faults>>

(* Any statement may raise (the disk, the provider, Ollama half-way, the   *)
(* cancellation of a job that has just been started): poll_once goes on    *)
(* with the next entry.                                                    *)
Raise ==
  /\ at # "idle"
  /\ faults < MaxFaults
  /\ faults' = faults + 1
  /\ Drop
  /\ UNCHANGED <<setup, mailbox, ledger, traces, outages>>

(* The process stops and is started again; it asks for the owners, and     *)
(* goes on without any if the backend does not answer.                     *)
Crash ==
  /\ faults < MaxFaults
  /\ faults' = faults + 1
  /\ at' = "idle" /\ batch' = {}
  /\ owners' \in LoadOwners
  /\ UNCHANGED <<sender, admin, mailbox, ledger, traces, on, route, outages>>

Handle ==
  \/ \E e \in Entry : Begin(e)
  \/ ChooseRoute \/ Defer \/ MatchReportRaises
  \/ CreateJob \/ Reply \/ Alert \/ RecordSent \/ Finalize \/ MarkProcessed

Next ==
  \/ Poll \/ Handle \/ Raise \/ Crash
  \/ (\E e \in Entry : Deliver(e) \/ RemoveByHand(e)) \/ CooldownEnds

Spec == Init /\ [][Next]_vars

(* The mail loop of main.py:166-175 polls until the process is stopped.    *)
(* Nothing says that a fetch comes back with mail while one of the unread  *)
(* messages may make it raise.                                             *)
FairSpec == Spec /\ WF_vars(Handle) /\ WF_vars(Poll /\ ~Clogged)

-----------------------------------------------------------------------------
(* Properties.                                                             *)

\* The shape of the state, and the budget no message exceeds.
TypeOK ==
  /\ sender \in [Ids -> Sender] /\ owners \in LoadOwners /\ admin \in BOOLEAN
  /\ mailbox \in [Entry -> {"absent", "unread", "read"}]
  /\ outcome \in [Ids -> {"none", "in_progress", "final"}]
  /\ attempts \in [Ids -> 0..MAX_PROCESSING_ATTEMPTS]
  /\ jobs \in [Ids -> Nat] /\ replies \in [Ids -> Nat]
  /\ mailed \subseteq Ids /\ hushed \subseteq Ids \X Ids /\ cooling \subseteq Ids
  /\ batch \subseteq Entry
  /\ at \in Label /\ on \in Entry /\ route \in Route
  /\ outages \in 0..MaxOutages /\ faults \in 0..MaxFaults

\* No mail is taken off the unread list before its ledger row says that it
\* is done with, so that a crash at any moment leaves it to be found again.
ReadIsSettled ==
  \A e \in Entry : mailbox[e] = "read" =>
    \/ outcome[e[1]] = "final"
    \/ attempts[e[1]] = MAX_PROCESSING_ATTEMPTS

\* Redelivery and repeated polling alone never repeat anything: every job
\* and every answer beyond the first that one message causes is owed to a
\* crash or an exception in the middle of an attempt.
RepeatsCostFaults ==
  \A i \in Ids : jobs[i] <= 1 + faults /\ replies[i] <= 1 + faults

\* A message is given up only after as many interrupted attempts as
\* MAX_PROCESSING_ATTEMPTS; no redelivery eats up the budget.  (Where
\* pipeline.py:321 raises, every attempt is interrupted.)
GivingUpCosts ==
  \A e \in Entry : mailbox[e] = "read" /\ outcome[e[1]] # "final" /\ e[1] \notin RaisesFor =>
    faults + outages >= MAX_PROCESSING_ATTEMPTS

\* The admin has been mailed about i, or had been mailed about another
\* stranger, in whose cooldown an alert about i came.
Known(i) == i \in mailed \/ \E j \in mailed : <<i, j>> \in hushed

\* No mail vanishes.  A finalised message has had its whole effect, also when
\* the attempt that finalised it was not the first.  A stranger, or a sender
\* who has no answer, has come to the notice of the admin, if there is one: he
\* has a mail about the message, or one about another stranger in the same
\* cooldown.  This includes an owner's mail that was dropped because the
\* owners had not been loaded.
SettledIsTold ==
  \A i \in Ids : outcome[i] = "final" =>
    /\ sender[i] = "rejected" => replies[i] = 0
    /\ sender[i] = "in_domain" => replies[i] > 0
    /\ admin /\ (sender[i] # "authorised" \/ replies[i] = 0) => Known(i)

\* No mail that can be read stays unread for ever, whatever Ollama, the sender
\* and the faults do, unless unreadable messages stay in the mailbox or come
\* again and again: when somebody takes them away, what is behind them is read.
UnreadIsRead ==
  \/ []<>Clogged
  \/ \A e \in Entry :
       mailbox[e] = "unread" /\ e[1] \notin Unreadable ~> mailbox[e] = "read"

\* Whatever else fails, an owner gets an answer as long as the failures do
\* not use up the attempts at his message, the process has the owners, and no
\* unreadable message is in the way.  A start without the owners loses the
\* mail it reads for good, however soon the backend is back: what it has
\* dropped is final, for redeliveries too.
AnsweredUnlessGivenUp ==
  \/ []<>Clogged
  \/ \A e \in Entry :
       /\ mailbox[e] = "unread" /\ outcome[e[1]] # "final"
       /\ sender[e[1]] = "authorised" /\ e[1] \notin RaisesFor
       ~>
         \/ replies[e[1]] > 0
         \/ faults + outages >= MAX_PROCESSING_ATTEMPTS
         \/ owners = "none"

\* README.md:28-32: a known sender gets an answer.
AuthorisedIsAnswered ==
  \A e \in Entry : mailbox[e] = "unread" /\ sender[e[1]] = "authorised" ~>
                     replies[e[1]] > 0

-----------------------------------------------------------------------------
(* The inductive invariant behind the safety properties: what an attempt   *)
(* that is under way has done so far, and what the interrupted ones cost.  *)

\* Message i is in hand and not finalised yet.
InHand(i) == at \in {"route", "job", "reply", "alert", "record", "finalize"}
               /\ Msg = i /\ outcome[i] # "final"

AttemptInv(i) ==
  /\ outcome[i] = "none" => attempts[i] = 0 /\ jobs[i] = 0 /\ replies[i] = 0
  /\ outcome[i] = "in_progress" /\ ~InHand(i) => jobs[i] <= faults /\ replies[i] <= faults
  /\ i \in RaisesFor \/ outcome[i] # "in_progress"
       \/ attempts[i] <= faults + outages + (IF InHand(i) THEN 1 ELSE 0)
  /\ jobs[i] <= 1 + faults /\ replies[i] <= 1 + faults
  /\ replies[i] > 0 => sender[i] # "rejected"
  /\ InHand(i) => \A e \in Entry : e[1] = i => mailbox[e] # "read"

HandInv ==
  /\ at \in {"route", "job", "reply", "finalize"} => outcome[Msg] = "in_progress"
  /\ at \in {"route", "job"} => jobs[Msg] <= faults
  /\ at \in {"route", "job", "reply"} => replies[Msg] <= faults
  /\ at \in {"job", "reply"} => Class(Msg) # "rejected"
  /\ at \in {"alert", "record"} /\ Class(Msg) = "in_domain" => replies[Msg] > 0
  /\ at \in {"alert", "record"} /\ Class(Msg) # "authorised" => outcome[Msg] = "in_progress"
  /\ at \in {"alert", "record"} /\ Class(Msg) = "authorised" =>
       outcome[Msg] = "final" /\ route = "unparsed"
  /\ at = "record" => Msg \in mailed /\ Stranger
  /\ at = "finalize" => Class(Msg) = "rejected" \/ replies[Msg] > 0
  /\ at = "finalize" /\ Class(Msg) # "authorised" /\ admin => Known(Msg)
  /\ at = "mark" => outcome[Msg] = "final" \/ attempts[Msg] = MAX_PROCESSING_ATTEMPTS
  /\ at = "mark" /\ route # "skip" => outcome[Msg] = "final"
  /\ at \notin {"idle", "route"} => route \in RoutesOf(Class(Msg)) \cup {"skip"}
  /\ at \in {"job", "reply", "alert", "record", "finalize"} => route # "skip"

\* A cooldown is begun by a mail.
CoolingInv == cooling \subseteq mailed

LedgerInv ==
  /\ \A i \in Ids : AttemptInv(i)
  /\ HandInv /\ CoolingInv
  /\ ReadIsSettled /\ SettledIsTold
=============================================================================

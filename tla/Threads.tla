------------------------------ MODULE Threads ------------------------------
(***************************************************************************)
(* Which job a mail is about.  Owners write, reply to and quote mails; the *)
(* agent finds the job of a reply by the Message-IDs it recorded when it   *)
(* sent its own mails, or by a job id in the text (ThreadMatcher,          *)
(* app/mail/thread_matcher.py), and the validator lets the id that the     *)
(* language model gives go before that (app/commands/validator.py          *)
(* 159-182).  The model is told to give only what the sender wrote, and    *)
(* nothing checks that it does: what it makes of a mail, and which id it   *)
(* gives, is any choice here.                                              *)
(* The mail thread both sends and handles, so each is one step here, but   *)
(* for the crashes that leave a mail sent and not recorded (Outbox).       *)
(* This is the code behind pipeline.py:321, which in the code as it stands *)
(* raises before a thread is looked at (see Inbox).                        *)
(***************************************************************************)
EXTENDS Naturals, FiniteSetsExt, Sequences

CONSTANTS
  Users,      \* owners
  Jobs,       \* job ids: all that have the form of one
  Example,    \* the job id that the agent's question shows as an example
  NoJob,      \* no id
  Patient,    \* do owners wait for an answer before they write again?
  MaxMails,   \* bound on the mails written and sent
  MaxFaults   \* bound on crashes

ASSUME ThreadsAssumption ==
  /\ NoJob \notin Jobs \cup Users /\ Example \in Jobs
  /\ Patient \in BOOLEAN /\ MaxMails \in Nat \ {0} /\ MaxFaults \in Nat

VARIABLES
  mails,    \* every mail ever sent, by either side; a mail is its position
  owner,    \* owner[j]: jobs.sender_email, or NoJob without a row
  drafts,   \* the PENDING rows of the outbox
  links,    \* message_links: <<mail, job>>
  last,     \* last[j]: jobs.last_response_message_id, or 0
  todo,     \* mails of owners that have yet to be handled
  acted,    \* <<m, given, j>>: the agent did to job j what mail m asked for, where
            \* the model gave the id given for it
  faults

vars == <<mails, owner, drafts, links, last, todo, acted, faults>>

Known == {j \in Jobs : owner[j] # NoJob}

\* A mail: its writer and reader, the mail it replies to (0 for none), its
\* References, the job id in its subject, and all those in subject and body.
Mail == [from : Users \cup {"agent"}, to : Users \cup {"agent"},
         parent : 0..MaxMails, refs : Seq(1..MaxMails), subject : Jobs \cup {NoJob},
         names : SUBSET Jobs]

Ids(j) == {j} \ {NoJob}

Init ==
  /\ mails = <<>> /\ owner = [j \in Jobs |-> NoJob]
  /\ drafts = {} /\ links = {} /\ last = [j \in Jobs |-> 0]
  /\ todo = {} /\ acted = {} /\ faults = 0

\* The References of a reply to mail p (RFC 5322; _reply_references).
Thread(p) == IF p = 0 THEN <<>> ELSE Append(mails[p].refs, p)

(* An owner writes a new mail, or replies to one that he wrote, was sent   *)
(* or had forwarded; the reply keeps the subject, and may quote the text.  *)
(* He may write down a job id, of whatever job.                            *)
Write(u) ==
  /\ Len(mails) < MaxMails
  /\ Patient => todo = {} /\ drafts = {}
  /\ \E p \in {0} \cup DOMAIN mails, quote \in BOOLEAN, written \in Jobs \cup {NoJob} :
       LET subject == IF p = 0 THEN NoJob ELSE mails[p].subject
           quoted  == IF p # 0 /\ quote THEN mails[p].names ELSE {}
       IN  mails' = Append(mails,
             [from |-> u, to |-> "agent", parent |-> p, refs |-> Thread(p),
              subject |-> subject, names |-> Ids(subject) \cup quoted \cup Ids(written)])
  /\ todo' = todo \cup {Len(mails')}
  /\ UNCHANGED <<owner, drafts, links, last, acted, faults>>

-----------------------------------------------------------------------------
(* The mail thread handles a mail.                                         *)

\* (Slip: anybody's job.  The definitions marked like this are no part of
\* the model: each is the operator after it with a plausible mistake, which
\* the properties must be able to notice.)
OwnedByAnyone(j, u) == j \in Known

(* get_owned, and the conditions on the sender of the two lookups.         *)
Owned(j, u) == j \in Known /\ owner[j] = u

\* The jobs of u that mail r is known to be about: by its link, or else as
\* the last mail about the job.
Linked(r, u) == {j \in Jobs : <<r, j>> \in links /\ Owned(j, u)}
AsLast(r, u) == {j \in Jobs : last[j] = r /\ Owned(j, u)}
Hits(r, u)   == IF Linked(r, u) # {} THEN Linked(r, u) ELSE AsLast(r, u)

\* (Slip: the References go before In-Reply-To, the oldest first.)
ReferencesOnly(m) == mails[m].refs

(* _referenced_message_ids: In-Reply-To, then the References.              *)
Referenced(m) ==
  IF mails[m].parent = 0 THEN <<>> ELSE <<mails[m].parent>> \o mails[m].refs

\* (Slip: if all else fails, the only job the sender has.)
MatchTheOnlyJob(m) ==
  LET u    == mails[m].from
      refs == Referenced(m)
      hits == {i \in DOMAIN refs : Hits(refs[i], u) # {}}
      own  == {j \in Known : Owned(j, u)}
  IN  IF hits # {} THEN CHOOSE j \in Hits(refs[Min(hits)], u) : TRUE
      ELSE IF Cardinality(own) = 1 THEN CHOOSE j \in own : TRUE
      ELSE NoJob

(* ThreadMatcher.match: the job of the first mail referred to that has     *)
(* one, else the single job id in the text, else none.                     *)
Match(m) ==
  LET u    == mails[m].from
      refs == Referenced(m)
      hits == {i \in DOMAIN refs : Hits(refs[i], u) # {}}
      text == {j \in mails[m].names : Owned(j, u)}
  IN  IF hits # {} THEN CHOOSE j \in Hits(refs[Min(hits)], u) : TRUE
      ELSE IF Cardinality(mails[m].names) = 1 /\ text # {} THEN CHOOSE j \in text : TRUE
      ELSE NoJob

(* _validate_job_reference_operation: cmd.job_id, the id that the model    *)
(* gave, or else thread_job_id.                                            *)
Target(m, given) == IF given # NoJob THEN given ELSE Match(m)

\* A mail about job j goes into the outbox; its row has the job's id if it
\* is a result of acting on the job, its subject in any case, and its body
\* may say other ids.
Answer(m, j, subject, said) ==
  drafts' = drafts \cup {[job |-> j, subject |-> subject, said |-> said, parent |-> m]}

\* The next id of the day (create_job counts them).
NextId == CHOOSE j \in Jobs \ Known : TRUE

(* submit_transcript or assess_query: a job of its own.                    *)
Submit(m) ==
  /\ Known # Jobs
  /\ owner' = [owner EXCEPT ![NextId] = mails[m].from]
  /\ Answer(m, NextId, NextId, {})
  /\ todo' = todo \ {m}
  /\ UNCHANGED <<mails, links, last, acted, faults>>

(* status, results, cancel: of the job meant, if the sender owns it.       *)
Refer(m, given) ==
  /\ Owned(Target(m, given), mails[m].from)
  /\ acted' = acted \cup {<<m, given, Target(m, given)>>}
  /\ Answer(m, Target(m, given), Target(m, given), {})
  /\ todo' = todo \ {m}
  /\ UNCHANGED <<mails, owner, links, last, faults>>

\* What the sender is asked then: which job he means, with an example, or
\* whether the id is right.
Question(j) == IF j = NoJob THEN {Example} ELSE {j}

(* Else the sender is asked, in a mail that no row ties to a job, though   *)
(* its subject names the thread's.                                         *)
AskWhich(m, given) ==
  /\ ~Owned(Target(m, given), mails[m].from)
  /\ Answer(m, NoJob, Match(m), Question(Target(m, given)))
  /\ todo' = todo \ {m}
  /\ UNCHANGED <<mails, owner, links, last, acted, faults>>

(* The model finds the mail unclear, and the question is its own.          *)
AskUnclear(m) ==
  /\ \E said \in SUBSET Jobs : Answer(m, NoJob, Match(m), said)
  /\ todo' = todo \ {m}
  /\ UNCHANGED <<mails, owner, links, last, acted, faults>>

-----------------------------------------------------------------------------
(* The mail thread sends.                                                  *)

\* Draft d reaches its reader, as one more mail.
Sent(d) ==
  /\ Len(mails) < MaxMails
  /\ mails' = Append(mails,
       [from |-> "agent", to |-> mails[d.parent].from, parent |-> d.parent,
        refs |-> Thread(d.parent), subject |-> d.subject,
        names |-> Ids(d.subject) \cup d.said])
  /\ UNCHANGED <<owner, todo, acted>>

\* (Slip: the message that is answered is recorded, not the answer.)
NoteLastParent(d) == last' = [j \in Jobs |-> IF j = d.job THEN d.parent ELSE last[j]]

NoteLink(d) == links' = links \cup {<<Len(mails'), j>> : j \in Ids(d.job)}
NoteLast(d) == last' = [j \in Jobs |-> IF j = d.job THEN Len(mails') ELSE last[j]]

(* send_email, mark_sent, and the update of the job.                       *)
Send(d) ==
  /\ Sent(d)
  /\ drafts' = drafts \ {d}
  /\ NoteLink(d) /\ NoteLast(d)
  /\ UNCHANGED faults

(* The agent stops after send_email: the mail is sent again later, ...     *)
StopUnmarked(d) ==
  /\ Sent(d)
  /\ faults < MaxFaults /\ faults' = faults + 1
  /\ UNCHANGED <<drafts, links, last>>

(* ... or after the first statement of mark_sent, or after the second.     *)
StopUnlinked(d) ==
  /\ Sent(d)
  /\ faults < MaxFaults /\ faults' = faults + 1
  /\ drafts' = drafts \ {d}
  /\ NoteLink(d) \/ UNCHANGED links
  /\ UNCHANGED last

Next ==
  \/ \E u \in Users : Write(u)
  \/ \E m \in todo : \/ \E given \in Jobs \cup {NoJob} : Refer(m, given) \/ AskWhich(m, given)
                    \/ Submit(m) \/ AskUnclear(m)
  \/ \E d \in drafts : Send(d) \/ StopUnmarked(d) \/ StopUnlinked(d)

Spec == Init /\ [][Next]_vars

-----------------------------------------------------------------------------
(* Properties.                                                             *)

\* The shape of the state; links and last point at mails of the agent.
TypeOK ==
  /\ mails \in Seq(Mail) /\ Len(mails) <= MaxMails
  /\ owner \in [Jobs -> Users \cup {NoJob}]
  /\ \A l \in links : mails[l[1]].from = "agent" /\ l[2] \in Known
  /\ \A j \in Jobs : last[j] # 0 => mails[last[j]].from = "agent"
  /\ \A d \in drafts : d.parent \in DOMAIN mails
  /\ todo \subseteq DOMAIN mails /\ faults \in 0..MaxFaults

\* Nobody acts on a job of somebody else, whatever mails were forwarded or
\* ids written down, and whatever id the model gives (thread_matcher.py:3-5).
OwnJobsOnly == \A a \in acted : owner[a[3]] = mails[a[1]].from

\* Unless the model gives an id, a reply to a mail that is linked to a job of the
\* writer is taken to be about that job, even in a thread that several jobs or
\* owners share, and whatever other ids it quotes.
ReplyReachesItsJob ==
  \A a \in acted : \A l \in links :
    LET m == mails[a[1]]
    IN  a[2] = NoJob /\ m.parent = l[1] /\ Owned(l[2], m.from) => a[3] = l[2]

\* Whatever is not recorded, where the model gives no id no job is acted on but
\* one that the mail or its thread speaks of; where it gives one, no other.  The
\* agent itself never guesses (validator.py:36); whether the model did is not
\* checked anywhere.
ActedIsMentioned ==
  \A a \in acted :
    LET m == mails[a[1]]
    IN  IF a[2] # NoJob THEN a[3] = a[2]
        ELSE a[3] \in m.names \/ \E i \in DOMAIN m.refs : mails[m.refs[i]].subject = a[3]
=============================================================================

------------------------------ MODULE Request ------------------------------
(***************************************************************************)
(* One request, from the mail to its outcome: the command is read out of   *)
(* the mail, checked (Commands), accepted, and then executed against the   *)
(* backends through clients that repeat a request until they see an answer *)
(* (submit_transcript.execute, assess_query.execute, DiarisationClient,    *)
(* GithubRaginatorClient, OllamaClient).                                   *)
(*                                                                         *)
(* JobLifecycle has the statuses, files and mails of many jobs, and shrinks*)
(* an execution to three steps; here the execution is one HTTP request     *)
(* after another, each of which may be carried out without its answer      *)
(* getting back.  ImplementsLifecycle says that the two agree.             *)
(***************************************************************************)
EXTENDS Commands, Functions, TLC

CONSTANTS
  Owners,       \* addresses of group owners
  Domains,      \* authorised domains
  Speakers,     \* labels in the transcript
  Members,      \* members of the group on the backend
  Sizes,        \* sizes an attachment may have
  MaxFiles,     \* bound on the attachments of a mail
  MaxRetries,   \* EmailCommandParser's max_retries
  MaxAttempts   \* max_retry_attempts of the clients

ASSUME RequestAssumption ==
  /\ MaxRetries \in Nat /\ MaxAttempts \in Nat \ {0} /\ MaxFiles \in Nat
  /\ Sizes \subseteq Nat /\ IsFiniteSet(Speakers) /\ None \notin Members

VARIABLES
  mail,       \* the attachments of the mail
  cmd,        \* the command, once there is one
  stored,     \* the attachment that was stored, or 0
  stage,      \* what is done next, or how it ended
  tries,      \* which attempt at it this is
  lost,       \* has an earlier attempt been carried out?
  uploads,    \* uploads[m]: the files in meeting m on the backend
  attending,  \* the members who attend the meeting of the job
  meeting,    \* the meeting create_meeting returned, or 0
  alias,      \* the members that resolve_aliases returned for the speakers
  todo,       \* the speakers whose members are still to be added
  present,    \* resolved_attendees
  asked, answered,  \* the sources that have been asked, and have answered
  why         \* the error that ended the execution, or None

intake  == <<mail, cmd, stored>>
backend == <<uploads, attending>>
local   == <<meeting, alias, todo, present>>
sources == <<asked, answered>>
vars    == <<intake, stage, tries, lost, backend, local, sources, why>>

\* The requests to the diarisation backend and to GitHub-RAGinator, named
\* after the methods of the clients.
Submitting == {"create_meeting", "upload_file", "resolve_aliases", "add_attendee"}
Asking     == {"search_transcripts", "find_repo", "query"}
Requests   == {"login", "list_groups"} \cup Submitting \cup Asking
Ended      == {"dropped", "deferred", "unparsed", "clarify", "rejected", "ask_group",
               "completed", "failed"}
Stage      == {"authorise", "parse", "validate", "accept", "read", "generate", "conclude"}
              \cup Requests \cup Ended

-----------------------------------------------------------------------------
Init ==
  /\ mail \in BoundedSeq([name : Name, size : Sizes], MaxFiles)
  /\ cmd = NoCommand /\ stored = 0
  /\ stage = "authorise" /\ tries = 1 /\ lost = FALSE
  /\ uploads = <<>> /\ attending = {}
  /\ meeting = 0 /\ alias = <<>> /\ todo = <<>> /\ present = {}
  /\ asked = {} /\ answered = {}
  /\ why = None

\* The first attempt at the next thing.
Goto(s) == stage' = s /\ tries' = 1 /\ lost' = FALSE

\* The end of an execution that has gone wrong.
Fail(e) == Goto("failed") /\ why' = e

(* SenderAuthoriser: all but owners are turned away.                       *)
AuthoriseSender ==
  /\ stage = "authorise"
  /\ \E address \in Owners \cup {"somebody", None}, domain \in Domains \cup {"elsewhere"} :
       \E signals \in Signals, required \in BOOLEAN :
         Goto(IF Authorise(address, domain, signals, Owners, Domains, required) = "authorised"
                THEN "parse" ELSE "dropped")
  /\ UNCHANGED <<intake, backend, local, sources, why>>

(* parse_email: the model answers with a command, whatever it may be, ...  *)
ParseEmail ==
  /\ stage = "parse"
  /\ cmd' \in Command
  /\ Goto("validate")
  /\ UNCHANGED <<mail, stored, backend, local, sources, why>>

(* ... with something that is none, and is asked again, ...                *)
ParseFails ==
  /\ stage = "parse"
  /\ IF tries <= MaxRetries THEN tries' = tries + 1 /\ UNCHANGED <<stage, lost>>
       ELSE Goto("unparsed")
  /\ UNCHANGED <<intake, backend, local, sources, why>>

(* ... or not at all: the message is left for later.                       *)
ParseUnavailable ==
  /\ stage = "parse"
  /\ Goto("deferred")
  /\ UNCHANGED <<intake, backend, local, sources, why>>

ValidateCommand ==
  /\ stage = "validate"
  /\ Goto(IF Validate(cmd, mail) = "valid" THEN "accept" ELSE Validate(cmd, mail))
  /\ UNCHANGED <<intake, backend, local, sources, why>>

\* (Slip: of two attachments with one name the last is stored.  The
\* definitions marked like this are no part of the model: each is the operator
\* after it with a plausible mistake, which the properties must notice.)
AcceptLast ==
  /\ stage = "accept"
  /\ IF cmd.operation = "assess_query" THEN UNCHANGED stored
       ELSE stored' = CHOOSE i \in DOMAIN mail :
                        /\ mail[i].name = mail[Matched(cmd, mail)].name
                        /\ \A k \in DOMAIN mail : mail[k].name = mail[i].name => k <= i
  /\ Goto("login")
  /\ UNCHANGED <<mail, cmd, backend, local, sources, why>>

(* accept(): the attachment is stored, and must be a transcript inside.    *)
Accept ==
  /\ stage = "accept"
  /\ IF cmd.operation = "assess_query" THEN Goto("login") /\ UNCHANGED stored
       ELSE /\ stored' = Real(cmd, mail)
            /\ Goto("login") \/ Goto("rejected")
  /\ UNCHANGED <<mail, cmd, backend, local, sources, why>>

-----------------------------------------------------------------------------
(* A request.                                                              *)

Speaker == Head(todo)

\* add_attendee for a member who attends already: the backend answers 409.
Conflicts == stage = "add_attendee" /\ alias[Speaker] \in attending

\* The backend carries the request out, whether or not its answer arrives.
CarriedOut ==
  /\ ~Conflicts
  /\ CASE stage = "create_meeting" -> uploads' = Append(uploads, 0) /\ UNCHANGED attending
       [] stage = "upload_file" ->
            uploads' = [uploads EXCEPT ![meeting] = @ + 1] /\ UNCHANGED attending
       [] stage = "add_attendee" ->
            attending' = attending \cup {alias[Speaker]} /\ UNCHANGED uploads
       [] OTHER -> UNCHANGED backend

NextAttendee(s) == Goto(IF s = <<>> THEN "completed" ELSE "add_attendee")

\* The next source of an assess_query, when the transcripts are done with.
AskGithub == Goto(IF "github" \in cmd.focus THEN "find_repo" ELSE "conclude")

(* What execute() of a transcript does with an answer.                     *)
ProceedSubmit ==
  \/ /\ stage = "create_meeting"
     /\ meeting' = Len(uploads')
     /\ Goto("read")
     /\ UNCHANGED <<alias, todo, present>>
  \/ /\ stage = "upload_file"
     /\ \/ Goto("completed")
        \/ Speakers # {} /\ Goto("resolve_aliases")
     /\ UNCHANGED local
  \/ /\ stage = "resolve_aliases"
     /\ alias' \in [Speakers -> Members \cup {None}]
     /\ todo' = SetToSeq({s \in Speakers : alias'[s] # None})
     /\ NextAttendee(todo')
     /\ UNCHANGED <<meeting, present>>
  \/ /\ stage = "add_attendee"
     /\ present' = present \cup {Speaker}
     /\ todo' = Tail(todo)
     /\ NextAttendee(todo')
     /\ UNCHANGED <<meeting, alias>>

(* What execute() of an assess_query does with an answer; a search may     *)
(* find nothing, and a group may have no repository.                       *)
ProceedAsk ==
  \/ /\ stage = "search_transcripts"
     /\ asked' = asked \cup {"transcripts"}
     /\ \/ Goto("generate") /\ UNCHANGED answered
        \/ AskGithub /\ answered' = answered \cup {"transcripts"}
  \/ /\ stage = "find_repo"
     /\ \/ Goto("query") /\ UNCHANGED asked
        \/ Goto("conclude") /\ asked' = asked \cup {"github"}
     /\ UNCHANGED answered
  \/ /\ stage = "query"
     /\ asked' = asked \cup {"github"} /\ answered' = answered \cup {"github"}
     /\ Goto("conclude")

(* What both do first.                                                     *)
ProceedGroup ==
  \/ stage = "login" /\ Goto("list_groups")
  \/ /\ stage = "list_groups"
     /\ \/ Goto("ask_group")
        \/ cmd.operation = "submit_transcript" /\ Goto("create_meeting")
        \/ /\ cmd.operation = "assess_query"
           /\ IF "transcripts" \in cmd.focus THEN Goto("search_transcripts") ELSE AskGithub

(* What the code does with an answer, and with an error of a client: a     *)
(* source that cannot be asked is passed over, anything else is the end.   *)
Proceed ==
  /\ \/ ProceedSubmit /\ UNCHANGED sources
     \/ ProceedAsk /\ UNCHANGED local
     \/ ProceedGroup /\ UNCHANGED <<local, sources>>
  /\ UNCHANGED why

\* (Slip: an error of the search is not caught where it is raised.)
CatchOutside(e) ==
  /\ \/ /\ stage \in {"find_repo", "query"}
        /\ asked' = asked \cup {"github"} /\ Goto("conclude") /\ UNCHANGED why
     \/ /\ stage \notin {"find_repo", "query"}
        /\ Fail(e) /\ UNCHANGED asked
  /\ UNCHANGED <<local, answered>>

\* (Slip: an attendee the backend refuses is left out.)
CatchRefusal(e) ==
  /\ IF stage = "add_attendee"
       THEN todo' = Tail(todo) /\ NextAttendee(todo') /\ UNCHANGED why
       ELSE Fail(e) /\ UNCHANGED todo
  /\ UNCHANGED <<meeting, alias, present, sources>>

Catch(e) ==
  /\ \/ /\ stage = "search_transcripts"
        /\ asked' = asked \cup {"transcripts"} /\ AskGithub /\ UNCHANGED why
     \/ /\ stage \in {"find_repo", "query"}
        /\ asked' = asked \cup {"github"} /\ Goto("conclude") /\ UNCHANGED why
     \/ /\ stage \notin Asking
        /\ Fail(e) /\ UNCHANGED asked
  /\ UNCHANGED <<local, answered>>

Again(l) == tries' = tries + 1 /\ lost' = l /\ UNCHANGED <<stage, local, sources, why>>

\* (Slip: a failed upload is repeated with a new meeting.)
RetryAnew(l) ==
  IF tries < MaxAttempts
    THEN /\ tries' = tries + 1 /\ lost' = l
         /\ stage' = IF stage = "upload_file" THEN "create_meeting" ELSE stage
         /\ UNCHANGED <<local, sources, why>>
    ELSE Catch("transient")

\* (Slip: after a failure the attendees are added from the first again.)
RetryAttendees(l) ==
  IF tries < MaxAttempts
    THEN /\ tries' = tries + 1 /\ lost' = l
         /\ todo' = IF stage = "add_attendee"
                      THEN SetToSeq({s \in Speakers : alias[s] # None}) ELSE todo
         /\ UNCHANGED <<stage, meeting, alias, present, sources, why>>
    ELSE Catch("transient")

(* Retrying: a TransientError is raised only after the last attempt; l     *)
(* tells whether any attempt was carried out.                              *)
Retry(l) == IF tries < MaxAttempts THEN Again(l) ELSE Catch("transient")

(* _do_request, and what becomes of the request: it is answered, ...       *)
Answered == stage \in Requests /\ CarriedOut /\ Proceed /\ UNCHANGED intake

(* ... carried out without an answer that could be read as success (a      *)
(* timeout, a broken connection, a 5xx on the way back), ...               *)
AnswerLost == stage \in Requests /\ CarriedOut /\ Retry(TRUE) /\ UNCHANGED intake

(* ... not carried out, for the same reasons, ...                          *)
Unreached == stage \in Requests /\ Retry(lost) /\ UNCHANGED <<intake, backend>>

(* ... refused for good (4xx), ...                                         *)
Refused ==
  /\ stage \in Requests
  /\ Catch(IF Conflicts THEN "conflict" ELSE "refused")
  /\ UNCHANGED <<intake, backend>>

(* ... or answered with something that is no answer, which no client turns *)
(* into an error of its own.                                               *)
Garbled ==
  /\ stage \in Requests
  /\ CarriedOut
  /\ Fail("garbled")
  /\ UNCHANGED <<intake, local, sources>>

-----------------------------------------------------------------------------
(* Between the requests: the stored file is read, if it is there, ...      *)
ReadTranscript ==
  /\ stage = "read"
  /\ \/ Goto("upload_file") /\ UNCHANGED why
     \/ Fail("file")
  /\ UNCHANGED <<intake, backend, local, sources>>

(* ... the language model sums up what the search has found, unless it is  *)
(* down, which is no error of the search, ...                              *)
Synthesise ==
  /\ stage = "generate"
  /\ \/ AskGithub /\ answered' = answered \cup {"transcripts"} /\ UNCHANGED why
     \/ Fail("ollama") /\ UNCHANGED answered
  /\ UNCHANGED <<intake, backend, local, asked>>

(* ... and the answers are counted.                                        *)
Conclude ==
  /\ stage = "conclude"
  /\ IF answered = {} THEN Fail("nothing") ELSE Goto("completed") /\ UNCHANGED why
  /\ UNCHANGED <<intake, backend, local, sources>>

Next ==
  \/ AuthoriseSender \/ ParseEmail \/ ParseFails \/ ParseUnavailable
  \/ ValidateCommand \/ Accept
  \/ Answered \/ AnswerLost \/ Unreached \/ Refused \/ Garbled
  \/ ReadTranscript \/ Synthesise \/ Conclude

Spec == Init /\ [][Next]_vars

-----------------------------------------------------------------------------
(* Properties.                                                             *)

Executing == stage \notin {"authorise", "parse", "validate", "accept"} \cup Ended
Submits  == cmd.operation = "submit_transcript"
Assesses  == cmd.operation = "assess_query"

\* The shape of the state.
TypeOK ==
  /\ mail \in Seq([name : Name, size : Sizes])
  /\ cmd \in Command \cup {NoCommand}
  /\ stored \in 0..Len(mail)
  /\ stage \in Stage /\ tries \in Nat /\ lost \in BOOLEAN
  /\ uploads \in Seq(Nat) /\ meeting \in 0..Len(uploads)
  /\ attending \subseteq Members
  /\ alias = <<>> \/ alias \in [Speakers -> Members \cup {None}]
  /\ todo \in Seq(Speakers) /\ present \subseteq Speakers
  /\ asked \subseteq Source /\ answered \subseteq Source
  /\ why \in {None, "file", "ollama", "nothing", "transient", "refused", "conflict", "garbled"}

\* Whatever the language model answers and however the attachments are named,
\* what is stored is a transcript within the limit (validator.py:131-149,
\* although submit_transcript.py:45 looks the name up again), and a name the
\* model made up is passed over only for the single transcript there is.
StoredIsSound ==
  stored # 0 =>
    /\ Acceptable(mail[stored])
    /\ \/ cmd.attachment = mail[stored].name
       \/ Ending("vtt", mail) = {stored} /\ Called(cmd.attachment, mail) = 0

\* A submission that completes has left one whole meeting behind: its file is
\* in the meeting whose id the job keeps, and the attendees the backend has
\* are those of the speakers the completion mail names (submit_transcript.py:
\* 131-158), whatever was repeated or lost on the way.
CompletedIsWhole ==
  stage = "completed" /\ Submits =>
    /\ meeting # 0 /\ uploads[meeting] > 0
    /\ attending = {alias[s] : s \in present}
    /\ alias # <<>> => present = {s \in Speakers : alias[s] # None}

\* The meetings that repeated POSTs leave behind besides the job's own are
\* empty, and there are fewer of them, and of copies of the file, than
\* attempts (client.py:108-113 retries what is not idempotent).
OrphansAreEmpty ==
  /\ Len(uploads) <= MaxAttempts
  /\ \A m \in DOMAIN uploads :
       uploads[m] <= (IF m = meeting THEN MaxAttempts ELSE 0)

\* When the backend says that a member attends already, it has been told so by
\* this very execution: by a request whose answer was lost, or for another
\* label of the same member (submit_transcript.py:142-145).
ConflictIsItsOwn ==
  [][why' = "conflict" /\ why = None =>
       lost \/ \E s \in present : s # Speaker /\ alias[s] = alias[Speaker]]_vars

\* A source that cannot be asked does not take the other one's answer with it
\* (assess_query.py:8-10): a question fails before its sources are asked, or
\* when all that it names were asked and none has answered; apart from that
\* only when the language model is down or an answer is garbled, and then even
\* an answer that is there already is not sent.
OneSourceIsEnough ==
  [][Assesses /\ stage' # stage /\ stage' \in {"completed", "failed"} =>
       IF stage' = "completed" THEN answered # {} /\ asked = cmd.focus
       ELSE IF why' = "nothing" THEN answered = {} /\ asked = cmd.focus
       ELSE stage \in {"login", "list_groups"} \/ why' \in {"ollama", "garbled"}]_vars

\* Where the worker of JobLifecycle stands at a stage of the execution.
Phase(s) ==
  CASE s \in {"login", "list_groups"}   -> "match"
    [] s = "create_meeting"             -> "submit"
    [] s \in {"read", "upload_file", "resolve_aliases", "add_attendee"} -> "upload"
    [] s \in {"generate", "conclude"} \cup Asking -> "sources"
    [] s = "ask_group" -> "clarify"
    [] s = "completed" -> "complete"
    [] OTHER           -> "fail"

\* JobLifecycle's view of the job, which it knows as job 1: what create_meeting
\* and the upload have done shows when they are done.
Lifecycle == INSTANCE JobLifecycle WITH
  Jobs <- {1}, Requests <- {"submit_transcript", "assess_query"},
  MaxPosts <- MaxAttempts, MaxFaults <- 0, GroupsChange <- TRUE,
  status <- <<"PROCESSING">>, op <- <<cmd.operation>>,
  path <- <<"processing">>, file <- <<"processing">>,
  settled <- {}, pending <- {}, notices <- {}, batch <- {}, faults <- 0,
  meetings <- <<IF stage = "create_meeting" THEN 0 ELSE Len(uploads)>>,
  uploaded <- IF stage \in Ended /\ meeting # 0 /\ uploads[meeting] > 0 THEN {1} ELSE {},
  at <- [mail |-> "idle", worker |-> Phase(stage)],
  on <- [mail |-> 1, worker |-> 1],
  read <- [mail |-> "NO_ROW", worker |-> "NO_ROW"]

\* The execution is the one that JobLifecycle shrinks to MatchGroup,
\* CreateMeeting, UploadTranscript and QuerySources: every request made here
\* is a step there or changes nothing there.
ImplementsLifecycle ==
  [][Executing =>
       \/ Lifecycle!MatchGroup \/ Lifecycle!CreateMeeting
       \/ Lifecycle!UploadTranscript \/ Lifecycle!QuerySources
       \/ UNCHANGED Lifecycle!vars]_vars
=============================================================================

------------------------------ MODULE Commands ------------------------------
(***************************************************************************)
(* The decisions taken about a mail before anything is done for it: whose  *)
(* it is (SenderAuthoriser, app/auth/authorisation.py) and what may be     *)
(* done with the command the language model has read out of it             *)
(* (validate_command, app/commands/validator.py).  The model's output is   *)
(* any ParsedCommand at all; what counts is what is left of it here.       *)
(***************************************************************************)
EXTENDS Naturals, Sequences, FiniteSets, SequencesExt

CONSTANTS
  Stems,    \* file names without their ends
  MaxSize   \* max_attachment_size_mb, in bytes

None == "none"

ASSUME CommandsAssumption == MaxSize \in Nat /\ None \notin Stems

-----------------------------------------------------------------------------
(* The sender.                                                             *)

Verdict == {"pass", "fail", None}
Signals == [spf : Verdict, dkim : Verdict, dmarc : Verdict]

AuthPass(s) == s.dmarc = "pass" \/ (s.spf = "pass" /\ s.dkim = "pass")

\* The address is normalised; None is one that is no address.  A failed check
\* comes before the owners: the address could be anybody's.
Authorise(address, domain, signals, owners, domains, requirePass) ==
  IF address = None THEN "malformed_sender"
  ELSE IF requirePass /\ ~AuthPass(signals) THEN "unauthenticated"
  ELSE IF address \in owners THEN "authorised"
  ELSE IF domain \in domains THEN "unrecognised_in_domain"
  ELSE "unauthorised_external"

-----------------------------------------------------------------------------
(* The command.                                                            *)

\* A file name ends in .vtt, in one of _AUDIO_EXTENSIONS, or otherwise.
Name       == [stem : Stems, end : {"vtt", "audio", "other"}]
NoName     == [stem |-> None, end |-> None]
Attachment == [name : Name, size : Nat]
Source     == {"transcripts", "github"}   \* trello_focus is asked of GitHub-RAGinator too

\* A ParsedCommand, as far as a new job is concerned; what the operation does
\* not use is left empty.
Command ==
  [operation : {"submit_transcript"}, attachment : Name \cup {NoName}, focus : {{}},
   requires_clarification : BOOLEAN]
  \cup
  [operation : {"assess_query"}, attachment : {NoName}, focus : SUBSET Source,
   requires_clarification : BOOLEAN]

NoCommand == [operation |-> None, attachment |-> NoName, focus |-> {},
              requires_clarification |-> FALSE]

\* The first attachment called n, or 0.
Called(n, mail) == SelectInSeq(mail, LAMBDA a : a.name = n)

Ending(e, mail) == {i \in DOMAIN mail : mail[i].name.end = e}

\* The attachment a submit_transcript is about, or 0: the one the command
\* names, or else the only transcript there is.
Matched(cmd, mail) ==
  IF Called(cmd.attachment, mail) # 0 THEN Called(cmd.attachment, mail)
  ELSE IF Cardinality(Ending("vtt", mail)) = 1 THEN CHOOSE i \in Ending("vtt", mail) : TRUE
  ELSE 0

Acceptable(a) == a.name.end = "vtt" /\ a.size <= MaxSize

ValidateSubmit(cmd, mail) ==
  LET i == Matched(cmd, mail)
  IN  CASE i # 0 -> IF Acceptable(mail[i]) THEN "valid" ELSE "rejected"
        [] i = 0 /\ Ending("vtt", mail) = {} /\ Ending("audio", mail) # {} -> "rejected"
        [] OTHER -> "clarify"

Validate(cmd, mail) ==
  IF cmd.requires_clarification THEN "clarify"
  ELSE IF cmd.operation = "submit_transcript" THEN ValidateSubmit(cmd, mail)
  ELSE IF cmd.focus = {} THEN "clarify" ELSE "valid"

\* The attachment accept() stores: it looks the name up again.
Real(cmd, mail) == Called(mail[Matched(cmd, mail)].name, mail)
=============================================================================

---------------------------- MODULE RequestProofs ----------------------------
(***************************************************************************)
(* What Request guarantees for every set of speakers, members and sizes,   *)
(* any number of attachments and any number of attempts.                   *)
(***************************************************************************)
EXTENDS Request, WellFoundedInduction, SequenceTheorems, FiniteSetTheorems, TLAPS

\* What a stage knows about the command.
CommandIsChecked ==
  /\ stage \notin {"authorise", "parse", "dropped", "deferred", "unparsed"} => cmd \in Command
  /\ stage = "accept" => Validate(cmd, mail) = "valid"
  /\ stage \in {"authorise", "parse", "validate", "accept"} => stored = 0
  /\ stage \in {"read"} \cup Submitting => Submits
  /\ stage \in {"generate", "conclude"} \cup Asking => Assesses

\* A request is never repeated more often than allowed.
AttemptsAreBounded == stage \in Requests => tries \in 1..MaxAttempts

\* No member attends yet, nor has anybody been asked for.
NobodyAttends == attending = {} /\ present = {} /\ alias = <<>>

\* How far the meeting of the job has got at a stage of the execution: each
\* attempt but the current one has left a meeting, or a file, at most.
MeetingIsBuilt ==
  /\ stage \notin {"read"} \cup Submitting \cup Ended =>
       uploads = <<>> /\ meeting = 0 /\ NobodyAttends
  /\ stage = "create_meeting" => meeting = 0 /\ Len(uploads) < tries /\ NobodyAttends
  /\ stage \in {"read"} \cup (Submitting \ {"create_meeting"}) => meeting # 0
  /\ stage = "read" => uploads[meeting] = 0 /\ NobodyAttends
  /\ stage = "upload_file" => uploads[meeting] < tries /\ NobodyAttends
  /\ stage = "resolve_aliases" => uploads[meeting] > 0 /\ NobodyAttends
  /\ stage = "add_attendee" => uploads[meeting] > 0

\* The speakers with a member are those who have been added and those who are
\* still to be, each once; the backend is one ahead if an answer was lost.
AttendeesAreAdded ==
  stage = "add_attendee" =>
    /\ alias \in [Speakers -> Members \cup {None}]
    /\ todo # <<>> /\ IsInjective(todo)
    /\ Range(todo) \cap present = {}
    /\ Range(todo) \cup present = {s \in Speakers : alias[s] # None}
    /\ attending = {alias[s] : s \in present} \cup (IF lost THEN {alias[Speaker]} ELSE {})

\* The sources are asked in turn.
SourcesInTurn ==
  /\ answered \subseteq asked
  /\ stage \notin {"generate", "conclude", "find_repo", "query"} \cup Ended => asked = {}
  /\ stage = "search_transcripts" => "transcripts" \in cmd.focus
  /\ stage = "generate" =>
       asked = {"transcripts"} /\ "transcripts" \in cmd.focus /\ answered = {}
  /\ stage \in {"find_repo", "query"} =>
       "github" \in cmd.focus /\ asked = cmd.focus \ {"github"}
  /\ stage = "conclude" => asked = cmd.focus

IInv ==
  /\ TypeOK /\ CommandIsChecked /\ AttemptsAreBounded
  /\ MeetingIsBuilt /\ AttendeesAreAdded /\ SourcesInTurn
  /\ StoredIsSound /\ CompletedIsWhole /\ OrphansAreEmpty

-----------------------------------------------------------------------------
(* Lemmas about the mail and its attachments.                              *)

\* Of a set of numbers one is the least.
LEMMA LeastIsFirst ==
  ASSUME NEW S, S \subseteq Nat, S # {}
  PROVE  Min(S) \in S /\ \A i \in S : Min(S) <= i
<1>1. PICK n \in S : \A i \in S : ~(<<i, n>> \in OpToRel(<, Nat))
  BY NatLessThanWellFounded, WFMin
<1>2. \A i \in S : ~(i < n)
  BY <1>1 DEF OpToRel
<1>3. \A i \in S : n <= i
  BY <1>2
<1>4. QED
  BY <1>3 DEF Min

\* Called is the first attachment of that name, or 0 if there is none.
LEMMA CalledIsFirst ==
  ASSUME NEW files \in Seq([name : Name, size : Sizes]), NEW n
  PROVE  /\ Called(n, files) \in 0..Len(files)
         /\ Called(n, files) = 0 => \A i \in DOMAIN files : files[i].name # n
         /\ Called(n, files) # 0 =>
              /\ files[Called(n, files)].name = n
              /\ \A i \in DOMAIN files : files[i].name = n => Called(n, files) <= i
<1> DEFINE I == {i \in 1..Len(files) : files[i].name = n}
<1>1. Called(n, files) = IF I # {} THEN Min(I) ELSE 0
  BY DEF Called, SelectInSeq
<1>2. DOMAIN files = 1..Len(files) /\ Len(files) \in Nat
  OBVIOUS
<1>3. CASE I = {}
  BY <1>1, <1>2, <1>3
<1>4. CASE I # {}
  <2>1. Min(I) \in I /\ \A i \in I : Min(I) <= i
    <3>1. I \subseteq Nat
      BY <1>2
    <3> HIDE DEF I
    <3>2. QED
      BY <1>4, <3>1, LeastIsFirst
  <2>2. QED
    BY <1>1, <1>2, <1>4, <2>1
<1>5. QED
  BY <1>3, <1>4

\* Matched is the first attachment of the name in the command, or the only
\* transcript there is.
LEMMA MatchedIsThere ==
  ASSUME NEW files \in Seq([name : Name, size : Sizes]), NEW c,
         Matched(c, files) # 0
  PROVE  \/ Matched(c, files) = Called(c.attachment, files) /\ Called(c.attachment, files) # 0
         \/ /\ Called(c.attachment, files) = 0
            /\ Ending("vtt", files) = {Matched(c, files)}
<1>1. CASE Called(c.attachment, files) # 0
  BY <1>1 DEF Matched
<1>2. CASE Called(c.attachment, files) = 0
  <2> DEFINE V == Ending("vtt", files)
  <2>1. Cardinality(V) = 1 /\ Matched(c, files) = CHOOSE i \in V : TRUE
    BY <1>2 DEF Matched
  <2>2. IsFiniteSet(V)
    <3>1. IsFiniteSet(1..Len(files))
      BY FS_Interval
    <3>2. V \in SUBSET (1..Len(files))
      BY DEF Ending
    <3>3. QED
      BY <3>1, <3>2, FS_Subset
  <2>3. \E i : V = {i}
    BY <2>1, <2>2, FS_Singleton
  <2>4. QED
    BY <1>2, <2>1, <2>3
<1>3. QED
  BY <1>1, <1>2

\* What accept() stores of a valid command is what the validator has looked
\* at: it has the name in the command, or is the only transcript.
LEMMA RealIsSound ==
  ASSUME NEW files \in Seq([name : Name, size : Sizes]), NEW c,
         c.operation = "submit_transcript", Validate(c, files) = "valid"
  PROVE  /\ Real(c, files) \in DOMAIN files
         /\ Acceptable(files[Real(c, files)])
         /\ \/ c.attachment = files[Real(c, files)].name
            \/ Ending("vtt", files) = {Real(c, files)} /\ Called(c.attachment, files) = 0
<1> DEFINE i == Matched(c, files)
           r == Real(c, files)
<1>1. i # 0 /\ Acceptable(files[i])
  BY DEF Validate, ValidateSubmit
<1>2. DOMAIN files = 1..Len(files) /\ Len(files) \in Nat
  OBVIOUS
<1>3. CASE i = Called(c.attachment, files) /\ Called(c.attachment, files) # 0
  <2>1. files[i].name = c.attachment /\ i \in 0..Len(files)
    <3> DEFINE n == c.attachment
    <3> HIDE DEF n
    <3>1. Called(n, files) \in 0..Len(files) /\ (Called(n, files) # 0 => files[Called(n, files)].name = n)
      BY CalledIsFirst
    <3> USE DEF n
    <3>2. QED
      BY <1>3, <3>1
  <2>2. r = i
    BY <1>3, <2>1 DEF Real
  <2>3. i \in DOMAIN files
    BY <1>2, <1>3, <2>1
  <2>4. QED
    BY <1>1, <2>1, <2>2, <2>3
<1>4. CASE Called(c.attachment, files) = 0 /\ Ending("vtt", files) = {i}
  <2>1. i \in DOMAIN files /\ files[i].name.end = "vtt"
    BY <1>4 DEF Ending
  <2>2. r \in 0..Len(files) /\ r # 0 /\ files[r].name = files[i].name
    BY <2>1, CalledIsFirst DEF Real
  <2>3. r \in Ending("vtt", files)
    BY <1>2, <2>1, <2>2 DEF Ending
  <2>4. QED
    BY <1>1, <1>4, <2>1, <2>3
<1>5. QED
  BY <1>1, <1>3, <1>4, MatchedIsThere
-----------------------------------------------------------------------------
(* Lemmas about the speakers still to be added.                            *)

\* SetToSeq lists every element of a finite set once.
LEMMA ListedOnce ==
  ASSUME NEW S, IsFiniteSet(S)
  PROVE  /\ SetToSeq(S) \in Seq(S)
         /\ IsInjective(SetToSeq(S))
         /\ Range(SetToSeq(S)) = S
<1> DEFINE n == Cardinality(S)
           f == SetToSeq(S)
<1>1. n \in Nat /\ ExistsBijection(1..n, S)
  BY FS_CardinalityType
<1>2. \E g \in [1..n -> S] : IsInjective(g)
  <2>1. PICK g : g \in Bijection(1..n, S)
    BY <1>1 DEF ExistsBijection
  <2>2. g \in [1..n -> S] /\ \A a, b \in 1..n : g[a] = g[b] => a = b
    BY <2>1 DEF Bijection, Injection, IsInjective
  <2>3. QED
    BY <2>2 DEF IsInjective
<1>3. f \in [1..n -> S] /\ IsInjective(f)
  BY <1>2 DEF SetToSeq
<1>4. f \in Injection(1..n, S)
  BY <1>3 DEF Injection
<1>5. Cardinality(1..n) = n
  BY <1>1, FS_Interval
<1>6. f \in Surjection(1..n, S)
  BY <1>4, <1>5, FS_Injection
<1>7. \A s \in S : \E i \in 1..n : f[i] = s
  BY <1>6 DEF Surjection
<1>8. f \in Seq(S) /\ DOMAIN f = 1..n
  BY <1>1, <1>3
<1>9. QED
  BY <1>3, <1>7, <1>8 DEF Range

\* What is left of a list without repetitions when its head is taken off.
LEMMA TailOfListed ==
  ASSUME NEW S, NEW s \in Seq(S), s # <<>>, IsInjective(s)
  PROVE  /\ Head(s) \in S /\ Head(s) \notin Range(Tail(s))
         /\ Tail(s) \in Seq(S) /\ IsInjective(Tail(s))
         /\ Range(s) = {Head(s)} \cup Range(Tail(s))
<1>1. /\ Len(s) \in Nat /\ Len(s) > 0 /\ DOMAIN s = 1..Len(s)
      /\ Head(s) = s[1] /\ \A i \in DOMAIN s : s[i] \in S
  BY EmptySeq
<1>2. /\ Tail(s) \in Seq(S) /\ DOMAIN Tail(s) = 1..(Len(s) - 1)
      /\ \A i \in 1..(Len(s) - 1) : Tail(s)[i] = s[i + 1]
  BY <1>1, HeadTailProperties
<1>3. \A i, k \in 1..Len(s) : s[i] = s[k] => i = k
  BY <1>1 DEF IsInjective
<1>4. IsInjective(Tail(s))
  <2>1. \A i, k \in 1..(Len(s) - 1) : s[i + 1] = s[k + 1] => i = k
    BY <1>1, <1>3
  <2>2. QED
    BY <1>1, <1>2, <2>1 DEF IsInjective
<1>5. Head(s) \notin Range(Tail(s))
  <2>1. \A i \in 1..(Len(s) - 1) : s[i + 1] # s[1]
    BY <1>1, <1>3
  <2>2. QED
    BY <1>1, <1>2, <2>1 DEF Range
<1>6. Range(s) \subseteq {Head(s)} \cup Range(Tail(s))
  <2>1. SUFFICES ASSUME NEW i \in DOMAIN s
                 PROVE  s[i] \in {Head(s)} \cup Range(Tail(s))
    BY DEF Range
  <2>2. i = 1 \/ (i - 1 \in DOMAIN Tail(s) /\ Tail(s)[i - 1] = s[i])
    BY <1>1, <1>2
  <2>3. QED
    BY <1>1, <2>2 DEF Range
<1>7. {Head(s)} \cup Range(Tail(s)) \subseteq Range(s)
  <2>1. \A i \in DOMAIN Tail(s) : i + 1 \in DOMAIN s /\ s[i + 1] = Tail(s)[i]
    BY <1>1, <1>2
  <2>2. 1 \in DOMAIN s
    BY <1>1
  <2>3. QED
    BY <1>1, <2>1, <2>2 DEF Range
<1>8. QED
  BY <1>1, <1>2, <1>4, <1>5, <1>6, <1>7
-----------------------------------------------------------------------------
(* The invariant is inductive.                                             *)

\* What a command is made of.
LEMMA CommandFields ==
  ASSUME NEW c \in Command
  PROVE  /\ c.operation \in {"submit_transcript", "assess_query"}
         /\ c.focus \subseteq Source
BY DEF Command, Source

\* It holds at the start.
LEMMA InitIInv == Init => IInv
<1> SUFFICES ASSUME Init PROVE IInv
  OBVIOUS
<1>1. mail \in Seq([name : Name, size : Sizes])
  <2> DEFINE File == [name : Name, size : Sizes]
  <2>1. mail \in BoundedSeq(File, MaxFiles)
    BY DEF Init
  <2> HIDE DEF File
  <2>2. PICK n \in 0..MaxFiles : mail \in [1..n -> File]
    BY <2>1 DEF BoundedSeq, SeqOf
  <2>3. n \in Nat
    BY <2>2, RequestAssumption
  <2>4. mail \in Seq(File)
    BY <2>2, <2>3
  <2> USE DEF File
  <2>5. QED
    BY <2>4
<1>2. TypeOK
  <2>1. Len(mail) \in Nat /\ Len(uploads) = 0 /\ uploads \in Seq(Nat) /\ todo \in Seq(Speakers)
    BY <1>1, EmptySeq, LenProperties DEF Init
  <2>2. stored \in 0..Len(mail) /\ meeting \in 0..Len(uploads)
    BY <2>1 DEF Init
  <2>3. QED
    BY <1>1, <2>1, <2>2 DEF Init, TypeOK, Stage
<1>3. CommandIsChecked /\ AttemptsAreBounded /\ SourcesInTurn
  BY DEF Init, CommandIsChecked, AttemptsAreBounded, SourcesInTurn,
         Requests, Submitting, Asking, Ended
<1>4. MeetingIsBuilt /\ AttendeesAreAdded
  BY DEF Init, MeetingIsBuilt, AttendeesAreAdded, NobodyAttends, Submitting, Ended
<1>5. StoredIsSound /\ CompletedIsWhole /\ OrphansAreEmpty
  BY RequestAssumption DEF Init, StoredIsSound, CompletedIsWhole, OrphansAreEmpty
<1>6. QED
  BY <1>2, <1>3, <1>4, <1>5 DEF IInv

\* A step that ends the execution short of completing it, whatever has become
\* of the backend, as long as only empty meetings are added to the job's own.
LEMMA EndsShort ==
  ASSUME IInv, stage' \in Ended \ {"completed"}, tries' = 1, lost' = FALSE,
         mail' = mail, stored' = stored, cmd' = cmd,
         stage \in {"authorise", "parse"} \/ cmd \in Command,
         stage' \in {"dropped", "deferred", "unparsed"} \/ cmd \in Command,
         meeting' = meeting, alias' = alias, todo' = todo, present' = present,
         uploads' \in Seq(Nat), Len(uploads) <= Len(uploads'), attending' \subseteq Members,
         asked' \subseteq Source, answered' \subseteq asked',
         why' \in {None, "file", "ollama", "nothing", "transient", "refused", "conflict",
                   "garbled"},
         OrphansAreEmpty'
  PROVE  IInv'
<1> USE DEF IInv, Ended
<1>1. TypeOK'
  <2>1. mail' \in Seq([name : Name, size : Sizes]) /\ stored' \in 0..Len(mail')
        /\ cmd' \in Command \cup {NoCommand}
    BY DEF TypeOK
  <2>2. stage' \in Stage /\ tries' \in Nat /\ lost' \in BOOLEAN
    BY DEF Stage
  <2>3. uploads' \in Seq(Nat) /\ meeting' \in 0..Len(uploads')
    <3>1. Len(uploads) \in Nat /\ Len(uploads') \in Nat /\ meeting \in 0..Len(uploads)
      BY LenProperties DEF TypeOK
    <3>2. QED
      BY <3>1
  <2>4. /\ alias' = <<>> \/ alias' \in [Speakers -> Members \cup {None}]
        /\ todo' \in Seq(Speakers) /\ present' \subseteq Speakers
    BY DEF TypeOK
  <2>5. asked' \subseteq Source /\ answered' \subseteq Source
    OBVIOUS
  <2>6. QED
    BY <2>1, <2>2, <2>3, <2>4, <2>5 DEF TypeOK
<1>2. CommandIsChecked' /\ AttemptsAreBounded' /\ SourcesInTurn'
  BY RequestAssumption DEF CommandIsChecked, AttemptsAreBounded, SourcesInTurn, Requests,
         Submitting, Asking
<1>3. MeetingIsBuilt' /\ AttendeesAreAdded' /\ CompletedIsWhole'
  BY DEF MeetingIsBuilt, AttendeesAreAdded, CompletedIsWhole, Submitting
<1>4. StoredIsSound'
  BY DEF StoredIsSound
<1>5. QED
  BY <1>1, <1>2, <1>3, <1>4

\* Before the execution nothing has been done at the backends, ...
LEMMA NothingDone ==
  ASSUME IInv, stage \in {"authorise", "parse", "validate", "accept"}
  PROVE  /\ uploads = <<>> /\ meeting = 0 /\ NobodyAttends /\ todo \in Seq(Speakers)
         /\ asked = {} /\ answered = {} /\ stored = 0
         /\ mail \in Seq([name : Name, size : Sizes])
BY DEF IInv, TypeOK, MeetingIsBuilt, CommandIsChecked, SourcesInTurn, Submitting, Ended

\* ... and it stays so while a step only decides about the command.
LEMMA DecidesOnly ==
  ASSUME IInv, stage \in {"authorise", "parse", "validate", "accept"},
         stage' \in {"parse", "validate", "accept", "login", "dropped", "deferred", "unparsed",
                     "clarify", "rejected"},
         stage' = "parse" \/ tries' = 1, tries' \in Nat, lost' \in BOOLEAN,
         uploads' = uploads, attending' = attending, meeting' = meeting, alias' = alias,
         todo' = todo, present' = present, asked' = asked, answered' = answered, why' = why,
         mail' = mail, cmd' \in Command \cup {NoCommand}, stored' \in 0..Len(mail),
         CommandIsChecked', StoredIsSound'
  PROVE  IInv'
<1>1. /\ uploads' = <<>> /\ meeting' = 0 /\ attending' = {} /\ present' = {} /\ alias' = <<>>
      /\ asked' = {} /\ answered' = {} /\ todo' \in Seq(Speakers)
      /\ mail' \in Seq([name : Name, size : Sizes])
  BY NothingDone DEF NobodyAttends
<1>2. TypeOK'
  <2>1. uploads' \in Seq(Nat) /\ Len(uploads') = 0
    BY <1>1, EmptySeq
  <2>2. meeting' \in 0..Len(uploads') /\ stored' \in 0..Len(mail')
    BY <1>1, <2>1
  <2>3. stage' \in Stage
    BY DEF Stage, Requests, Ended
  <2>4. why' \in {None, "file", "ollama", "nothing", "transient", "refused", "conflict",
                  "garbled"}
    BY DEF IInv, TypeOK
  <2>5. QED
    BY <1>1, <2>1, <2>2, <2>3, <2>4 DEF TypeOK
<1>3. AttemptsAreBounded' /\ SourcesInTurn'
  BY <1>1, RequestAssumption DEF AttemptsAreBounded, SourcesInTurn, Requests, Submitting,
                                 Asking, Ended
<1>4. MeetingIsBuilt' /\ AttendeesAreAdded' /\ CompletedIsWhole'
  BY <1>1 DEF MeetingIsBuilt, AttendeesAreAdded, CompletedIsWhole, NobodyAttends, Submitting,
              Ended
<1>5. OrphansAreEmpty'
  BY <1>1, EmptySeq, RequestAssumption DEF OrphansAreEmpty
<1>6. QED
  BY <1>2, <1>3, <1>4, <1>5 DEF IInv

\* The steps before the execution.
LEMMA IntakeStep ==
  ASSUME IInv,
         \/ AuthoriseSender \/ ParseEmail \/ ParseFails \/ ParseUnavailable
         \/ ValidateCommand \/ Accept
  PROVE  IInv'
<1> USE DEF Goto, intake, backend, local, sources
<1>1. /\ stage \in {"authorise", "parse", "validate", "accept"} /\ mail' = mail
      /\ uploads' = uploads /\ attending' = attending /\ meeting' = meeting
      /\ alias' = alias /\ todo' = todo /\ present' = present
      /\ asked' = asked /\ answered' = answered /\ why' = why
  BY DEF AuthoriseSender, ParseEmail, ParseFails, ParseUnavailable, ValidateCommand, Accept
<1>2. /\ cmd \in Command \cup {NoCommand} /\ tries \in Nat /\ lost \in BOOLEAN
      /\ stored = 0 /\ 0 \in 0..Len(mail)
  BY <1>1, NothingDone, LenProperties DEF IInv, TypeOK
<1>3. CASE AuthoriseSender
  <2>1. /\ stage = "authorise" /\ stage' \in {"parse", "dropped"} /\ tries' = 1
        /\ lost' = FALSE /\ cmd' = cmd /\ stored' = stored
    BY <1>3 DEF AuthoriseSender
  <2>2. stored' = 0 /\ StoredIsSound' /\ CommandIsChecked'
    BY <1>2, <2>1 DEF StoredIsSound, CommandIsChecked, Submitting, Asking
  <2>3. QED
    BY <1>1, <1>2, <2>1, <2>2, DecidesOnly
<1>4. CASE ParseEmail
  <2>1. /\ stage = "parse" /\ stage' = "validate" /\ tries' = 1
        /\ lost' = FALSE /\ cmd' \in Command /\ stored' = stored
    BY <1>4 DEF ParseEmail
  <2>2. stored' = 0 /\ StoredIsSound' /\ CommandIsChecked'
    BY <1>2, <2>1 DEF StoredIsSound, CommandIsChecked, Submitting, Asking
  <2>3. QED
    BY <1>1, <1>2, <2>1, <2>2, DecidesOnly
<1>5. CASE ParseFails
  <2>1. /\ stage = "parse" /\ tries' \in Nat /\ lost' \in BOOLEAN /\ cmd' = cmd
        /\ stored' = stored
        /\ stage' = "parse" \/ (stage' = "unparsed" /\ tries' = 1)
    <3>1. lost' = lost \/ lost' = FALSE
      BY <1>5 DEF ParseFails
    <3>2. tries' = tries + 1 \/ tries' = 1
      BY <1>5 DEF ParseFails
    <3>3. stage' = stage \/ (stage' = "unparsed" /\ tries' = 1)
      BY <1>5 DEF ParseFails
    <3>4. lost' \in BOOLEAN
      BY <1>2, <3>1
    <3>5. tries' \in Nat
      BY <1>2, <3>2
    <3>6. stage = "parse" /\ cmd' = cmd /\ stored' = stored
      BY <1>5 DEF ParseFails
    <3>7. QED
      BY <3>3, <3>4, <3>5, <3>6
  <2>2. stored' = 0 /\ StoredIsSound' /\ CommandIsChecked'
    BY <1>2, <2>1 DEF StoredIsSound, CommandIsChecked, Submitting, Asking
  <2>3. QED
    BY <1>1, <1>2, <2>1, <2>2, DecidesOnly
<1>6. CASE ParseUnavailable
  <2>1. /\ stage = "parse" /\ stage' = "deferred" /\ tries' = 1
        /\ lost' = FALSE /\ cmd' = cmd /\ stored' = stored
    BY <1>6 DEF ParseUnavailable
  <2>2. stored' = 0 /\ StoredIsSound' /\ CommandIsChecked'
    BY <1>2, <2>1 DEF StoredIsSound, CommandIsChecked, Submitting, Asking
  <2>3. QED
    BY <1>1, <1>2, <2>1, <2>2, DecidesOnly
<1>7. CASE ValidateCommand
  <2>1. /\ stage = "validate" /\ stage' \in {"accept", "clarify", "rejected"} /\ tries' = 1
        /\ lost' = FALSE /\ cmd' = cmd /\ stored' = stored /\ mail' = mail
        /\ stage' = "accept" => Validate(cmd, mail) = "valid"
    BY <1>7 DEF ValidateCommand, Validate, ValidateSubmit
  <2>2. cmd \in Command
    BY <2>1 DEF IInv, CommandIsChecked
  <2>3. stored' = 0 /\ StoredIsSound' /\ CommandIsChecked'
    BY <1>2, <2>1, <2>2 DEF StoredIsSound, CommandIsChecked, Submitting, Asking
  <2>4. QED
    BY <1>1, <1>2, <2>1, <2>2, <2>3, DecidesOnly
<1>8. CASE Accept
  <2>1. /\ stage = "accept" /\ stage' \in {"login", "rejected"} /\ tries' = 1
        /\ lost' = FALSE /\ cmd' = cmd /\ mail' = mail
        /\ IF cmd.operation = "assess_query" THEN stored' = stored
             ELSE stored' = Real(cmd, mail)
    BY <1>8 DEF Accept
  <2>2. cmd \in Command /\ Validate(cmd, mail) = "valid"
    BY <2>1 DEF IInv, CommandIsChecked
  <2>3. CommandIsChecked'
    BY <2>1, <2>2 DEF CommandIsChecked, Submitting, Asking
  <2>4. StoredIsSound' /\ stored' \in 0..Len(mail)
    <3>1. CASE cmd.operation = "assess_query"
      BY <1>2, <2>1, <3>1 DEF StoredIsSound
    <3>2. CASE cmd.operation = "submit_transcript"
      <4>1. mail \in Seq([name : Name, size : Sizes])
        BY <2>1, NothingDone
      <4>2. /\ Real(cmd, mail) \in DOMAIN mail
            /\ Acceptable(mail[Real(cmd, mail)])
            /\ \/ cmd.attachment = mail[Real(cmd, mail)].name
               \/ Ending("vtt", mail) = {Real(cmd, mail)} /\ Called(cmd.attachment, mail) = 0
        BY <2>2, <3>2, <4>1, RealIsSound
      <4>3. stored' \in 0..Len(mail)
        BY <2>1, <3>2, <4>1, <4>2
      <4>4. QED
        BY <2>1, <3>2, <4>2, <4>3 DEF StoredIsSound
    <3>3. QED
      BY <2>2, <3>1, <3>2, CommandFields
  <2>5. QED
    BY <1>1, <1>2, <2>1, <2>2, <2>3, <2>4, DecidesOnly
<1>9. QED
  BY <1>3, <1>4, <1>5, <1>6, <1>7, <1>8

\* Whoever is still to be added has a member, and has not been added.
LEMMA SpeakerIsNew ==
  ASSUME IInv, stage = "add_attendee"
  PROVE  /\ alias \in [Speakers -> Members \cup {None}]
         /\ Speaker \in Speakers /\ Speaker \notin present /\ alias[Speaker] \in Members
         /\ Tail(todo) \in Seq(Speakers) /\ IsInjective(Tail(todo))
         /\ Range(Tail(todo)) \cap (present \cup {Speaker}) = {}
         /\ Range(Tail(todo)) \cup (present \cup {Speaker}) = {s \in Speakers : alias[s] # None}
<1>1. /\ alias \in [Speakers -> Members \cup {None}]
      /\ todo \in Seq(Speakers) /\ todo # <<>> /\ IsInjective(todo)
      /\ Range(todo) \cap present = {}
      /\ Range(todo) \cup present = {s \in Speakers : alias[s] # None}
  BY DEF IInv, TypeOK, AttendeesAreAdded
<1>2. /\ Speaker \in Speakers /\ Speaker \notin Range(Tail(todo))
      /\ Tail(todo) \in Seq(Speakers) /\ IsInjective(Tail(todo))
      /\ Range(todo) = {Speaker} \cup Range(Tail(todo))
  BY <1>1, TailOfListed DEF Speaker
<1>3. alias[Speaker] # None /\ Speaker \notin present
  BY <1>1, <1>2
<1>4. QED
  BY <1>1, <1>2, <1>3

\* What becomes of the backend when a request is carried out.
LEMMA BackendAfter ==
  ASSUME IInv, stage \in Requests, CarriedOut
  PROVE  /\ stage = "create_meeting" =>
              /\ Len(uploads') = Len(uploads) + 1
              /\ \A m \in 1..Len(uploads') : uploads'[m] = 0
         /\ stage = "upload_file" =>
              /\ meeting \in DOMAIN uploads /\ Len(uploads') = Len(uploads)
              /\ uploads'[meeting] = uploads[meeting] + 1
              /\ \A m \in DOMAIN uploads \ {meeting} : uploads'[m] = uploads[m]
         /\ stage \notin {"create_meeting", "upload_file"} => uploads' = uploads
         /\ stage = "add_attendee" => attending' = attending \cup {alias[Speaker]}
         /\ stage # "add_attendee" => attending' = attending
         /\ uploads' \in Seq(Nat) /\ attending' \subseteq Members
<1>1. /\ uploads \in Seq(Nat) /\ Len(uploads) \in Nat /\ DOMAIN uploads = 1..Len(uploads)
      /\ meeting \in 0..Len(uploads) /\ attending \subseteq Members
  BY LenProperties DEF IInv, TypeOK
<1>2. CASE stage = "create_meeting"
  <2>1. uploads' = Append(uploads, 0) /\ attending' = attending
    BY <1>2 DEF CarriedOut
  <2>2. \A m \in DOMAIN uploads : uploads[m] = 0
    <3>1. meeting = 0
      BY <1>2 DEF IInv, MeetingIsBuilt
    <3>2. \A m \in DOMAIN uploads : uploads[m] \in Nat /\ uploads[m] <= 0
      BY <1>1, <3>1 DEF IInv, OrphansAreEmpty
    <3>3. QED
      BY <3>2
  <2>3. QED
    BY <1>1, <1>2, <2>1, <2>2
<1>3. CASE stage = "upload_file"
  <2>1. uploads' = [uploads EXCEPT ![meeting] = uploads[meeting] + 1] /\ attending' = attending
    BY <1>3 DEF CarriedOut
  <2>2. meeting \in DOMAIN uploads
    BY <1>1, <1>3 DEF IInv, MeetingIsBuilt, Submitting
  <2>3. uploads[meeting] + 1 \in Nat
    BY <1>1, <2>2
  <2>4. uploads' \in Seq(Nat) /\ Len(uploads') = Len(uploads)
    BY <1>1, <2>1, <2>2, <2>3, ExceptSeq
  <2>5. QED
    BY <1>1, <1>3, <2>1, <2>2, <2>4
<1>4. CASE stage = "add_attendee"
  <2>1. attending' = attending \cup {alias[Speaker]} /\ uploads' = uploads
    BY <1>4 DEF CarriedOut
  <2>2. QED
    BY <1>1, <1>4, <2>1, SpeakerIsNew
<1>5. CASE stage \notin {"create_meeting", "upload_file", "add_attendee"}
  BY <1>1, <1>5 DEF CarriedOut, backend
<1>6. QED
  BY <1>2, <1>3, <1>4, <1>5

\* Whether a request is carried out or not, all meetings but the job's own
\* stay empty, and their number stays below that of the attempts.
LEMMA OrphansStayEmpty ==
  ASSUME IInv, stage \in Requests,
         CarriedOut \/ (uploads' = uploads /\ attending' = attending),
         meeting' = meeting
  PROVE  /\ OrphansAreEmpty' /\ Len(uploads) <= Len(uploads')
         /\ uploads' \in Seq(Nat) /\ attending' \subseteq Members
<1>1. /\ uploads \in Seq(Nat) /\ Len(uploads) \in Nat /\ DOMAIN uploads = 1..Len(uploads)
      /\ meeting \in 0..Len(uploads) /\ attending \subseteq Members
      /\ tries \in 1..MaxAttempts /\ MaxAttempts \in Nat
  BY LenProperties, RequestAssumption DEF IInv, TypeOK, AttemptsAreBounded
<1>2. CASE uploads' = uploads /\ attending' = attending
  BY <1>1, <1>2 DEF IInv, OrphansAreEmpty
<1>3. CASE CarriedOut
  <2>1. uploads' \in Seq(Nat) /\ attending' \subseteq Members
    BY <1>3, BackendAfter
  <2>2. Len(uploads') \in Nat /\ DOMAIN uploads' = 1..Len(uploads')
    BY <2>1, LenProperties
  <2>3. CASE stage = "create_meeting"
    <3>1. Len(uploads') = Len(uploads) + 1 /\ \A m \in 1..Len(uploads') : uploads'[m] = 0
      BY <1>3, <2>3, BackendAfter
    <3>2. Len(uploads) < tries
      BY <2>3 DEF IInv, MeetingIsBuilt
    <3>3. QED
      BY <1>1, <2>1, <2>2, <3>1, <3>2 DEF OrphansAreEmpty
  <2>4. CASE stage = "upload_file"
    <3>1. /\ meeting \in DOMAIN uploads /\ Len(uploads') = Len(uploads)
          /\ uploads'[meeting] = uploads[meeting] + 1
          /\ \A m \in DOMAIN uploads \ {meeting} : uploads'[m] = uploads[m]
      BY <1>3, <2>4, BackendAfter
    <3>2. uploads[meeting] \in Nat /\ uploads[meeting] < tries
      BY <1>1, <2>4, <3>1 DEF IInv, MeetingIsBuilt
    <3>3. uploads'[meeting] <= MaxAttempts
      BY <1>1, <3>1, <3>2
    <3>4. QED
      BY <1>1, <2>1, <2>2, <3>1, <3>3 DEF IInv, OrphansAreEmpty
  <2>5. CASE stage \notin {"create_meeting", "upload_file"}
    <3>1. uploads' = uploads
      BY <1>3, <2>5, BackendAfter
    <3>2. QED
      BY <1>1, <2>1, <3>1 DEF IInv, OrphansAreEmpty
  <2>6. QED
    BY <2>3, <2>4, <2>5
<1>4. QED
  BY <1>2, <1>3

\* A request that is repeated, its last attempt carried out or not.
LEMMA AgainStep ==
  ASSUME IInv, stage \in Requests, NEW l, Again(l), tries < MaxAttempts,
         mail' = mail, cmd' = cmd, stored' = stored,
         \/ CarriedOut /\ l = TRUE
         \/ uploads' = uploads /\ attending' = attending /\ l = lost
  PROVE  IInv'
<1>1. /\ tries' = tries + 1 /\ lost' = l /\ stage' = stage
      /\ meeting' = meeting /\ alias' = alias /\ todo' = todo /\ present' = present
      /\ asked' = asked /\ answered' = answered /\ why' = why
  BY DEF Again, local, sources
<1>2. tries \in 1..MaxAttempts /\ MaxAttempts \in Nat /\ tries' \in 1..MaxAttempts
  BY <1>1, RequestAssumption DEF IInv, AttemptsAreBounded
<1>3. /\ OrphansAreEmpty' /\ Len(uploads) <= Len(uploads')
      /\ uploads' \in Seq(Nat) /\ attending' \subseteq Members
  BY <1>1, OrphansStayEmpty
<1>4. TypeOK'
  <2>1. lost' \in BOOLEAN
    <3>1. l = TRUE \/ l = lost
      OBVIOUS
    <3>2. lost \in BOOLEAN
      BY DEF IInv, TypeOK
    <3>3. QED
      BY <1>1, <3>1, <3>2
  <2>2. meeting' \in 0..Len(uploads')
    <3>1. meeting \in 0..Len(uploads) /\ Len(uploads) \in Nat /\ Len(uploads') \in Nat
      BY <1>3, LenProperties DEF IInv, TypeOK
    <3>2. QED
      BY <1>1, <1>3, <3>1
  <2>3. QED
    BY <1>1, <1>2, <1>3, <2>1, <2>2 DEF IInv, TypeOK
<1>5. CommandIsChecked' /\ AttemptsAreBounded' /\ SourcesInTurn' /\ StoredIsSound'
  <2>1. CommandIsChecked'
    BY <1>1 DEF IInv, CommandIsChecked, Submits, Assesses
  <2>2. AttemptsAreBounded'
    BY <1>2 DEF AttemptsAreBounded
  <2>3. SourcesInTurn' /\ StoredIsSound'
    BY <1>1 DEF IInv, SourcesInTurn, StoredIsSound
  <2>4. QED
    BY <2>1, <2>2, <2>3
<1>6. CompletedIsWhole'
  BY <1>1 DEF CompletedIsWhole, Requests, Submitting, Asking
<1>7. MeetingIsBuilt'
  <2>1. uploads \in Seq(Nat) /\ Len(uploads) \in Nat
    BY LenProperties DEF IInv, TypeOK
  <2>2. CASE stage = "create_meeting"
    <3>1. Len(uploads) < tries /\ meeting = 0 /\ NobodyAttends
      BY <2>2 DEF IInv, MeetingIsBuilt
    <3>2. Len(uploads') \in {Len(uploads), Len(uploads) + 1} /\ attending' = attending
      BY <2>2, BackendAfter
    <3>3. QED
      BY <1>1, <1>2, <2>1, <2>2, <3>1, <3>2 DEF MeetingIsBuilt, NobodyAttends, Submitting, Ended
  <2>3. CASE stage = "upload_file"
    <3>1. uploads[meeting] < tries /\ meeting # 0 /\ NobodyAttends /\ meeting \in DOMAIN uploads
      BY <2>1, <2>3 DEF IInv, TypeOK, MeetingIsBuilt, Submitting
    <3>2. /\ uploads'[meeting] \in {uploads[meeting], uploads[meeting] + 1}
          /\ attending' = attending
      BY <2>3, BackendAfter
    <3>3. uploads[meeting] \in Nat
      BY <2>1, <3>1
    <3>4. QED
      BY <1>1, <1>2, <2>3, <3>1, <3>2, <3>3 DEF MeetingIsBuilt, NobodyAttends, Submitting, Ended
  <2>4. CASE stage \notin {"create_meeting", "upload_file"}
    <3>1. uploads' = uploads /\ (stage # "add_attendee" => attending' = attending)
      BY <2>4, BackendAfter
    <3>2. QED
      BY <1>1, <2>4, <3>1 DEF IInv, MeetingIsBuilt, NobodyAttends, Submitting, Ended
  <2>5. QED
    BY <2>2, <2>3, <2>4
<1>8. AttendeesAreAdded'
  <2>1. SUFFICES ASSUME stage = "add_attendee" PROVE AttendeesAreAdded'
    BY <1>1 DEF AttendeesAreAdded
  <2>2. attending = {alias[s] : s \in present} \cup (IF lost THEN {alias[Speaker]} ELSE {})
    BY <2>1 DEF IInv, AttendeesAreAdded
  <2>3. Speaker' = Speaker
    BY <1>1 DEF Speaker
  <2>4. attending' =
          {alias'[s] : s \in present'} \cup (IF lost' THEN {alias'[Speaker']} ELSE {})
    <3>1. CASE CarriedOut /\ l = TRUE
      <4>1. attending' = attending \cup {alias[Speaker]}
        BY <2>1, <3>1, BackendAfter
      <4>2. QED
        BY <1>1, <2>2, <2>3, <3>1, <4>1
    <3>2. CASE attending' = attending /\ l = lost
      BY <1>1, <2>2, <2>3, <3>2
    <3>3. QED
      BY <3>1, <3>2
  <2>5. QED
    BY <1>1, <2>4 DEF IInv, AttendeesAreAdded
<1>9. QED
  BY <1>3, <1>4, <1>5, <1>6, <1>7, <1>8 DEF IInv

\* What is known of the command once it is being executed.
LEMMA CommandOf ==
  ASSUME IInv, stage \in {"read", "generate", "conclude"} \cup Requests
  PROVE  /\ cmd \in Command /\ cmd.focus \subseteq Source
         /\ cmd.operation \in {"submit_transcript", "assess_query"}
         /\ stage \in {"read"} \cup Submitting => cmd.operation = "submit_transcript"
         /\ stage \in {"generate", "conclude"} \cup Asking => cmd.operation = "assess_query"
<1>1. cmd \in Command
  BY DEF IInv, CommandIsChecked, Requests, Submitting, Asking
<1>2. QED
  BY <1>1, CommandFields DEF IInv, CommandIsChecked, Submits, Assesses

\* A step that goes on at the login, or with the next source of a question.
LEMMA AsksOn ==
  ASSUME IInv, stage \in {"login", "list_groups", "generate", "conclude"} \cup Asking,
         stage' \in {"list_groups", "create_meeting", "generate", "conclude", "completed"}
                    \cup Asking,
         stage' = "create_meeting" => cmd.operation = "submit_transcript",
         stage' \notin {"list_groups", "create_meeting"} => cmd.operation = "assess_query",
         tries' = 1, lost' = FALSE, mail' = mail, cmd' = cmd, stored' = stored,
         uploads' = uploads, attending' = attending, meeting' = meeting, alias' = alias,
         todo' = todo, present' = present, why' = why, asked' \subseteq Source,
         SourcesInTurn'
  PROVE  IInv'
<1>1. cmd \in Command
  BY CommandOf DEF Requests
<1>2. uploads = <<>> /\ meeting = 0 /\ NobodyAttends
  BY DEF IInv, MeetingIsBuilt, Asking, Submitting, Ended
<1>3. TypeOK'
  <2>1. stage' \in Stage
    BY DEF Stage, Requests, Submitting, Ended
  <2>2. answered' \subseteq Source
    BY DEF SourcesInTurn
  <2>3. QED
    BY <2>1, <2>2 DEF IInv, TypeOK
<1>4. CommandIsChecked'
  BY <1>1 DEF CommandIsChecked, Submitting, Asking, Submits, Assesses
<1>5. AttemptsAreBounded' /\ AttendeesAreAdded'
  BY RequestAssumption DEF AttemptsAreBounded, AttendeesAreAdded, Asking
<1>6. MeetingIsBuilt'
  BY <1>2, EmptySeq DEF MeetingIsBuilt, NobodyAttends, Asking, Submitting, Ended
<1>7. StoredIsSound' /\ CompletedIsWhole' /\ OrphansAreEmpty'
  BY DEF IInv, StoredIsSound, CompletedIsWhole, OrphansAreEmpty, Submits
<1>8. QED
  BY <1>3, <1>4, <1>5, <1>6, <1>7 DEF IInv

\* A step that goes on with a submission.
LEMMA SubmitsOn ==
  ASSUME IInv, stage \in {"read"} \cup Submitting,
         stage' \in {"read", "upload_file", "resolve_aliases", "add_attendee", "completed"},
         tries' = 1, lost' = FALSE, mail' = mail, cmd' = cmd, stored' = stored,
         asked' = asked, answered' = answered, why' = why,
         uploads' \in Seq(Nat), attending' \subseteq Members, meeting' \in 0..Len(uploads'),
         alias' = <<>> \/ alias' \in [Speakers -> Members \cup {None}],
         todo' \in Seq(Speakers), present' \subseteq Speakers,
         MeetingIsBuilt', AttendeesAreAdded', CompletedIsWhole', OrphansAreEmpty'
  PROVE  IInv'
<1>1. cmd \in Command /\ cmd.operation = "submit_transcript"
  BY CommandOf DEF Requests
<1>2. TypeOK'
  <2>1. stage' \in Stage
    BY DEF Stage, Requests, Submitting, Ended
  <2>2. QED
    BY <2>1 DEF IInv, TypeOK
<1>3. CommandIsChecked' /\ AttemptsAreBounded'
  BY <1>1, RequestAssumption DEF CommandIsChecked, AttemptsAreBounded, Submitting, Asking,
                                 Submits, Assesses
<1>4. SourcesInTurn'
  <2>1. asked = {} /\ answered = {}
    BY DEF IInv, SourcesInTurn, Submitting, Ended
  <2>2. QED
    BY <2>1 DEF SourcesInTurn, Ended
<1>5. StoredIsSound'
  BY DEF IInv, StoredIsSound
<1>6. QED
  BY <1>2, <1>3, <1>4, <1>5 DEF IInv

\* An answer to the login, or to the question for the groups.
LEMMA GroupStep ==
  ASSUME IInv, CarriedOut, ProceedGroup, mail' = mail, cmd' = cmd, stored' = stored,
         meeting' = meeting, alias' = alias, todo' = todo, present' = present,
         asked' = asked, answered' = answered, why' = why
  PROVE  IInv'
<1>1. stage \in {"login", "list_groups"} /\ stage \in Requests
  BY DEF ProceedGroup, Requests
<1>2. uploads' = uploads /\ attending' = attending
  BY <1>1, BackendAfter
<1>3. cmd \in Command /\ cmd.focus \subseteq Source
  BY <1>1, CommandOf
<1>4. /\ tries' = 1 /\ lost' = FALSE
      /\ stage' \in {"list_groups", "ask_group", "create_meeting", "search_transcripts",
                     "find_repo", "conclude"}
      /\ stage' = "create_meeting" => cmd.operation = "submit_transcript"
      /\ stage' \notin {"list_groups", "ask_group", "create_meeting"} =>
           cmd.operation = "assess_query"
      /\ stage' = "search_transcripts" => "transcripts" \in cmd.focus
      /\ stage' \in {"find_repo", "conclude"} => "transcripts" \notin cmd.focus
      /\ stage' = "find_repo" => "github" \in cmd.focus
      /\ stage' = "conclude" => "github" \notin cmd.focus
  BY DEF ProceedGroup, AskGithub, Goto
<1>5. asked = {} /\ answered = {}
  BY <1>1 DEF IInv, SourcesInTurn, Ended
<1>6. CASE stage' = "ask_group"
  <2>1. OrphansAreEmpty' /\ uploads' \in Seq(Nat) /\ Len(uploads) <= Len(uploads')
        /\ attending' \subseteq Members
    BY <1>1, <1>2, OrphansStayEmpty
  <2>2. why \in {None, "file", "ollama", "nothing", "transient", "refused", "conflict",
                 "garbled"}
    BY DEF IInv, TypeOK
  <2>3. QED
    BY <1>3, <1>4, <1>5, <1>6, <2>1, <2>2, EndsShort DEF Ended
<1>7. CASE stage' # "ask_group"
  <2>1. SourcesInTurn'
    BY <1>3, <1>4, <1>5, <1>7 DEF SourcesInTurn, Source, Ended
  <2>2. QED
    BY <1>1, <1>2, <1>4, <1>5, <1>7, <2>1, AsksOn DEF Asking
<1>8. QED
  BY <1>6, <1>7

\* An answer of a source of a question, ...
LEMMA AskStep ==
  ASSUME IInv, CarriedOut, ProceedAsk, mail' = mail, cmd' = cmd, stored' = stored,
         meeting' = meeting, alias' = alias, todo' = todo, present' = present, why' = why
  PROVE  IInv'
<1>1. stage \in Asking /\ stage \in Requests
  BY DEF ProceedAsk, Asking, Requests
<1>2. uploads' = uploads /\ attending' = attending
  BY <1>1, BackendAfter DEF Asking
<1>3. /\ cmd \in Command /\ cmd.focus \subseteq Source
      /\ cmd.operation = "assess_query"
  BY <1>1, CommandOf
<1>4. asked \subseteq Source /\ answered \subseteq asked
  BY DEF IInv, TypeOK, SourcesInTurn
<1>5. /\ tries' = 1 /\ lost' = FALSE
      /\ stage' \in {"generate", "conclude", "completed"} \cup Asking
      /\ asked' \subseteq Source
  BY <1>4 DEF ProceedAsk, AskGithub, Goto, Asking, Source
<1>6. SourcesInTurn'
  <2>1. CASE stage = "search_transcripts"
    <3>1. asked = {} /\ answered = {} /\ "transcripts" \in cmd.focus
      BY <2>1 DEF IInv, SourcesInTurn, Ended
    <3>2. /\ stage' \in {"generate", "find_repo", "conclude"} /\ asked' = {"transcripts"}
          /\ stage' = "generate" => answered' = {}
          /\ answered' \subseteq {"transcripts"}
          /\ stage' = "find_repo" => "github" \in cmd.focus
          /\ stage' = "conclude" => "github" \notin cmd.focus
      BY <2>1, <3>1 DEF ProceedAsk, AskGithub, Goto
    <3>3. QED
      BY <1>3, <3>1, <3>2 DEF SourcesInTurn, Source, Ended
  <2>2. CASE stage \in {"find_repo", "query"}
    <3>1. "github" \in cmd.focus /\ asked = cmd.focus \ {"github"}
      BY <2>2 DEF IInv, SourcesInTurn
    <3>2. \/ stage' = "query" /\ asked' = asked /\ answered' = answered
          \/ /\ stage' = "conclude" /\ asked' = asked \cup {"github"}
             /\ answered' \subseteq answered \cup {"github"}
      BY <2>2 DEF ProceedAsk, Goto
    <3>3. QED
      BY <1>3, <1>4, <3>1, <3>2 DEF SourcesInTurn, Ended
  <2>3. QED
    BY <1>1, <2>1, <2>2 DEF Asking
<1>7. QED
  BY <1>1, <1>2, <1>3, <1>5, <1>6, AsksOn DEF Asking

\* ... and its absence.
LEMMA PassOver ==
  ASSUME IInv, stage \in Asking, uploads' = uploads, attending' = attending,
         mail' = mail, cmd' = cmd, stored' = stored, NEW e, Catch(e)
  PROVE  IInv'
<1>1. /\ meeting' = meeting /\ alias' = alias /\ todo' = todo /\ present' = present
      /\ answered' = answered /\ why' = why /\ tries' = 1 /\ lost' = FALSE
  <2>1. /\ meeting' = meeting /\ alias' = alias /\ todo' = todo /\ present' = present
        /\ answered' = answered
    BY DEF Catch, local
  <2>2. why' = why /\ tries' = 1 /\ lost' = FALSE
    BY DEF Catch, AskGithub, Goto, Asking
  <2>3. QED
    BY <2>1, <2>2
<1>2. /\ cmd \in Command /\ cmd.focus \subseteq Source
      /\ cmd.operation = "assess_query"
  BY CommandOf DEF Requests
<1>3. asked \subseteq Source /\ answered \subseteq asked
  BY DEF IInv, TypeOK, SourcesInTurn
<1>4. SourcesInTurn' /\ asked' \subseteq Source
      /\ stage' \in {"conclude", "find_repo"}
  <2>1. CASE stage = "search_transcripts"
    <3>1. asked = {} /\ answered = {} /\ "transcripts" \in cmd.focus
      BY <2>1 DEF IInv, SourcesInTurn, Ended
    <3>2. /\ stage' \in {"find_repo", "conclude"} /\ asked' = {"transcripts"}
          /\ stage' = "find_repo" => "github" \in cmd.focus
          /\ stage' = "conclude" => "github" \notin cmd.focus
      BY <2>1, <3>1 DEF Catch, AskGithub, Goto, Asking
    <3>3. QED
      BY <1>1, <1>2, <3>1, <3>2 DEF SourcesInTurn, Source, Ended
  <2>2. CASE stage \in {"find_repo", "query"}
    <3>1. "github" \in cmd.focus /\ asked = cmd.focus \ {"github"}
      BY <2>2 DEF IInv, SourcesInTurn
    <3>2. stage' = "conclude" /\ asked' = asked \cup {"github"}
      BY <2>2 DEF Catch, Goto, Asking
    <3>3. QED
      BY <1>1, <1>2, <1>3, <3>1, <3>2 DEF SourcesInTurn, Ended
  <2>3. QED
    BY <2>1, <2>2 DEF Asking
<1>5. QED
  BY <1>1, <1>2, <1>4, AsksOn DEF Asking

\* An error of a client that reaches the handler.
LEMMA CatchStep ==
  ASSUME IInv, stage \in Requests,
         CarriedOut \/ (uploads' = uploads /\ attending' = attending),
         mail' = mail, cmd' = cmd, stored' = stored,
         NEW e \in {"transient", "refused", "conflict"}, Catch(e)
  PROVE  IInv'
<1>1. CASE stage \in Asking
  <2>1. uploads' = uploads /\ attending' = attending
    BY <1>1, BackendAfter DEF Asking
  <2>2. QED
    BY <1>1, <2>1, PassOver
<1>2. CASE stage \notin Asking
  <2>1. /\ stage' = "failed" /\ tries' = 1 /\ lost' = FALSE /\ why' = e
        /\ meeting' = meeting /\ alias' = alias /\ todo' = todo /\ present' = present
        /\ asked' = asked /\ answered' = answered
    BY <1>2 DEF Catch, Fail, Goto, local, Asking
  <2>2. OrphansAreEmpty' /\ uploads' \in Seq(Nat) /\ Len(uploads) <= Len(uploads')
        /\ attending' \subseteq Members
    BY <2>1, OrphansStayEmpty
  <2>3. asked \subseteq Source /\ answered \subseteq asked /\ cmd \in Command
    BY CommandOf DEF IInv, TypeOK, SourcesInTurn
  <2>4. QED
    BY <2>1, <2>2, <2>3, EndsShort DEF Ended
<1>3. QED
  BY <1>1, <1>2

\* An answer to a request of a submission: the meeting is the job's, ...
LEMMA MeetingStep ==
  ASSUME IInv, stage = "create_meeting", CarriedOut, ProceedSubmit,
         mail' = mail, cmd' = cmd, stored' = stored,
         asked' = asked, answered' = answered, why' = why
  PROVE  IInv'
<1>1. /\ meeting' = Len(uploads') /\ stage' = "read" /\ tries' = 1 /\ lost' = FALSE
      /\ alias' = alias /\ todo' = todo /\ present' = present
  BY DEF ProceedSubmit, Goto, local
<1>2. /\ Len(uploads') = Len(uploads) + 1 /\ \A m \in 1..Len(uploads') : uploads'[m] = 0
      /\ attending' = attending /\ uploads' \in Seq(Nat) /\ attending' \subseteq Members
  BY BackendAfter DEF Requests, Submitting
<1>3. Len(uploads) \in Nat /\ Len(uploads) < tries /\ NobodyAttends
  BY LenProperties DEF IInv, TypeOK, MeetingIsBuilt
<1>4. tries \in 1..MaxAttempts /\ MaxAttempts \in Nat
  BY RequestAssumption DEF IInv, AttemptsAreBounded, Requests, Submitting
<1>5. meeting' \in 1..Len(uploads') /\ Len(uploads') <= MaxAttempts
  BY <1>1, <1>2, <1>3, <1>4
<1>6. MeetingIsBuilt'
  BY <1>1, <1>2, <1>3, <1>5 DEF MeetingIsBuilt, NobodyAttends, Submitting, Ended
<1>7. OrphansAreEmpty'
  <2>1. DOMAIN uploads' = 1..Len(uploads')
    BY <1>2, LenProperties
  <2>2. QED
    BY <1>2, <1>4, <1>5, <2>1 DEF OrphansAreEmpty
<1>8. AttendeesAreAdded' /\ CompletedIsWhole'
  BY <1>1 DEF AttendeesAreAdded, CompletedIsWhole
<1>9. /\ todo' \in Seq(Speakers) /\ present' \subseteq Speakers
      /\ alias' = <<>> \/ alias' \in [Speakers -> Members \cup {None}]
  BY <1>1 DEF IInv, TypeOK
<1>10. meeting' \in 0..Len(uploads')
  BY <1>5
<1>11. QED
  BY <1>1, <1>2, <1>6, <1>7, <1>8, <1>9, <1>10, SubmitsOn DEF Submitting

\* ... the file is in it, ...
LEMMA UploadStep ==
  ASSUME IInv, stage = "upload_file", CarriedOut, ProceedSubmit,
         mail' = mail, cmd' = cmd, stored' = stored,
         asked' = asked, answered' = answered, why' = why
  PROVE  IInv'
<1>1. /\ stage' \in {"completed", "resolve_aliases"} /\ tries' = 1 /\ lost' = FALSE
      /\ meeting' = meeting /\ alias' = alias /\ todo' = todo /\ present' = present
  BY DEF ProceedSubmit, Goto, local
<1>2. /\ meeting \in DOMAIN uploads /\ Len(uploads') = Len(uploads)
      /\ uploads'[meeting] = uploads[meeting] + 1 /\ attending' = attending
  BY BackendAfter DEF Requests, Submitting
<1>3. OrphansAreEmpty' /\ uploads' \in Seq(Nat) /\ attending' \subseteq Members
  BY <1>1, OrphansStayEmpty DEF Requests, Submitting
<1>4. meeting # 0 /\ uploads[meeting] \in Nat /\ NobodyAttends
  BY <1>2 DEF IInv, TypeOK, MeetingIsBuilt, Submitting
<1>5. uploads'[meeting'] > 0
  BY <1>1, <1>2, <1>4
<1>6. MeetingIsBuilt'
  BY <1>1, <1>2, <1>4, <1>5 DEF MeetingIsBuilt, NobodyAttends, Submitting, Ended
<1>7. AttendeesAreAdded' /\ CompletedIsWhole'
  BY <1>1, <1>2, <1>4, <1>5 DEF AttendeesAreAdded, CompletedIsWhole, NobodyAttends
<1>8. /\ todo' \in Seq(Speakers) /\ present' \subseteq Speakers
      /\ alias' = <<>> \/ alias' \in [Speakers -> Members \cup {None}]
      /\ meeting' \in 0..Len(uploads')
  BY <1>1, <1>2 DEF IInv, TypeOK
<1>9. QED
  BY <1>1, <1>3, <1>6, <1>7, <1>8, SubmitsOn DEF Submitting

\* ... the speakers have members, ...
LEMMA AliasStep ==
  ASSUME IInv, stage = "resolve_aliases", CarriedOut, ProceedSubmit,
         mail' = mail, cmd' = cmd, stored' = stored,
         asked' = asked, answered' = answered, why' = why
  PROVE  IInv'
<1> DEFINE Named == {s \in Speakers : alias'[s] # None}
<1>1. /\ alias' \in [Speakers -> Members \cup {None}] /\ todo' = SetToSeq(Named)
      /\ stage' = (IF todo' = <<>> THEN "completed" ELSE "add_attendee")
      /\ tries' = 1 /\ lost' = FALSE /\ meeting' = meeting /\ present' = present
  BY DEF ProceedSubmit, NextAttendee, Goto
<1>2. uploads' = uploads /\ attending' = attending
  BY BackendAfter DEF Requests, Submitting
<1>3. OrphansAreEmpty' /\ uploads' \in Seq(Nat) /\ attending' \subseteq Members
  BY <1>1, OrphansStayEmpty DEF Requests, Submitting
<1>4. meeting # 0 /\ uploads[meeting] > 0 /\ attending = {} /\ present = {}
  BY DEF IInv, MeetingIsBuilt, NobodyAttends, Submitting
<1>5. todo' \in Seq(Speakers) /\ IsInjective(todo') /\ Range(todo') = Named
  <2>1. IsFiniteSet(Named) /\ Named \subseteq Speakers
    BY RequestAssumption, FS_Subset
  <2> HIDE DEF Named
  <2>2. todo' \in Seq(Named) /\ IsInjective(todo') /\ Range(todo') = Named
    BY <1>1, <2>1, ListedOnce
  <2>3. QED
    BY <2>1, <2>2, SeqMonotonic
<1>6. todo' = <<>> => Named = {}
  BY <1>5 DEF Range
<1>7. MeetingIsBuilt'
  BY <1>1, <1>2, <1>4 DEF MeetingIsBuilt, Submitting, Ended
<1>8. AttendeesAreAdded'
  BY <1>1, <1>2, <1>4, <1>5 DEF AttendeesAreAdded
<1>9. CompletedIsWhole'
  BY <1>1, <1>2, <1>4, <1>6 DEF CompletedIsWhole
<1>10. present' \subseteq Speakers /\ meeting' \in 0..Len(uploads')
  BY <1>1, <1>2 DEF IInv, TypeOK
<1>11. QED
  BY <1>1, <1>3, <1>5, <1>7, <1>8, <1>9, <1>10, SubmitsOn DEF Submitting

\* ... and one more attends.
LEMMA AttendeeStep ==
  ASSUME IInv, stage = "add_attendee", CarriedOut, ProceedSubmit,
         mail' = mail, cmd' = cmd, stored' = stored,
         asked' = asked, answered' = answered, why' = why
  PROVE  IInv'
<1>1. /\ present' = present \cup {Speaker} /\ todo' = Tail(todo)
      /\ stage' = (IF todo' = <<>> THEN "completed" ELSE "add_attendee")
      /\ tries' = 1 /\ lost' = FALSE /\ meeting' = meeting /\ alias' = alias
  BY DEF ProceedSubmit, NextAttendee, Goto
<1>2. uploads' = uploads /\ attending' = attending \cup {alias[Speaker]}
  BY BackendAfter DEF Requests, Submitting
<1>3. OrphansAreEmpty' /\ uploads' \in Seq(Nat) /\ attending' \subseteq Members
  BY <1>1, OrphansStayEmpty DEF Requests, Submitting
<1>4. meeting # 0 /\ uploads[meeting] > 0
  BY DEF IInv, MeetingIsBuilt, Submitting
<1>5. /\ alias' \in [Speakers -> Members \cup {None}]
      /\ todo' \in Seq(Speakers) /\ IsInjective(todo') /\ present' \subseteq Speakers
      /\ Range(todo') \cap present' = {}
      /\ Range(todo') \cup present' = {s \in Speakers : alias'[s] # None}
  BY <1>1, SpeakerIsNew DEF IInv, TypeOK
<1>6. attending' = {alias'[s] : s \in present'}
  <2>1. attending = {alias[s] : s \in present} \cup (IF lost THEN {alias[Speaker]} ELSE {})
    BY DEF IInv, AttendeesAreAdded
  <2>2. QED
    BY <1>1, <1>2, <2>1
<1>7. MeetingIsBuilt'
  BY <1>1, <1>2, <1>4 DEF MeetingIsBuilt, Submitting, Ended
<1>8. AttendeesAreAdded'
  BY <1>1, <1>5, <1>6 DEF AttendeesAreAdded
<1>9. CompletedIsWhole'
  <2>1. todo' = <<>> => present' = {s \in Speakers : alias'[s] # None}
    BY <1>5 DEF Range
  <2>2. QED
    BY <1>1, <1>2, <1>4, <1>6, <2>1 DEF CompletedIsWhole
<1>10. meeting' \in 0..Len(uploads')
  BY <1>1, <1>2 DEF IInv, TypeOK
<1>11. QED
  BY <1>1, <1>3, <1>5, <1>7, <1>8, <1>9, <1>10, SubmitsOn DEF Submitting

\* What is done between two requests.
LEMMA BetweenStep ==
  ASSUME IInv, ReadTranscript \/ Synthesise \/ Conclude
  PROVE  IInv'
<1>1. /\ mail' = mail /\ cmd' = cmd /\ stored' = stored
      /\ uploads' = uploads /\ attending' = attending
      /\ meeting' = meeting /\ alias' = alias /\ todo' = todo /\ present' = present
      /\ asked' = asked /\ stage \in {"read", "generate", "conclude"}
  BY DEF ReadTranscript, Synthesise, Conclude, intake, backend, local, sources
<1>2. tries' = 1 /\ lost' = FALSE
  BY DEF ReadTranscript, Synthesise, Conclude, AskGithub, Goto, Fail
<1>3. /\ uploads \in Seq(Nat) /\ attending \subseteq Members /\ OrphansAreEmpty
      /\ Len(uploads) \in Nat /\ asked \subseteq Source /\ answered \subseteq asked
  BY LenProperties DEF IInv, TypeOK, SourcesInTurn
<1>4. cmd \in Command /\ cmd.focus \subseteq Source
  BY <1>1, CommandOf
<1>5. CASE stage' = "failed"
  <2>1. answered' = answered /\ why' \in {"file", "ollama", "nothing"}
    <3>1. CASE ReadTranscript \/ Conclude
      BY <1>5, <3>1 DEF ReadTranscript, Conclude, Goto, Fail, sources
    <3>2. CASE Synthesise
      BY <1>5, <3>2 DEF Synthesise, AskGithub, Goto, Fail
    <3>3. QED
      BY <3>1, <3>2
  <2>2. OrphansAreEmpty'
    BY <1>1, <1>3 DEF OrphansAreEmpty
  <2>3. stage' \in Ended \ {"completed"}
    BY <1>5 DEF Ended
  <2>4. /\ uploads' \in Seq(Nat) /\ Len(uploads) <= Len(uploads') /\ attending' \subseteq Members
        /\ asked' \subseteq Source /\ answered' \subseteq asked'
    BY <1>1, <1>3, <2>1
  <2>5. QED
    BY <1>1, <1>2, <1>4, <2>1, <2>2, <2>3, <2>4, EndsShort
<1>6. CASE ReadTranscript /\ stage' # "failed"
  <2>1. stage = "read" /\ stage' = "upload_file" /\ answered' = answered /\ why' = why
    BY <1>6 DEF ReadTranscript, Goto, Fail, sources
  <2>2. MeetingIsBuilt'
    BY <1>1, <1>2, <2>1 DEF IInv, MeetingIsBuilt, NobodyAttends, Submitting, Ended
  <2>3. AttendeesAreAdded' /\ CompletedIsWhole' /\ OrphansAreEmpty'
    BY <1>1, <1>3, <2>1 DEF AttendeesAreAdded, CompletedIsWhole, OrphansAreEmpty
  <2>4. /\ todo' \in Seq(Speakers) /\ present' \subseteq Speakers
        /\ alias' = <<>> \/ alias' \in [Speakers -> Members \cup {None}]
        /\ meeting' \in 0..Len(uploads')
    BY <1>1 DEF IInv, TypeOK
  <2>5. QED
    BY <1>1, <1>2, <1>3, <2>1, <2>2, <2>3, <2>4, SubmitsOn DEF Submitting
<1>7. CASE Synthesise /\ stage' # "failed"
  <2>1. /\ stage = "generate" /\ why' = why /\ answered' = answered \cup {"transcripts"}
        /\ stage' \in {"find_repo", "conclude"}
        /\ stage' = "find_repo" => "github" \in cmd.focus
        /\ stage' = "conclude" => "github" \notin cmd.focus
    BY <1>7 DEF Synthesise, AskGithub, Goto, Fail
  <2>2. asked = {"transcripts"} /\ "transcripts" \in cmd.focus /\ answered = {}
    BY <2>1 DEF IInv, SourcesInTurn
  <2>3. SourcesInTurn'
    BY <1>1, <1>4, <2>1, <2>2 DEF SourcesInTurn, Source, Ended
  <2>4. cmd.operation = "assess_query"
    BY <2>1, CommandOf
  <2>5. QED
    BY <1>1, <1>2, <1>3, <2>1, <2>3, <2>4, AsksOn DEF Asking
<1>8. CASE Conclude /\ stage' # "failed"
  <2>1. stage = "conclude" /\ stage' = "completed" /\ why' = why /\ answered' = answered
    BY <1>8 DEF Conclude, Goto, Fail, sources
  <2>2. SourcesInTurn'
    BY <1>1, <1>3, <2>1 DEF SourcesInTurn, Ended
  <2>3. cmd.operation = "assess_query"
    BY <2>1, CommandOf
  <2>4. QED
    BY <1>1, <1>2, <1>3, <2>1, <2>2, <2>3, AsksOn DEF Asking
<1>9. QED
  BY <1>5, <1>6, <1>7, <1>8

\* Whatever becomes of a request.
LEMMA RequestStep ==
  ASSUME IInv, Answered \/ AnswerLost \/ Unreached \/ Refused \/ Garbled
  PROVE  IInv'
<1>1. stage \in Requests /\ mail' = mail /\ cmd' = cmd /\ stored' = stored
  BY DEF Answered, AnswerLost, Unreached, Refused, Garbled, intake
<1>2. CASE Answered
  <2>1. CarriedOut /\ why' = why
    BY <1>2 DEF Answered, Proceed
  <2>2. CASE ProceedSubmit /\ UNCHANGED sources
    <3>1. asked' = asked /\ answered' = answered
      BY <2>2 DEF sources
    <3>2. stage \in {"create_meeting", "upload_file", "resolve_aliases", "add_attendee"}
      BY <2>2 DEF ProceedSubmit
    <3>3. QED
      BY <1>1, <2>1, <2>2, <3>1, <3>2, MeetingStep, UploadStep, AliasStep, AttendeeStep
  <2>3. CASE ProceedAsk /\ UNCHANGED local
    BY <1>1, <2>1, <2>3, AskStep DEF local
  <2>4. CASE ProceedGroup /\ UNCHANGED <<local, sources>>
    BY <1>1, <2>1, <2>4, GroupStep DEF local, sources
  <2>5. QED
    BY <1>2, <2>2, <2>3, <2>4 DEF Answered, Proceed
<1>3. CASE AnswerLost
  <2>1. CarriedOut /\ Retry(TRUE)
    BY <1>3 DEF AnswerLost
  <2>2. CASE tries < MaxAttempts
    BY <1>1, <2>1, <2>2, AgainStep DEF Retry
  <2>3. CASE ~(tries < MaxAttempts)
    BY <1>1, <2>1, <2>3, CatchStep DEF Retry
  <2>4. QED
    BY <2>2, <2>3
<1>4. CASE Unreached
  <2>1. uploads' = uploads /\ attending' = attending /\ Retry(lost)
    BY <1>4 DEF Unreached, backend
  <2>2. CASE tries < MaxAttempts
    BY <1>1, <2>1, <2>2, AgainStep DEF Retry
  <2>3. CASE ~(tries < MaxAttempts)
    BY <1>1, <2>1, <2>3, CatchStep DEF Retry
  <2>4. QED
    BY <2>2, <2>3
<1>5. CASE Refused
  <2>1. uploads' = uploads /\ attending' = attending
        /\ Catch(IF Conflicts THEN "conflict" ELSE "refused")
    BY <1>5 DEF Refused, backend
  <2>2. PICK e \in {"conflict", "refused"} : Catch(e)
    BY <2>1
  <2>3. QED
    BY <1>1, <2>1, <2>2, CatchStep
<1>6. CASE Garbled
  <2>1. /\ CarriedOut /\ stage' = "failed" /\ tries' = 1 /\ lost' = FALSE /\ why' = "garbled"
        /\ meeting' = meeting /\ alias' = alias /\ todo' = todo /\ present' = present
        /\ asked' = asked /\ answered' = answered
    BY <1>6 DEF Garbled, Fail, Goto, local, sources
  <2>2. OrphansAreEmpty' /\ uploads' \in Seq(Nat) /\ Len(uploads) <= Len(uploads')
        /\ attending' \subseteq Members
    BY <1>1, <2>1, OrphansStayEmpty
  <2>3. asked \subseteq Source /\ answered \subseteq asked /\ cmd \in Command
    BY <1>1, CommandOf DEF IInv, TypeOK, SourcesInTurn
  <2>4. QED
    BY <1>1, <2>1, <2>2, <2>3, EndsShort DEF Ended
<1>7. QED
  BY <1>2, <1>3, <1>4, <1>5, <1>6

\* Every step preserves the invariant.
LEMMA StepIInv == IInv /\ [Next]_vars => IInv'
<1> SUFFICES ASSUME IInv, [Next]_vars PROVE IInv'
  OBVIOUS
<1>1. CASE Next
  BY <1>1, IntakeStep, RequestStep, BetweenStep DEF Next
<1>2. CASE UNCHANGED vars
  <2>1. /\ mail' = mail /\ cmd' = cmd /\ stored' = stored /\ stage' = stage
        /\ tries' = tries /\ lost' = lost /\ uploads' = uploads /\ attending' = attending
        /\ meeting' = meeting /\ alias' = alias /\ todo' = todo /\ present' = present
        /\ asked' = asked /\ answered' = answered /\ why' = why
    BY <1>2 DEF vars, intake, backend, local, sources
  <2>2. TypeOK' /\ StoredIsSound' /\ SourcesInTurn' /\ OrphansAreEmpty'
    BY <2>1 DEF IInv, TypeOK, StoredIsSound, SourcesInTurn, OrphansAreEmpty
  <2>3. CommandIsChecked' /\ AttemptsAreBounded' /\ MeetingIsBuilt'
    BY <2>1 DEF IInv, CommandIsChecked, AttemptsAreBounded, MeetingIsBuilt, NobodyAttends,
                Submits, Assesses
  <2>4. AttendeesAreAdded' /\ CompletedIsWhole'
    BY <2>1 DEF IInv, AttendeesAreAdded, CompletedIsWhole, Speaker, Submits
  <2>5. QED
    BY <2>2, <2>3, <2>4 DEF IInv
<1>3. QED
  BY <1>1, <1>2
-----------------------------------------------------------------------------
(* Theorems.                                                               *)

\* The invariant holds throughout.
THEOREM Invariance == Spec => []IInv
BY InitIInv, StepIInv, PTL DEF Spec

\* The state keeps its shape, whatever is answered, lost or repeated.
THEOREM RequestTyped == Spec => []TypeOK
<1>1. IInv => TypeOK
  BY DEF IInv
<1>2. QED
  BY <1>1, Invariance, PTL

\* What is stored is a transcript within the limit, and the one the command
\* means, however the attachments are named (validator.py:131-149 against
\* submit_transcript.py:45).
THEOREM StoredSound == Spec => []StoredIsSound
<1>1. IInv => StoredIsSound
  BY DEF IInv
<1>2. QED
  BY <1>1, Invariance, PTL

\* A submission that completes has left a whole meeting, with the attendees
\* its mail names, whatever was repeated or lost on the way.
THEOREM CompletedWhole == Spec => []CompletedIsWhole
<1>1. IInv => CompletedIsWhole
  BY DEF IInv
<1>2. QED
  BY <1>1, Invariance, PTL

\* Repeated requests leave only empty meetings besides the job's own, and
\* fewer of them, and of copies of the file, than attempts.
THEOREM OrphansEmpty == Spec => []OrphansAreEmpty
<1>1. IInv => OrphansAreEmpty
  BY DEF IInv
<1>2. QED
  BY <1>1, Invariance, PTL
-----------------------------------------------------------------------------
(* Action properties.                                                      *)

\* A conflict is raised where an attendee is refused, and nowhere else.
LEMMA ConflictStep ==
  ASSUME IInv, Next, why' = "conflict", why = None
  PROVE  stage = "add_attendee" /\ alias[Speaker] \in attending
<1>1. \A e : Catch(e) => why' \in {why, e}
  BY DEF Catch, Fail
<1>2. CASE Refused
  <2>1. Catch(IF Conflicts THEN "conflict" ELSE "refused")
    BY <1>2 DEF Refused
  <2>2. Conflicts
    BY <1>1, <2>1 DEF None
  <2>3. QED
    BY <2>2 DEF Conflicts
<1>3. CASE AnswerLost \/ Unreached
  <2>1. PICK l : Retry(l)
    BY <1>3 DEF AnswerLost, Unreached
  <2>2. why' \in {why, "transient"}
    BY <1>1, <2>1 DEF Retry, Again
  <2>3. QED
    BY <2>2 DEF None
<1>4. CASE ~(Refused \/ AnswerLost \/ Unreached)
  <2>1. why' = why \/ why' \in {"garbled", "file", "ollama", "nothing"}
    BY <1>4 DEF Next, AuthoriseSender, ParseEmail, ParseFails, ParseUnavailable,
                ValidateCommand, Accept, Answered, Proceed, Garbled, ReadTranscript,
                Synthesise, Conclude, Fail
  <2>2. QED
    BY <2>1 DEF None
<1>5. QED
  BY <1>2, <1>3, <1>4

\* When the backend says that a member attends already, this very execution
\* has told it so (submit_transcript.py:142-145).
THEOREM ConflictOwn == Spec => ConflictIsItsOwn
<1>1. ASSUME IInv, Next, why' = "conflict", why = None
      PROVE  lost \/ \E s \in present : s # Speaker /\ alias[s] = alias[Speaker]
  <2>1. stage = "add_attendee" /\ alias[Speaker] \in attending
    BY <1>1, ConflictStep
  <2>2. attending = {alias[s] : s \in present} \cup (IF lost THEN {alias[Speaker]} ELSE {})
    BY <1>1, <2>1 DEF IInv, AttendeesAreAdded
  <2>3. Speaker \notin present
    BY <1>1, <2>1, SpeakerIsNew
  <2>4. SUFFICES ASSUME ~lost PROVE \E s \in present : s # Speaker /\ alias[s] = alias[Speaker]
    OBVIOUS
  <2>5. PICK s \in present : alias[s] = alias[Speaker]
    BY <2>1, <2>2, <2>4
  <2>6. QED
    BY <2>3, <2>5
<1>2. IInv /\ [Next]_vars =>
        [why' = "conflict" /\ why = None =>
           lost \/ \E s \in present : s # Speaker /\ alias[s] = alias[Speaker]]_vars
  BY <1>1
<1>3. QED
  BY <1>2, Invariance, PTL DEF Spec, ConflictIsItsOwn

\* Where a question goes when it ends.
LEMMA QuestionEnds ==
  ASSUME IInv, Next, Assesses, stage' # stage, stage' \in {"completed", "failed"}
  PROVE  \/ stage = "conclude" /\ Conclude
         \/ stage' = "failed" /\ stage \in {"login", "list_groups"} /\ why' # "nothing"
         \/ stage' = "failed" /\ why' \in {"ollama", "garbled"}
<1>1. stage \notin {"read"} \cup Submitting
  BY DEF IInv, CommandIsChecked, Submits, Assesses
<1>2. CASE Answered
  <2>1. ~ProceedSubmit
    BY <1>1 DEF ProceedSubmit, Submitting
  <2>2. QED
    BY <1>2, <2>1 DEF Answered, Proceed, ProceedAsk, ProceedGroup, AskGithub, Goto
<1>3. CASE AnswerLost \/ Unreached \/ Refused
  <2>1. PICK e \in {"transient", "conflict", "refused"} : Catch(e)
    <3>1. CASE AnswerLost \/ Unreached
      BY <3>1 DEF AnswerLost, Unreached, Retry, Again
    <3>2. CASE Refused
      BY <3>2 DEF Refused
    <3>3. QED
      BY <1>3, <3>1, <3>2
  <2>2. stage \notin Asking /\ Fail(e)
    BY <2>1 DEF Catch, AskGithub, Goto
  <2>3. stage \in Requests
    BY <1>3 DEF AnswerLost, Unreached, Refused
  <2>4. QED
    BY <1>1, <2>1, <2>2, <2>3 DEF Requests, Fail, Goto
<1>4. CASE Garbled
  BY <1>4 DEF Garbled, Fail, Goto
<1>5. CASE Synthesise
  BY <1>5 DEF Synthesise, Fail, AskGithub, Goto
<1>6. CASE Conclude
  BY <1>6 DEF Conclude
<1>7. ~ReadTranscript
  BY <1>1 DEF ReadTranscript
<1>8. ~(AuthoriseSender \/ ParseEmail \/ ParseFails \/ ParseUnavailable
          \/ ValidateCommand \/ Accept)
  BY DEF AuthoriseSender, ParseEmail, ParseFails, ParseUnavailable, ValidateCommand,
         Validate, ValidateSubmit, Accept, Goto
<1>9. QED
  BY <1>2, <1>3, <1>4, <1>5, <1>6, <1>7, <1>8 DEF Next

\* A source that cannot be asked does not take the other one's answer with it
\* (assess_query.py:8-10).
THEOREM OneSourceSuffices == Spec => OneSourceIsEnough
<1>1. ASSUME IInv, Next, Assesses, stage' # stage, stage' \in {"completed", "failed"}
      PROVE  IF stage' = "completed" THEN answered # {} /\ asked = cmd.focus
             ELSE IF why' = "nothing" THEN answered = {} /\ asked = cmd.focus
             ELSE stage \in {"login", "list_groups"} \/ why' \in {"ollama", "garbled"}
  <2>1. CASE stage = "conclude" /\ Conclude
    <3>1. asked = cmd.focus
      BY <1>1, <2>1 DEF IInv, SourcesInTurn
    <3>2. IF answered = {} THEN stage' = "failed" /\ why' = "nothing" ELSE stage' = "completed"
      BY <2>1 DEF Conclude, Fail, Goto
    <3>3. QED
      BY <3>1, <3>2
  <2>2. CASE stage' = "failed" /\ stage \in {"login", "list_groups"} /\ why' # "nothing"
    BY <2>2
  <2>3. CASE stage' = "failed" /\ why' \in {"ollama", "garbled"}
    BY <2>3
  <2>4. QED
    BY <1>1, <2>1, <2>2, <2>3, QuestionEnds
<1>2. IInv /\ [Next]_vars =>
        [Assesses /\ stage' # stage /\ stage' \in {"completed", "failed"} =>
           IF stage' = "completed" THEN answered # {} /\ asked = cmd.focus
           ELSE IF why' = "nothing" THEN answered = {} /\ asked = cmd.focus
           ELSE stage \in {"login", "list_groups"} \/ why' \in {"ollama", "garbled"}]_vars
  BY <1>1
<1>3. QED
  BY <1>2, Invariance, PTL DEF Spec, OneSourceIsEnough
-----------------------------------------------------------------------------
(* The execution is the one that JobLifecycle shrinks.                     *)

\* The stages at which the worker of JobLifecycle stands still.
Uploading == {"read", "upload_file", "resolve_aliases", "add_attendee"}
Sourcing  == {"generate", "conclude"} \cup Asking

\* What JobLifecycle sees of the meetings of the job, and of its transcript.
Posted == IF stage = "create_meeting" THEN 0 ELSE Len(uploads)
Kept   == IF stage \in Ended /\ meeting # 0 /\ uploads[meeting] > 0 THEN {1} ELSE {}

\* Where an execution goes from a stage, and what it changes on the way.
LEMMA WhereTo ==
  ASSUME IInv, Next, Executing
  PROVE  /\ cmd' = cmd
         /\ stage \in {"login", "list_groups"} =>
              /\ uploads' = uploads /\ meeting' = meeting
              /\ \/ stage' \in {"login", "list_groups", "ask_group", "failed"}
                 \/ stage' = "create_meeting" /\ Submits
                 \/ stage' \in Sourcing /\ Assesses
         /\ stage = "create_meeting" =>
              \/ stage' \in {"create_meeting", "failed"} /\ meeting' = meeting
              \/ stage' = "read" /\ Len(uploads') > 0
         /\ stage \in Uploading =>
              /\ Len(uploads') = Len(uploads) /\ meeting' = meeting
              /\ stage' \in Uploading \cup {"completed", "failed"}
         /\ stage \in Sourcing =>
              /\ uploads' = uploads /\ meeting' = meeting
              /\ stage' \in Sourcing \cup {"completed", "failed"}
<1>1. ASSUME stage \in Requests, CarriedOut \/ (uploads' = uploads /\ attending' = attending)
      PROVE  /\ stage # "create_meeting" => Len(uploads') = Len(uploads)
             /\ stage \notin {"create_meeting", "upload_file"} => uploads' = uploads
             /\ stage = "create_meeting" /\ CarriedOut => Len(uploads') > 0
  <2>1. CASE CarriedOut
    <3>1. Len(uploads) \in Nat
      BY LenProperties DEF IInv, TypeOK
    <3>2. QED
      BY <1>1, <2>1, <3>1, BackendAfter
  <2>2. CASE uploads' = uploads /\ ~CarriedOut
    BY <2>2
  <2>3. QED
    BY <1>1, <2>1, <2>2
<1>2. CASE Answered
  <2>1. stage \in Requests /\ CarriedOut /\ Proceed /\ cmd' = cmd
    BY <1>2 DEF Answered, intake
  <2>2. CASE ProceedSubmit
    <3>1. \/ stage = "create_meeting" /\ stage' = "read"
          \/ stage = "upload_file" /\ stage' \in {"completed", "resolve_aliases"}
          \/ stage \in {"resolve_aliases", "add_attendee"}
             /\ stage' \in {"completed", "add_attendee"}
      BY <2>2 DEF ProceedSubmit, NextAttendee, Goto
    <3>2. stage # "create_meeting" => meeting' = meeting
      BY <2>2 DEF ProceedSubmit, local
    <3>3. QED
      BY <1>1, <2>1, <3>1, <3>2 DEF Uploading, Sourcing, Asking
  <2>3. CASE ProceedAsk /\ UNCHANGED local
    <3>1. stage \in Asking /\ stage' \in {"generate", "find_repo", "conclude", "query"}
      BY <2>3 DEF ProceedAsk, AskGithub, Goto, Asking
    <3>2. meeting' = meeting
      BY <2>3 DEF local
    <3>3. QED
      BY <1>1, <2>1, <3>1, <3>2 DEF Uploading, Sourcing, Asking
  <2>4. CASE ProceedGroup /\ UNCHANGED local
    <3>1. /\ stage \in {"login", "list_groups"}
          /\ \/ stage' \in {"list_groups", "ask_group"}
             \/ stage' = "create_meeting" /\ Submits
             \/ stage' \in {"search_transcripts", "find_repo", "conclude"} /\ Assesses
      BY <2>4 DEF ProceedGroup, AskGithub, Goto, Submits, Assesses
    <3>2. meeting' = meeting
      BY <2>4 DEF local
    <3>3. QED
      BY <1>1, <2>1, <3>1, <3>2 DEF Uploading, Sourcing, Asking
  <2>5. QED
    BY <2>1, <2>2, <2>3, <2>4 DEF Proceed, local
<1>3. CASE AnswerLost \/ Unreached \/ Refused
  <2>1. /\ stage \in Requests /\ cmd' = cmd
        /\ CarriedOut \/ (uploads' = uploads /\ attending' = attending)
    BY <1>3 DEF AnswerLost, Unreached, Refused, intake, backend
  <2>2. (\E l : Again(l)) \/ \E e : Catch(e)
    BY <1>3 DEF AnswerLost, Unreached, Refused, Retry
  <2>3. meeting' = meeting
    BY <2>2 DEF Again, Catch, local
  <2>4. stage' \in {stage, "failed"} \/ (stage \in Asking /\ stage' \in {"find_repo", "conclude"})
    <3>1. CASE \E l : Again(l)
      BY <3>1 DEF Again
    <3>2. CASE \E e : Catch(e)
      BY <3>2 DEF Catch, AskGithub, Fail, Goto, Asking
    <3>3. QED
      BY <2>2, <3>1, <3>2
  <2>5. QED
    BY <1>1, <2>1, <2>3, <2>4 DEF Uploading, Sourcing, Asking
<1>4. CASE Garbled
  <2>1. /\ stage \in Requests /\ CarriedOut /\ cmd' = cmd /\ meeting' = meeting
        /\ stage' = "failed"
    BY <1>4 DEF Garbled, Fail, Goto, intake, local
  <2>2. QED
    BY <1>1, <2>1 DEF Uploading, Sourcing, Asking
<1>5. CASE ReadTranscript \/ Synthesise \/ Conclude
  <2>1. cmd' = cmd /\ uploads' = uploads /\ meeting' = meeting
    BY <1>5 DEF ReadTranscript, Synthesise, Conclude, intake, backend, local
  <2>2. \/ stage = "read" /\ stage' \in {"upload_file", "failed"}
        \/ stage \in {"generate", "conclude"}
           /\ stage' \in {"find_repo", "conclude", "completed", "failed"}
    BY <1>5 DEF ReadTranscript, Synthesise, Conclude, AskGithub, Fail, Goto
  <2>3. QED
    BY <2>1, <2>2 DEF Uploading, Sourcing, Asking
<1>6. ~(AuthoriseSender \/ ParseEmail \/ ParseFails \/ ParseUnavailable
          \/ ValidateCommand \/ Accept)
  BY DEF Executing, AuthoriseSender, ParseEmail, ParseFails, ParseUnavailable,
         ValidateCommand, Accept
<1>7. QED
  BY <1>2, <1>3, <1>4, <1>5, <1>6 DEF Next

\* The pieces of a step of JobLifecycle's worker.
LEMMA WorkerGoes ==
  ASSUME NEW p, Phase(stage)' = p
  PROVE  Lifecycle!Goto("worker", p)
BY DEF Lifecycle!Goto

LEMMA WorkerStands == [mail |-> "idle", worker |-> Phase(stage)]["worker"] = Phase(stage)
<1> HIDE DEF Phase
<1> QED
  OBVIOUS

LEMMA SameRows ==
  ASSUME cmd' = cmd
  PROVE  Lifecycle!rows' = Lifecycle!rows
BY DEF Lifecycle!rows

LEMMA SameBackend ==
  ASSUME Posted' = Posted, Kept' = Kept
  PROVE  Lifecycle!backend' = Lifecycle!backend
BY DEF Lifecycle!backend, Posted, Kept

\* The stages at which the worker stands, one by one.
LEMMA PhaseOf ==
  ASSUME NEW s
  PROVE  /\ s \in {"login", "list_groups"} => Phase(s) = "match"
         /\ s = "create_meeting" => Phase(s) = "submit"
         /\ s \in Uploading => Phase(s) = "upload"
         /\ s \in Sourcing => Phase(s) = "sources"
         /\ s = "ask_group" => Phase(s) = "clarify"
         /\ s = "completed" => Phase(s) = "complete"
         /\ s = "failed" => Phase(s) = "fail"
BY DEF Phase, Uploading, Sourcing, Asking

\* A step that stays in its phase changes nothing.
LEMMA StaysPut ==
  ASSUME cmd' = cmd, Phase(stage)' = Phase(stage), Posted' = Posted, Kept' = Kept
  PROVE  UNCHANGED Lifecycle!vars
<1>1. Lifecycle!rows' = Lifecycle!rows /\ Lifecycle!backend' = Lifecycle!backend
  BY SameRows, SameBackend
<1>2. Lifecycle!threads' = Lifecycle!threads
  BY DEF Lifecycle!threads
<1>3. QED
  BY <1>1, <1>2 DEF Lifecycle!vars

\* The steps of JobLifecycle's worker that an execution can take.
LEMMA GroupIsMatched ==
  ASSUME Phase(stage) = "match", cmd' = cmd, Posted' = Posted, Kept' = Kept,
         \/ Phase(stage)' \in {"clarify", "fail"}
         \/ Phase(stage)' = "sources" /\ cmd.operation = "assess_query"
         \/ Phase(stage)' = "submit" /\ cmd.operation # "assess_query"
  PROVE  Lifecycle!MatchGroup
<1>1. Lifecycle!rows' = Lifecycle!rows /\ Lifecycle!backend' = Lifecycle!backend
  BY SameRows, SameBackend
<1>2. Lifecycle!Goto("worker", Phase(stage)')
  BY WorkerGoes
<1>3. [mail |-> 1, worker |-> 1]["worker"] = 1 /\ <<cmd.operation>>[1] = cmd.operation
  OBVIOUS
<1>4. QED
  BY <1>1, <1>2, <1>3, WorkerStands DEF Lifecycle!MatchGroup

LEMMA MeetingIsPosted ==
  ASSUME Phase(stage) = "submit", cmd' = cmd, Posted = 0, Posted' \in 0..MaxAttempts,
         Kept' = Kept,
         Phase(stage)' = "fail" \/ (Phase(stage)' = "upload" /\ Posted' > 0)
  PROVE  Lifecycle!CreateMeeting
<1>1. Lifecycle!rows' = Lifecycle!rows
  BY SameRows
<1>2. Lifecycle!Goto("worker", Phase(stage)')
  BY WorkerGoes
<1>3. <<Posted'>> =
        [<<Posted>> EXCEPT ![[mail |-> 1, worker |-> 1]["worker"]] = Posted + Posted']
  OBVIOUS
<1>4. QED
  BY <1>1, <1>2, <1>3, WorkerStands DEF Lifecycle!CreateMeeting, Posted, Kept

LEMMA TranscriptIsUploaded ==
  ASSUME Phase(stage) = "upload", cmd' = cmd, Posted' = Posted, Kept = {},
         \/ Phase(stage)' = "complete" /\ Kept' = {1}
         \/ Phase(stage)' = "fail" /\ Kept' \in {{}, {1}}
  PROVE  Lifecycle!UploadTranscript
<1>1. Lifecycle!rows' = Lifecycle!rows
  BY SameRows
<1>2. Lifecycle!Goto("worker", Phase(stage)')
  BY WorkerGoes
<1>3. Kept' = Kept \cup {[mail |-> 1, worker |-> 1]["worker"]} \/ Kept' = Kept
  OBVIOUS
<1>4. Kept' = Kept => Lifecycle!Goto("worker", "fail")
  BY <1>2
<1>5. \E l \in {"complete", "fail"} : Lifecycle!Goto("worker", l)
  BY <1>2
<1>6. QED
  BY <1>1, <1>3, <1>4, <1>5, WorkerStands DEF Lifecycle!UploadTranscript, Posted, Kept

LEMMA SourcesAreQueried ==
  ASSUME Phase(stage) = "sources", cmd' = cmd, Posted' = Posted, Kept' = Kept,
         Phase(stage)' \in {"complete", "fail"}
  PROVE  Lifecycle!QuerySources
<1>1. Lifecycle!rows' = Lifecycle!rows /\ Lifecycle!backend' = Lifecycle!backend
  BY SameRows, SameBackend
<1>2. Lifecycle!Goto("worker", Phase(stage)')
  BY WorkerGoes
<1>3. QED
  BY <1>1, <1>2, WorkerStands DEF Lifecycle!QuerySources

\* Every step of an execution is one of them, or changes nothing.
LEMMA LifecycleStep ==
  ASSUME IInv, IInv', Next, Executing
  PROVE  \/ Lifecycle!MatchGroup \/ Lifecycle!CreateMeeting
         \/ Lifecycle!UploadTranscript \/ Lifecycle!QuerySources
         \/ UNCHANGED Lifecycle!vars
<1>1. cmd' = cmd /\ Phase(stage)' = Phase(stage')
  BY WhereTo DEF Phase
<1>2. Kept = {}
  BY DEF Kept, Executing
<1>3. Posted' \in 0..MaxAttempts
  <2>1. Len(uploads') \in Nat /\ Len(uploads') <= MaxAttempts
    BY LenProperties DEF IInv, TypeOK, OrphansAreEmpty
  <2>2. QED
    BY <2>1, RequestAssumption DEF Posted
<1>4. meeting' = 0 \/ stage' \notin Ended => Kept' = {}
  BY DEF Kept
<1>5. CASE stage \in {"login", "list_groups"}
  <2>1. uploads = <<>> /\ meeting = 0
    BY <1>5 DEF IInv, MeetingIsBuilt, Submitting, Ended
  <2>2. /\ uploads' = <<>> /\ meeting' = 0
        /\ \/ stage' \in {"login", "list_groups", "ask_group", "failed"}
           \/ stage' = "create_meeting" /\ Submits
           \/ stage' \in Sourcing /\ Assesses
    BY <1>5, <2>1, WhereTo
  <2>3. Posted' = Posted /\ Kept' = Kept
    BY <1>2, <1>4, <2>1, <2>2, EmptySeq DEF Posted
  <2>4. CASE stage' \in {"login", "list_groups"}
    BY <1>1, <1>5, <2>3, <2>4, PhaseOf, StaysPut
  <2>5. CASE stage' \notin {"login", "list_groups"}
    BY <1>1, <1>5, <2>2, <2>3, <2>5, PhaseOf, GroupIsMatched DEF Submits, Assesses
  <2>6. QED
    BY <2>4, <2>5
<1>6. CASE stage = "create_meeting"
  <2>1. Posted = 0 /\ meeting = 0
    BY <1>6 DEF Posted, IInv, MeetingIsBuilt
  <2>2. \/ stage' \in {"create_meeting", "failed"} /\ meeting' = meeting
        \/ stage' = "read" /\ Len(uploads') > 0
    BY <1>6, WhereTo
  <2>3. Kept' = Kept
    BY <1>2, <1>4, <2>1, <2>2 DEF Ended
  <2>4. CASE stage' = "create_meeting"
    BY <1>1, <1>6, <2>1, <2>3, <2>4, StaysPut DEF Posted
  <2>5. CASE stage' # "create_meeting"
    <3>1. Phase(stage) = "submit"
      BY <1>6, PhaseOf
    <3>2. Phase(stage)' = "fail" \/ (Phase(stage)' = "upload" /\ Posted' > 0)
      BY <1>1, <2>2, <2>5, PhaseOf DEF Posted, Uploading
    <3>3. QED
      BY <1>1, <1>3, <2>1, <2>3, <3>1, <3>2, MeetingIsPosted
  <2>6. QED
    BY <2>4, <2>5
<1>7. CASE stage \in Uploading
  <2>1. /\ Len(uploads') = Len(uploads) /\ meeting' = meeting
        /\ stage' \in Uploading \cup {"completed", "failed"}
    BY <1>7, WhereTo
  <2>2. Posted' = Posted
    BY <1>7, <2>1 DEF Posted, Uploading
  <2>3. Phase(stage) = "upload"
    BY <1>7, PhaseOf
  <2>4. CASE stage' \in Uploading
    <3>1. Phase(stage)' = "upload"
      BY <1>1, <2>4, PhaseOf
    <3>2. Kept' = Kept
      BY <1>2, <1>4, <2>4 DEF Uploading, Ended
    <3>3. QED
      BY <1>1, <2>2, <2>3, <3>1, <3>2, StaysPut
  <2>5. CASE stage' = "completed"
    <3>1. Submits'
      BY <1>1, <1>7 DEF IInv, CommandIsChecked, Submits, Uploading, Submitting
    <3>2. Kept' = {1}
      BY <2>5, <3>1 DEF Kept, Ended, IInv, CompletedIsWhole
    <3>3. Phase(stage)' = "complete"
      BY <1>1, <2>5, PhaseOf
    <3>4. QED
      BY <1>1, <1>2, <2>2, <2>3, <3>2, <3>3, TranscriptIsUploaded
  <2>6. CASE stage' = "failed"
    <3>1. Phase(stage)' = "fail"
      BY <1>1, <2>6, PhaseOf
    <3>2. Kept' \in {{}, {1}}
      BY DEF Kept
    <3>3. QED
      BY <1>1, <1>2, <2>2, <2>3, <3>1, <3>2, TranscriptIsUploaded
  <2>7. QED
    BY <2>1, <2>4, <2>5, <2>6
<1>8. CASE stage \in Sourcing
  <2>1. uploads = <<>> /\ meeting = 0
    BY <1>8 DEF IInv, MeetingIsBuilt, Sourcing, Asking, Submitting, Ended
  <2>2. /\ uploads' = uploads /\ meeting' = meeting
        /\ stage' \in Sourcing \cup {"completed", "failed"}
    BY <1>8, WhereTo
  <2>3. Posted' = Posted /\ Kept' = Kept
    BY <1>2, <1>4, <1>8, <2>1, <2>2 DEF Posted, Sourcing, Asking
  <2>4. Phase(stage) = "sources"
    BY <1>8, PhaseOf
  <2>5. Phase(stage)' \in {"sources", "complete", "fail"}
    BY <1>1, <2>2, PhaseOf
  <2>6. QED
    BY <1>1, <2>3, <2>4, <2>5, StaysPut, SourcesAreQueried
<1>9. stage \in {"login", "list_groups", "create_meeting"} \cup Uploading \cup Sourcing
  BY DEF IInv, TypeOK, Stage, Requests, Submitting, Executing, Uploading, Sourcing
<1>10. QED
  BY <1>5, <1>6, <1>7, <1>8, <1>9

\* The execution is the one that JobLifecycle shrinks to three steps.
THEOREM ShrinksToLifecycle == Spec => ImplementsLifecycle
<1>1. IInv /\ IInv' /\ [Next]_vars =>
        [Executing =>
           \/ Lifecycle!MatchGroup \/ Lifecycle!CreateMeeting
           \/ Lifecycle!UploadTranscript \/ Lifecycle!QuerySources
           \/ UNCHANGED Lifecycle!vars]_vars
  BY LifecycleStep
<1>2. QED
  BY <1>1, Invariance, PTL DEF Spec, ImplementsLifecycle
=============================================================================

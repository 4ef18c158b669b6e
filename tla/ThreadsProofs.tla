---------------------------- MODULE ThreadsProofs ----------------------------
(***************************************************************************)
(* What Threads guarantees for every set of owners and jobs, any number of *)
(* mails and crashes, and whether or not owners wait for an answer.        *)
(***************************************************************************)
EXTENDS Threads, SequenceTheorems, WellFoundedInduction, TLAPS

\* What the variables hold, as far as Match and the others rely on it.
Shape ==
  /\ mails \in Seq(Mail) /\ Len(mails) <= MaxMails
  /\ owner \in [Jobs -> Users \cup {NoJob}]
  /\ links \subseteq (DOMAIN mails) \X Known
  /\ last \in [Jobs -> {0} \cup DOMAIN mails]
  /\ drafts \subseteq [job : Known \cup {NoJob}, subject : Jobs \cup {NoJob},
                       said : SUBSET Jobs, parent : DOMAIN mails]
  /\ todo \subseteq DOMAIN mails /\ \A m \in todo : mails[m].from \in Users
  /\ acted \subseteq (DOMAIN mails) \X (Jobs \cup {NoJob}) \X Known
  /\ faults \in 0..MaxFaults

\* A mail refers only to mails before it, to its parent among them.
ThreadsRunBack ==
  \A m \in DOMAIN mails :
    /\ mails[m].parent < m
    /\ \A i \in DOMAIN mails[m].refs : mails[m].refs[i] < m
    /\ mails[m].parent # 0 => \E i \in DOMAIN mails[m].refs : mails[m].refs[i] = mails[m].parent

\* What is recorded of a mail is recorded of a mail of the agent that has the
\* job in its subject, ...
RecordsAreTrue ==
  /\ \A l \in links : mails[l[1]].from = "agent" /\ mails[l[1]].subject = l[2]
  /\ \A j \in Jobs : last[j] # 0 =>
       mails[last[j]].from = "agent" /\ mails[last[j]].subject = j
  /\ \A d \in drafts : d.job # NoJob => d.subject = d.job

\* ... so that no mail is linked to two jobs.
IInv ==
  /\ Shape /\ ThreadsRunBack /\ RecordsAreTrue
  /\ OwnJobsOnly /\ ReplyReachesItsJob /\ ActedIsMentioned
-----------------------------------------------------------------------------
(* Lemmas.                                                                 *)

\* Of a set of numbers one is the least.
LEMMA LeastIsFirst ==
  ASSUME NEW S, S \subseteq Nat, S # {}
  PROVE  Min(S) \in S /\ \A i \in S : Min(S) <= i
<1>1. PICK n \in S : \A i \in S : ~(<<i, n>> \in OpToRel(<, Nat))
  BY NatLessThanWellFounded, WFMin
<1>2. \A i \in S : ~(i < n)
  BY <1>1 DEF OpToRel
<1>3. \A i \in S : n <= i
  BY <1>2
<1>4. QED
  BY <1>3 DEF Min

\* One more mail leaves those before it as they are.
LEMMA OneMore ==
  ASSUME Shape, NEW x \in Mail, mails' = Append(mails, x)
  PROVE  /\ mails' \in Seq(Mail) /\ Len(mails') = Len(mails) + 1
         /\ DOMAIN mails = 1..Len(mails) /\ DOMAIN mails' = 1..(Len(mails) + 1)
         /\ \A i \in DOMAIN mails : mails'[i] = mails[i]
         /\ mails'[Len(mails) + 1] = x
BY DEF Shape

\* What a single mail holds.
LEMMA MailFields ==
  ASSUME Shape, NEW m \in DOMAIN mails
  PROVE  /\ mails[m] \in Mail /\ mails[m].parent \in Nat
         /\ mails[m].refs \in Seq(1..MaxMails)
         /\ mails[m].subject \in Jobs \cup {NoJob}
         /\ mails[m].names \subseteq Jobs
<1>1. mails[m] \in Mail
  BY DEF Shape
<1>2. QED
  BY <1>1, ThreadsAssumption DEF Mail

\* The References of a mail are mails before it.
LEMMA RefsBefore ==
  ASSUME Shape, ThreadsRunBack, NEW m \in DOMAIN mails
  PROVE  /\ DOMAIN mails[m].refs = 1..Len(mails[m].refs) /\ Len(mails[m].refs) \in Nat
         /\ \A i \in DOMAIN mails[m].refs : mails[m].refs[i] \in DOMAIN mails
<1> DEFINE refs == mails[m].refs
<1>1. refs \in Seq(1..MaxMails)
  BY MailFields
<1>2. \A i \in 1..Len(refs) : refs[i] \in 1..MaxMails
  BY <1>1, ElementOfSeq
<1>3. /\ DOMAIN refs = 1..Len(refs) /\ Len(refs) \in Nat
      /\ \A i \in DOMAIN refs : refs[i] \in Nat \ {0}
  BY <1>1, <1>2, LenProperties, ThreadsAssumption
<1>4. DOMAIN mails = 1..Len(mails) /\ Len(mails) \in Nat
  BY DEF Shape
<1>5. \A i \in DOMAIN refs : refs[i] \in DOMAIN mails
  BY <1>3, <1>4 DEF ThreadsRunBack
<1>6. QED
  BY <1>3, <1>5

\* What Match looks through: the parent of a mail and its References, all of
\* them References of the mail.
LEMMA ReferencedBefore ==
  ASSUME Shape, ThreadsRunBack, NEW m \in DOMAIN mails
  PROVE  /\ DOMAIN Referenced(m) \subseteq Nat
         /\ \A i \in DOMAIN Referenced(m) :
              /\ Referenced(m)[i] \in DOMAIN mails
              /\ \E k \in DOMAIN mails[m].refs : mails[m].refs[k] = Referenced(m)[i]
         /\ mails[m].parent # 0 =>
              1 \in DOMAIN Referenced(m) /\ Referenced(m)[1] = mails[m].parent
<1> DEFINE refs == mails[m].refs
<1>1. refs \in Seq(1..MaxMails) /\ mails[m].parent \in Nat
  BY MailFields
<1>2. DOMAIN refs = 1..Len(refs) /\ Len(refs) \in Nat
  BY RefsBefore
<1>5. DOMAIN mails = 1..Len(mails) /\ Len(mails) \in Nat
  BY DEF Shape
<1>6. \A i \in DOMAIN refs : refs[i] \in DOMAIN mails
  BY RefsBefore
<1>3. CASE mails[m].parent = 0
  BY <1>3 DEF Referenced
<1>4. CASE mails[m].parent # 0
  <2>1. <<mails[m].parent>> \in Seq(Nat) /\ refs \in Seq(Nat)
    <3>1. refs \in Seq(Nat)
      BY <1>1, SeqMonotonic, 1..MaxMails \subseteq Nat
    <3>2. QED
      BY <1>1, <3>1
  <2>2. /\ Referenced(m) = <<mails[m].parent>> \o refs
        /\ DOMAIN Referenced(m) = 1..(Len(refs) + 1)
        /\ Referenced(m)[1] = mails[m].parent
        /\ \A i \in 2..(Len(refs) + 1) : Referenced(m)[i] = refs[i - 1]
    BY <1>2, <1>4, <2>1 DEF Referenced
  <2>3. mails[m].parent \in DOMAIN mails
        /\ \E k \in DOMAIN refs : refs[k] = mails[m].parent
    BY <1>1, <1>5, <1>6, <1>4 DEF ThreadsRunBack
  <2>4. \A i \in DOMAIN Referenced(m) :
          i = 1 \/ (i - 1 \in DOMAIN refs /\ Referenced(m)[i] = refs[i - 1])
    BY <1>2, <2>2
  <2>5. \A i \in DOMAIN Referenced(m) :
          /\ Referenced(m)[i] \in DOMAIN mails
          /\ \E k \in DOMAIN refs : refs[k] = Referenced(m)[i]
    BY <1>6, <2>2, <2>3, <2>4
  <2>6. QED
    BY <2>2, <2>5
<1>7. QED
  BY <1>3, <1>4

\* A job that Match finds is recorded of a mail referred to, and of the parent
\* if that has a link, or else stands in the text.
LEMMA MatchIsFound ==
  ASSUME Shape, ThreadsRunBack, NEW m \in DOMAIN mails
  PROVE  \/ \E i \in DOMAIN Referenced(m) :
              /\ Match(m) \in Hits(Referenced(m)[i], mails[m].from)
              /\ \A k \in DOMAIN Referenced(m) :
                   Hits(Referenced(m)[k], mails[m].from) # {} => i <= k
         \/ /\ \A i \in DOMAIN Referenced(m) : Hits(Referenced(m)[i], mails[m].from) = {}
            /\ Match(m) \in mails[m].names \cup {NoJob}
<1> DEFINE refs == Referenced(m)
           u    == mails[m].from
           hits == {i \in DOMAIN refs : Hits(refs[i], u) # {}}
           text == {j \in mails[m].names : Owned(j, u)}
<1>1. CASE hits # {}
  <2>1. Min(hits) \in hits /\ \A k \in hits : Min(hits) <= k
    BY <1>1, ReferencedBefore, LeastIsFirst
  <2>2. Match(m) \in Hits(refs[Min(hits)], u)
    BY <1>1, <2>1 DEF Match
  <2>3. QED
    BY <2>1, <2>2
<1>2. CASE hits = {}
  <2>1. Match(m) = IF Cardinality(mails[m].names) = 1 /\ text # {}
                     THEN CHOOSE j \in text : TRUE ELSE NoJob
    BY <1>2 DEF Match
  <2>2. QED
    BY <1>2, <2>1
<1>3. QED
  BY <1>1, <1>2
-----------------------------------------------------------------------------
(* The invariant is inductive.                                             *)

\* It holds at the start.
LEMMA InitIInv == Init => IInv
<1> SUFFICES ASSUME Init PROVE IInv
  OBVIOUS
<1> USE DEF Init
<1>1. Shape
  BY ThreadsAssumption DEF Shape
<1>2. ThreadsRunBack /\ RecordsAreTrue
  BY DEF ThreadsRunBack, RecordsAreTrue
<1>3. OwnJobsOnly /\ ReplyReachesItsJob /\ ActedIsMentioned
  BY DEF OwnJobsOnly, ReplyReachesItsJob, ActedIsMentioned
<1>4. QED
  BY <1>1, <1>2, <1>3 DEF IInv

\* The References of a reply are mails before it, its parent among them.
LEMMA ThreadGoesBack ==
  ASSUME Shape, ThreadsRunBack, NEW p \in {0} \cup DOMAIN mails
  PROVE  /\ Thread(p) \in Seq(1..MaxMails)
         /\ \A i \in DOMAIN Thread(p) : Thread(p)[i] \in DOMAIN mails
         /\ p # 0 => \E i \in DOMAIN Thread(p) : Thread(p)[i] = p
<1>1. CASE p = 0
  BY <1>1 DEF Thread
<1>2. CASE p # 0
  <2> DEFINE refs == mails[p].refs
  <2>1. p \in DOMAIN mails /\ DOMAIN mails = 1..Len(mails) /\ Len(mails) \in Nat
        /\ p \in 1..MaxMails
    BY <1>2, ThreadsAssumption DEF Shape
  <2>2. refs \in Seq(1..MaxMails) /\ Thread(p) = Append(refs, p)
    BY <1>2, <2>1, MailFields DEF Thread
  <2>3. /\ DOMAIN refs = 1..Len(refs) /\ Len(refs) \in Nat
        /\ \A i \in 1..Len(refs) : refs[i] \in 1..MaxMails
    BY <2>2, LenProperties, ElementOfSeq
  <2>4. /\ Thread(p) \in Seq(1..MaxMails) /\ Len(Thread(p)) = Len(refs) + 1
        /\ \A i \in 1..Len(refs) : Thread(p)[i] = refs[i]
        /\ Thread(p)[Len(refs) + 1] = p
    BY <2>1, <2>2, AppendProperties
  <2>5. DOMAIN Thread(p) = 1..(Len(refs) + 1)
    BY <2>4, LenProperties
  <2>6. \A i \in 1..Len(refs) : refs[i] \in DOMAIN mails
    BY <2>1, <2>3, ThreadsAssumption DEF ThreadsRunBack
  <2>7. \A i \in DOMAIN Thread(p) : i \in 1..Len(refs) \/ i = Len(refs) + 1
    BY <2>3, <2>5
  <2>8. Len(refs) + 1 \in DOMAIN Thread(p)
    BY <2>3, <2>5
  <2>9. QED
    BY <2>1, <2>4, <2>6, <2>7, <2>8
<1>3. QED
  BY <1>1, <1>2

\* One more mail, whoever writes it, changes nothing about those before it.
LEMMA OneMoreKeeps ==
  ASSUME IInv, NEW x \in Mail, mails' = Append(mails, x),
         x.parent \in {0} \cup DOMAIN mails, x.refs = Thread(x.parent),
         owner' = owner, acted' = acted,
         \A l \in links' : l \in links \/ l[1] = Len(mails) + 1
  PROVE  ThreadsRunBack' /\ OwnJobsOnly' /\ ReplyReachesItsJob' /\ ActedIsMentioned'
<1> DEFINE n == Len(mails) + 1
<1>1. Shape /\ ThreadsRunBack
  BY DEF IInv
<1>2. /\ n \in Nat /\ DOMAIN mails = 1..Len(mails) /\ DOMAIN mails' = 1..n
      /\ \A i \in DOMAIN mails : mails'[i] = mails[i] /\ i \in Nat /\ i < n
      /\ \A i \in DOMAIN mails' : i \in DOMAIN mails \/ i = n
      /\ mails'[n] = x
  BY <1>1, OneMore DEF Shape
<1>3. acted \subseteq (DOMAIN mails) \X (Jobs \cup {NoJob}) \X Known /\ Known' = Known
  BY <1>1 DEF Shape, Known
<1>4. ThreadsRunBack'
  <2> SUFFICES ASSUME NEW m \in DOMAIN mails'
               PROVE  /\ mails'[m].parent < m
                      /\ \A i \in DOMAIN mails'[m].refs : mails'[m].refs[i] < m
                      /\ mails'[m].parent # 0 =>
                           \E i \in DOMAIN mails'[m].refs : mails'[m].refs[i] = mails'[m].parent
    BY DEF ThreadsRunBack
  <2>1. CASE m \in DOMAIN mails
    BY <1>1, <1>2, <2>1 DEF ThreadsRunBack
  <2>2. CASE m = n
    <3>1. /\ \A i \in DOMAIN x.refs : x.refs[i] \in DOMAIN mails
          /\ x.parent # 0 => \E i \in DOMAIN x.refs : x.refs[i] = x.parent
      BY <1>1, ThreadGoesBack
    <3>2. x.parent < n
      BY <1>2
    <3>3. QED
      BY <1>2, <2>2, <3>1, <3>2
  <2>3. QED
    BY <1>2, <2>1, <2>2
<1>5. OwnJobsOnly'
  BY <1>2, <1>3 DEF IInv, OwnJobsOnly
<1>6. ReplyReachesItsJob'
  <2> SUFFICES ASSUME NEW a \in acted, NEW l \in links', a[2] = NoJob,
                      mails[a[1]].parent = l[1], Owned(l[2], mails[a[1]].from)
               PROVE  a[3] = l[2]
    BY <1>2, <1>3 DEF ReplyReachesItsJob, Owned
  <2>1. l[1] # n
    BY <1>1, <1>2, <1>3, MailFields DEF ThreadsRunBack
  <2>2. QED
    BY <2>1 DEF IInv, ReplyReachesItsJob
<1>7. ActedIsMentioned'
  <2> SUFFICES ASSUME NEW a \in acted
               PROVE  IF a[2] # NoJob THEN a[3] = a[2]
                      ELSE \/ a[3] \in mails'[a[1]].names
                           \/ \E i \in DOMAIN mails'[a[1]].refs :
                                mails'[mails'[a[1]].refs[i]].subject = a[3]
    BY DEF ActedIsMentioned
  <2>1. a[1] \in DOMAIN mails /\ mails'[a[1]] = mails[a[1]]
    BY <1>2, <1>3
  <2>2. \A i \in DOMAIN mails[a[1]].refs :
          mails'[mails[a[1]].refs[i]] = mails[mails[a[1]].refs[i]]
    BY <1>1, <1>2, <2>1, RefsBefore
  <2>3. IF a[2] # NoJob THEN a[3] = a[2]
        ELSE \/ a[3] \in mails[a[1]].names
             \/ \E i \in DOMAIN mails[a[1]].refs : mails[mails[a[1]].refs[i]].subject = a[3]
    BY DEF IInv, ActedIsMentioned
  <2>4. QED
    BY <2>1, <2>2, <2>3
<1>8. QED
  BY <1>4, <1>5, <1>6, <1>7

\* Writing a mail keeps the invariant.
LEMMA WriteKeeps ==
  ASSUME IInv, NEW u \in Users, Write(u) PROVE IInv'
<1> DEFINE n == Len(mails) + 1
<1> USE DEF IInv
<1>1. PICK p \in {0} \cup DOMAIN mails, quote \in BOOLEAN, written \in Jobs \cup {NoJob} :
        LET subject == IF p = 0 THEN NoJob ELSE mails[p].subject
            quoted  == IF p # 0 /\ quote THEN mails[p].names ELSE {}
        IN  mails' = Append(mails,
              [from |-> u, to |-> "agent", parent |-> p, refs |-> Thread(p),
               subject |-> subject, names |-> Ids(subject) \cup quoted \cup Ids(written)])
  BY DEF Write
<1> DEFINE subject == IF p = 0 THEN NoJob ELSE mails[p].subject
           quoted  == IF p # 0 /\ quote THEN mails[p].names ELSE {}
           x == [from |-> u, to |-> "agent", parent |-> p, refs |-> Thread(p),
                 subject |-> subject, names |-> Ids(subject) \cup quoted \cup Ids(written)]
<1>2. p \in 0..MaxMails /\ subject \in Jobs \cup {NoJob} /\ quoted \subseteq Jobs
  BY MailFields, ThreadsAssumption DEF Shape
<1>3. x \in Mail
  BY <1>2, ThreadGoesBack DEF Mail, Ids
<1>4. mails' = Append(mails, x)
  BY <1>1
<1>5. x.from = u /\ x.parent = p /\ x.refs = Thread(p)
  OBVIOUS
<1> HIDE DEF x, subject, quoted
<1>6. /\ mails' \in Seq(Mail) /\ Len(mails') = n /\ Len(mails) \in Nat
      /\ DOMAIN mails = 1..Len(mails) /\ DOMAIN mails' = 1..n
      /\ \A i \in DOMAIN mails : mails'[i] = mails[i]
      /\ mails'[n] = x
  BY <1>3, <1>4, OneMore DEF Shape
<1>7. /\ owner' = owner /\ drafts' = drafts /\ links' = links /\ last' = last
      /\ acted' = acted /\ faults' = faults /\ Known' = Known
      /\ todo' = todo \cup {n} /\ n <= MaxMails
  BY <1>6, ThreadsAssumption DEF Write, Known, Shape
<1>8. Shape'
  BY <1>5, <1>6, <1>7 DEF Shape
<1>9. RecordsAreTrue'
  BY <1>6, <1>7 DEF RecordsAreTrue, Shape
<1>10. ThreadsRunBack' /\ OwnJobsOnly' /\ ReplyReachesItsJob' /\ ActedIsMentioned'
  BY <1>3, <1>4, <1>5, <1>7, OneMoreKeeps
<1>11. QED
  BY <1>8, <1>9, <1>10
\* A job that a lookup finds is one of the sender's, and the mail it is found
\* by has it in its subject.
LEMMA HitIsRecorded ==
  ASSUME IInv, NEW r \in DOMAIN mails, NEW u, NEW j \in Hits(r, u)
  PROVE  j \in Known /\ owner[j] = u /\ mails[r].subject = j
<1>1. r # 0
  BY DEF IInv, Shape
<1>2. QED
  BY <1>1 DEF IInv, RecordsAreTrue, Hits, Linked, AsLast, Owned

\* The job Match finds is mentioned.
LEMMA MatchIsMentioned ==
  ASSUME IInv, NEW m \in DOMAIN mails
  PROVE  /\ Match(m) \in Jobs \cup {NoJob}
         /\ \/ Match(m) \in mails[m].names \cup {NoJob}
            \/ \E i \in DOMAIN mails[m].refs : mails[mails[m].refs[i]].subject = Match(m)
<1> USE DEF IInv
<1>1. CASE \E i \in DOMAIN Referenced(m) : Match(m) \in Hits(Referenced(m)[i], mails[m].from)
  <2>1. PICK i \in DOMAIN Referenced(m) : Match(m) \in Hits(Referenced(m)[i], mails[m].from)
    BY <1>1
  <2>2. PICK k \in DOMAIN mails[m].refs : mails[m].refs[k] = Referenced(m)[i]
    BY ReferencedBefore
  <2>3. Referenced(m)[i] \in DOMAIN mails
    BY ReferencedBefore
  <2>4. Match(m) \in Known /\ mails[Referenced(m)[i]].subject = Match(m)
    BY <2>1, <2>3, HitIsRecorded
  <2>5. QED
    BY <2>2, <2>4 DEF Known
<1>2. CASE Match(m) \in mails[m].names \cup {NoJob}
  BY <1>2, MailFields
<1>3. QED
  BY <1>1, <1>2, MatchIsFound

\* A reply to a mail that is linked to a job of the writer matches that job.
LEMMA MatchFollowsLink ==
  ASSUME IInv, NEW m \in DOMAIN mails, NEW l \in links, mails[m].parent = l[1],
         Owned(l[2], mails[m].from)
  PROVE  Match(m) = l[2]
<1> USE DEF IInv
<1> DEFINE u == mails[m].from
<1>1. l = <<l[1], l[2]>> /\ l[1] \in DOMAIN mails /\ l[2] \in Jobs /\ l[1] # 0
  BY DEF Shape, Known
<1>2. Linked(l[1], u) = {l[2]}
  <2>1. l[2] \in Linked(l[1], u)
    BY <1>1 DEF Linked
  <2>2. \A j \in Linked(l[1], u) : j = l[2]
    BY <1>1 DEF Linked, RecordsAreTrue
  <2>3. QED
    BY <2>1, <2>2
<1>3. Hits(l[1], u) = {l[2]}
  BY <1>2 DEF Hits
<1>4. 1 \in DOMAIN Referenced(m) /\ Referenced(m)[1] = l[1]
  BY <1>1, ReferencedBefore
<1>5. PICK i \in DOMAIN Referenced(m) :
        Match(m) \in Hits(Referenced(m)[i], u) /\ i <= 1
  BY <1>3, <1>4, MatchIsFound
<1>6. DOMAIN Referenced(m) = 1..Len(Referenced(m))
  BY DEF Referenced
<1>7. QED
  BY <1>3, <1>4, <1>5, <1>6

\* A new job gets an id nobody has.
LEMMA NextIdIsNew == Known # Jobs => NextId \in Jobs \ Known
BY DEF NextId, Known

\* Making a job of a mail keeps the invariant.
LEMMA SubmitKeeps ==
  ASSUME IInv, NEW m \in todo, Submit(m) PROVE IInv'
<1> USE DEF IInv
<1>1. /\ NextId \in Jobs \ Known /\ m \in DOMAIN mails /\ mails[m].from \in Users
      /\ owner' = [owner EXCEPT ![NextId] = mails[m].from]
      /\ drafts' = drafts \cup {[job |-> NextId, subject |-> NextId, said |-> {}, parent |-> m]}
      /\ mails' = mails /\ links' = links /\ last' = last /\ acted' = acted
      /\ todo' = todo \ {m} /\ faults' = faults
  BY NextIdIsNew DEF Submit, Answer, Shape
<1> DEFINE i == NextId
<1> HIDE DEF i
<1>2. /\ i \in Jobs \ Known /\ owner' = [owner EXCEPT ![i] = mails[m].from]
      /\ drafts' = drafts \cup {[job |-> i, subject |-> i, said |-> {}, parent |-> m]}
  BY <1>1 DEF i
<1>3. Known' = Known \cup {i} /\ \A j \in Known : owner'[j] = owner[j]
  BY <1>1, <1>2, ThreadsAssumption DEF Known, Shape
<1>4. Shape'
  BY <1>1, <1>2, <1>3 DEF Shape
<1>5. RecordsAreTrue' /\ ThreadsRunBack'
  BY <1>1, <1>2 DEF RecordsAreTrue, ThreadsRunBack
<1>6. OwnJobsOnly' /\ ActedIsMentioned'
  BY <1>1, <1>3 DEF OwnJobsOnly, ActedIsMentioned, Shape
<1>7. ReplyReachesItsJob'
  BY <1>1, <1>3 DEF ReplyReachesItsJob, Owned, Shape
<1>8. QED
  BY <1>4, <1>5, <1>6, <1>7

\* Acting on a job keeps the invariant: this is where Match and get_owned
\* count.
LEMMA ReferKeeps ==
  ASSUME IInv, NEW m \in todo, NEW given \in Jobs \cup {NoJob}, Refer(m, given) PROVE IInv'
<1> USE DEF IInv
<1> DEFINE j == Target(m, given)
<1>1. /\ m \in DOMAIN mails /\ Owned(j, mails[m].from)
      /\ acted' = acted \cup {<<m, given, j>>}
      /\ drafts' = drafts \cup {[job |-> j, subject |-> j, said |-> {}, parent |-> m]}
      /\ mails' = mails /\ links' = links /\ last' = last /\ owner' = owner
      /\ todo' = todo \ {m} /\ faults' = faults
  BY DEF Refer, Answer, Shape
<1>2. j = IF given # NoJob THEN given ELSE Match(m)
  BY DEF Target
<1>3. j \in Known /\ j \in Jobs /\ j # NoJob /\ owner[j] = mails[m].from /\ Known' = Known
  BY <1>1, ThreadsAssumption DEF Owned, Known
<1> HIDE DEF j
<1>4. Shape'
  BY <1>1, <1>3 DEF Shape
<1>5. RecordsAreTrue' /\ ThreadsRunBack'
  BY <1>1 DEF RecordsAreTrue, ThreadsRunBack
<1>6. OwnJobsOnly'
  BY <1>1, <1>3 DEF OwnJobsOnly
<1>7. ReplyReachesItsJob'
  <2> SUFFICES ASSUME NEW a \in acted', NEW l \in links, a[2] = NoJob,
                      mails[a[1]].parent = l[1], Owned(l[2], mails[a[1]].from)
               PROVE  a[3] = l[2]
    BY <1>1 DEF ReplyReachesItsJob, Owned, Known
  <2>1. CASE a \in acted
    BY <2>1 DEF ReplyReachesItsJob
  <2>2. CASE a = <<m, given, j>>
    BY <1>1, <1>2, <2>2, MatchFollowsLink
  <2>3. QED
    BY <1>1, <2>1, <2>2
<1>8. ActedIsMentioned'
  <2> SUFFICES ASSUME NEW a \in acted'
               PROVE  IF a[2] # NoJob THEN a[3] = a[2]
                      ELSE \/ a[3] \in mails[a[1]].names
                           \/ \E i \in DOMAIN mails[a[1]].refs :
                                mails[mails[a[1]].refs[i]].subject = a[3]
    BY <1>1 DEF ActedIsMentioned
  <2>1. CASE a \in acted
    BY <2>1 DEF ActedIsMentioned
  <2>2. CASE a = <<m, given, j>>
    BY <1>1, <1>2, <1>3, <2>2, MatchIsMentioned
  <2>3. QED
    BY <1>1, <2>1, <2>2
<1>9. QED
  BY <1>4, <1>5, <1>6, <1>7, <1>8

\* Asking the sender, whatever the question says, keeps the invariant.
LEMMA AskKeeps ==
  ASSUME IInv, NEW m \in todo,
         \/ AskUnclear(m)
         \/ \E given \in Jobs \cup {NoJob} : AskWhich(m, given)
  PROVE  IInv'
<1> USE DEF IInv
<1>0. /\ m \in DOMAIN mails /\ Match(m) \in Jobs \cup {NoJob}
      /\ mails' = mails /\ links' = links /\ last' = last /\ owner' = owner
      /\ todo' = todo \ {m} /\ faults' = faults /\ acted' = acted
  BY MatchIsMentioned DEF AskUnclear, AskWhich, Shape
<1>1. \E said \in SUBSET Jobs :
        drafts' = drafts \cup {[job |-> NoJob, subject |-> Match(m), said |-> said, parent |-> m]}
  <2>1. CASE AskUnclear(m)
    BY <2>1 DEF AskUnclear, Answer
  <2>2. ASSUME NEW given \in Jobs \cup {NoJob}, AskWhich(m, given)
        PROVE  \E said \in SUBSET Jobs :
                 drafts' = drafts \cup {[job |-> NoJob, subject |-> Match(m), said |-> said,
                                        parent |-> m]}
    <3>1. Question(Target(m, given)) \in SUBSET Jobs
      BY <1>0, ThreadsAssumption DEF Question, Target
    <3>2. QED
      BY <2>2, <3>1 DEF AskWhich, Answer
  <2>3. QED
    BY <2>1, <2>2
<1>2. Known' = Known
  BY <1>0 DEF Known
<1>3. Shape' /\ RecordsAreTrue' /\ ThreadsRunBack'
  BY <1>0, <1>1, <1>2 DEF Shape, RecordsAreTrue, ThreadsRunBack
<1>4. OwnJobsOnly' /\ ReplyReachesItsJob' /\ ActedIsMentioned'
  BY <1>0, <1>2 DEF OwnJobsOnly, ReplyReachesItsJob, ActedIsMentioned, Owned
<1>5. QED
  BY <1>3, <1>4

\* Sending a mail keeps the invariant, however much of it is recorded.
LEMMA SendKeeps ==
  ASSUME IInv, NEW d \in drafts, Send(d) \/ StopUnmarked(d) \/ StopUnlinked(d)
  PROVE  IInv'
<1> DEFINE n == Len(mails) + 1
           x == [from |-> "agent", to |-> mails[d.parent].from, parent |-> d.parent,
                 refs |-> Thread(d.parent), subject |-> d.subject,
                 names |-> Ids(d.subject) \cup d.said]
<1> USE DEF IInv
<1>1. /\ d.parent \in DOMAIN mails /\ d.subject \in Jobs \cup {NoJob} /\ d.said \subseteq Jobs
      /\ d.job \in Known \cup {NoJob} /\ (d.job # NoJob => d.subject = d.job)
      /\ Len(mails) < MaxMails /\ mails' = Append(mails, x)
      /\ owner' = owner /\ todo' = todo /\ acted' = acted
  BY DEF Shape, RecordsAreTrue, Send, StopUnmarked, StopUnlinked, Sent
<1>2. x \in Mail
  <2>1. mails[d.parent].from \in Users \cup {"agent"} /\ d.parent \in 0..MaxMails
    <3>1. mails[d.parent] \in Mail
      BY <1>1, MailFields
    <3>2. QED
      BY <1>1, <3>1, ThreadsAssumption DEF Mail, Shape
  <2>2. Thread(d.parent) \in Seq(1..MaxMails) /\ Ids(d.subject) \subseteq Jobs
    BY <1>1, ThreadGoesBack DEF Ids
  <2>3. QED
    BY <1>1, <2>1, <2>2 DEF Mail
<1>3. /\ x.from = "agent" /\ x.parent = d.parent /\ x.refs = Thread(d.parent)
      /\ x.subject = d.subject
  OBVIOUS
<1> HIDE DEF x
<1>4. /\ mails' \in Seq(Mail) /\ Len(mails') = n /\ Len(mails) \in Nat
      /\ DOMAIN mails = 1..Len(mails) /\ DOMAIN mails' = 1..n
      /\ \A i \in DOMAIN mails : mails'[i] = mails[i]
      /\ mails'[n] = x
  BY <1>1, <1>2, OneMore DEF Shape
<1>5. /\ drafts' \subseteq drafts /\ Known' = Known
      /\ faults' \in 0..MaxFaults
      /\ links' \subseteq links \cup {<<n, j>> : j \in Ids(d.job)}
      /\ last' = last \/ last' = [j \in Jobs |-> IF j = d.job THEN n ELSE last[j]]
  BY <1>1, <1>4, ThreadsAssumption
     DEF Shape, Known, Send, StopUnmarked, StopUnlinked, NoteLink, NoteLast
<1>6. Shape'
  <2>1. mails' \in Seq(Mail) /\ Len(mails') <= MaxMails /\ owner' \in [Jobs -> Users \cup {NoJob}]
    BY <1>1, <1>4, ThreadsAssumption DEF Shape
  <2>2. DOMAIN mails \subseteq DOMAIN mails' /\ n \in DOMAIN mails'
    BY <1>4
  <2>3. links' \subseteq (DOMAIN mails') \X Known
    BY <1>1, <1>5, <2>2 DEF Shape, Ids
  <2>4. last' \in [Jobs -> {0} \cup DOMAIN mails']
    BY <1>5, <2>2 DEF Shape
  <2>5. drafts' \subseteq [job : Known \cup {NoJob}, subject : Jobs \cup {NoJob},
                          said : SUBSET Jobs, parent : DOMAIN mails']
    BY <1>5, <2>2 DEF Shape
  <2>6. todo \subseteq DOMAIN mails' /\ \A m \in todo : mails'[m].from \in Users
    BY <1>4, <2>2 DEF Shape
  <2>7. QED
    BY <1>1, <1>5, <2>1, <2>2, <2>3, <2>4, <2>5, <2>6 DEF Shape
<1>7. RecordsAreTrue'
  BY <1>1, <1>3, <1>4, <1>5, ThreadsAssumption DEF RecordsAreTrue, Shape, Ids
<1>8. ThreadsRunBack' /\ OwnJobsOnly' /\ ReplyReachesItsJob' /\ ActedIsMentioned'
  BY <1>1, <1>2, <1>3, <1>5, OneMoreKeeps
<1>9. QED
  BY <1>6, <1>7, <1>8

\* Every step preserves the invariant.
LEMMA StepKeepsIInv == IInv /\ [Next]_vars => IInv'
<1>1. ASSUME IInv, UNCHANGED vars PROVE IInv'
  BY <1>1 DEF vars, IInv, Shape, ThreadsRunBack, RecordsAreTrue, OwnJobsOnly,
              ReplyReachesItsJob, ActedIsMentioned, Known, Owned
<1>2. QED
  BY <1>1, WriteKeeps, SubmitKeeps, ReferKeeps, AskKeeps, SendKeeps DEF Next

-----------------------------------------------------------------------------
(* The theorems.                                                           *)

\* The invariant holds throughout.
THEOREM Invariance == Spec => []IInv
BY InitIInv, StepKeepsIInv, PTL DEF Spec

\* The state keeps its shape; what is recorded of a mail is recorded of one of
\* the agent's.
THEOREM ThreadsTyped == Spec => []TypeOK
<1>1. IInv => TypeOK
  BY DEF IInv, Shape, RecordsAreTrue, TypeOK
<1>2. QED
  BY <1>1, Invariance, PTL

\* Nobody acts on a job of somebody else, in however long a thread and however
\* many owners share it, whatever id the language model gives.
THEOREM OwnJobs == Spec => []OwnJobsOnly
<1>1. IInv => OwnJobsOnly
  BY DEF IInv
<1>2. QED
  BY <1>1, Invariance, PTL

\* A reply to a linked mail is taken to be about the job of the link, unless the
\* language model gives another id.
THEOREM ReplyReaches == Spec => []ReplyReachesItsJob
<1>1. IInv => ReplyReachesItsJob
  BY DEF IInv
<1>2. QED
  BY <1>1, Invariance, PTL

\* No job is acted on that neither the mail nor its thread mentions, but on the
\* word of the language model.
THEOREM ActedMentioned == Spec => []ActedIsMentioned
<1>1. IInv => ActedIsMentioned
  BY DEF IInv
<1>2. QED
  BY <1>1, Invariance, PTL
==============================================================================

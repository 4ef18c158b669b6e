---------------------------- MODULE InboxProofs ----------------------------
(***************************************************************************)
(* What Inbox guarantees for every set of messages, any number of          *)
(* redeliveries, outages, crashes and exceptions.                          *)
(***************************************************************************)
EXTENDS Inbox, TLAPS

\* The message of an entry is a Message-ID.
LEMMA EntryHasId == \A e \in Entry : e[1] \in Ids
BY DEF Entry

\* There is an entry at all.
LEMMA SomeEntry == (CHOOSE e \in Entry : TRUE) \in Entry
<1>1. PICK i \in Ids : TRUE
  BY InboxAssumption
<1>2. 1 \in 1..Copies
  BY InboxAssumption
<1>3. <<i, 1>> \in Entry
  BY <1>1, <1>2 DEF Entry
<1>4. QED
  BY <1>3

\* The next statement of a message in hand is a statement.
LEMMA ThenIsLabel == \A l \in Label : \A r : Then(l, r) \in Label
BY DEF Then, Label

\* A message that is begun goes to the first statement of a course.
LEMMA RoutesAreCourses ==
  \A s \in Sender : \A r \in RoutesOf(s) : r \in Route /\ First(r) \in Label /\ r # "skip"
BY DEF Sender, RoutesOf, First, Route, Label

\* With the owners or without them, a sender has a class; the class is his
\* own unless he is an owner.
LEMMA ClassIsSender ==
  ASSUME TypeOK, NEW i \in Ids
  PROVE  /\ Class(i) \in Sender
         /\ sender[i] # "authorised" => Class(i) = sender[i]
BY DEF Class, TypeOK, Sender

\* The message in hand keeps its class while the process lasts.
LEMMA SameClass ==
  UNCHANGED <<setup, on>> => Class(Msg)' = Class(Msg) /\ (Stranger' <=> Stranger)
BY DEF Class, Msg, Stranger, setup

\* The two parts of the inductive invariant.
IInv == TypeOK /\ LedgerInv

\* Nothing has happened yet.
LEMMA InitOK == Init => IInv
<1> SUFFICES ASSUME Init PROVE IInv
  OBVIOUS
<1>1. TypeOK
  <2>1. on \in Entry
    BY SomeEntry DEF Init
  <2>2. at \in Label /\ route \in Route
    BY DEF Init, Label, Route
  <2>3. attempts \in [Ids -> 0..MAX_PROCESSING_ATTEMPTS]
    BY DEF Init, MAX_PROCESSING_ATTEMPTS
  <2>4. outages \in 0..MaxOutages /\ faults \in 0..MaxFaults
    BY InboxAssumption DEF Init
  <2>5. jobs \in [Ids -> Nat] /\ replies \in [Ids -> Nat]
    BY DEF Init
  <2>6. /\ mailbox \in [Entry -> {"absent", "unread", "read"}]
        /\ outcome \in [Ids -> {"none", "in_progress", "final"}]
    BY DEF Init
  <2>7. QED
    BY <2>1, <2>2, <2>3, <2>4, <2>5, <2>6, InboxAssumption DEF Init, TypeOK
<1>2. ASSUME NEW i \in Ids PROVE AttemptInv(i)
  <2>1. outcome[i] = "none" /\ ~InHand(i)
    BY DEF Init, InHand
  <2>2. attempts[i] = 0 /\ jobs[i] = 0 /\ replies[i] = 0 /\ faults = 0
    BY DEF Init
  <2>3. QED
    BY <2>1, <2>2 DEF AttemptInv
<1>3. HandInv /\ CoolingInv
  BY DEF Init, HandInv, CoolingInv
<1>4. ReadIsSettled /\ SettledIsTold
  BY EntryHasId DEF Init, ReadIsSettled, SettledIsTold, Known
<1>5. QED
  BY <1>1, <1>2, <1>3, <1>4 DEF IInv, LedgerInv

-----------------------------------------------------------------------------
(* One lemma per group of actions: the invariant survives the step.        *)

\* What the admin knows he goes on knowing.
LEMMA KnownStays ==
  ASSUME mailed \subseteq mailed', hushed \subseteq hushed', NEW i \in Ids, Known(i)
  PROVE  Known(i)'
BY DEF Known

\* Delivery and removal only touch the flag of an entry that is not read.
LEMMA DeliverOK ==
  ASSUME IInv, NEW e \in Entry, Deliver(e) \/ RemoveByHand(e) PROVE IInv'
<1> USE DEF IInv, LedgerInv, Deliver, RemoveByHand, ledger, traces, alerts, thread, setup
<1>1. TypeOK'
  BY DEF TypeOK
<1>2. \A f \in Entry : mailbox'[f] = "read" => mailbox[f] = "read"
  BY DEF TypeOK
<1>3. \A i \in Ids : AttemptInv(i)'
  BY <1>2 DEF AttemptInv, InHand, Msg
<1>4. HandInv' /\ CoolingInv'
  BY SameClass DEF HandInv, CoolingInv, Known, Msg
<1>5. ReadIsSettled'
  BY <1>2 DEF ReadIsSettled
<1>6. SettledIsTold'
  BY DEF SettledIsTold, Known
<1>7. QED
  BY <1>1, <1>3, <1>4, <1>5, <1>6

\* The end of a cooldown touches nothing else.
LEMMA CooldownEndsOK == ASSUME IInv, CooldownEnds PROVE IInv'
<1> USE DEF IInv, LedgerInv, CooldownEnds, ledger, thread, setup
<1>1. TypeOK'
  BY DEF TypeOK
<1>2. \A i \in Ids : AttemptInv(i)'
  BY DEF AttemptInv, InHand, Msg
<1>3. HandInv' /\ CoolingInv'
  BY SameClass DEF HandInv, CoolingInv, Known, Msg
<1>4. QED
  BY <1>1, <1>2, <1>3 DEF ReadIsSettled, SettledIsTold, Known

\* Fetching changes nothing but the batch.
LEMMA PollOK == ASSUME IInv, Poll PROVE IInv'
<1> USE DEF IInv, LedgerInv, Poll, ledger, traces, alerts, setup
<1>1. TypeOK'
  BY DEF TypeOK
<1>2. \A i \in Ids : AttemptInv(i)'
  BY DEF AttemptInv, InHand, Msg
<1>3. HandInv' /\ CoolingInv'
  BY SameClass DEF HandInv, CoolingInv, Known, Msg
<1>4. QED
  BY <1>1, <1>2, <1>3 DEF ReadIsSettled, SettledIsTold, Known

\* A message is begun, or refused and only marked.
LEMMA BeginOK == ASSUME IInv, NEW e \in Entry, Begin(e) PROVE IInv'
<1> DEFINE i == e[1]
<1> USE DEF IInv, LedgerInv, Begin, Take, traces, alerts, setup
<1>0. i \in Ids /\ Msg' = i /\ at = "idle"
  BY EntryHasId DEF Msg
<1>1. CASE outcome[i] = "none" \/ (outcome[i] = "in_progress" /\ attempts[i] < MAX_PROCESSING_ATTEMPTS)
  <2>1. /\ outcome' = [outcome EXCEPT ![i] = "in_progress"]
        /\ attempts' = [attempts EXCEPT ![i] = @ + 1]
        /\ at' = "route" /\ route' = route
    BY <1>1 DEF Opens
  <2>2. attempts[i] < MAX_PROCESSING_ATTEMPTS
    BY <1>0, <1>1 DEF AttemptInv, MAX_PROCESSING_ATTEMPTS
  <2>3. TypeOK'
    <3>1. outcome' \in [Ids -> {"none", "in_progress", "final"}]
      BY <2>1 DEF TypeOK
    <3>2. attempts[i] + 1 \in 0..MAX_PROCESSING_ATTEMPTS
      BY <1>0, <2>2 DEF TypeOK, MAX_PROCESSING_ATTEMPTS
    <3>3. attempts' \in [Ids -> 0..MAX_PROCESSING_ATTEMPTS]
      BY <2>1, <3>2 DEF TypeOK
    <3>4. QED
      BY <2>1, <3>1, <3>3 DEF TypeOK, Label
  <2>4. \A f \in Entry : f[1] = i => mailbox[f] # "read"
    BY <1>0, <1>1, <2>2 DEF TypeOK, ReadIsSettled, MAX_PROCESSING_ATTEMPTS
  <2>5. ASSUME NEW k \in Ids PROVE AttemptInv(k)'
    <3>1. CASE k = i
      <4>1. InHand(k)'
        BY <1>0, <2>1, <3>1 DEF InHand, TypeOK
      <4>2. ~InHand(k) /\ jobs[k] <= faults /\ replies[k] <= faults
        BY <1>0, <1>1, <3>1, InboxAssumption DEF AttemptInv, InHand, TypeOK
      <4>3. k \in RaisesFor \/ attempts[k] <= faults + outages
        BY <1>0, <1>1, <3>1, <4>2, InboxAssumption DEF AttemptInv, TypeOK
      <4>4. attempts'[k] = attempts[k] + 1 /\ outcome'[k] = "in_progress"
        BY <2>1, <3>1 DEF TypeOK
      <4>5. QED
        BY <1>0, <2>4, <3>1, <4>1, <4>2, <4>3, <4>4 DEF AttemptInv, TypeOK
    <3>2. CASE k # i
      <4>1. ~InHand(k) /\ ~InHand(k)'
        BY <1>0, <3>2 DEF InHand
      <4>2. attempts'[k] = attempts[k] /\ outcome'[k] = outcome[k]
        BY <2>1, <3>2 DEF TypeOK
      <4>3. QED
        BY <4>1, <4>2 DEF AttemptInv
    <3>3. QED
      BY <3>1, <3>2
  <2>6. HandInv' /\ CoolingInv'
    BY <1>0, <1>1, <2>1, InboxAssumption DEF HandInv, CoolingInv, Known, TypeOK, AttemptInv, InHand
  <2>7. ReadIsSettled'
    BY <1>0, <2>1, <2>4, EntryHasId DEF ReadIsSettled, TypeOK
  <2>8. SettledIsTold'
    BY <2>1 DEF SettledIsTold, Known, TypeOK
  <2>9. QED
    BY <2>3, <2>5, <2>6, <2>7, <2>8
<1>2. CASE ~(outcome[i] = "none" \/ (outcome[i] = "in_progress" /\ attempts[i] < MAX_PROCESSING_ATTEMPTS))
  <2>1. at' = "mark" /\ route' = "skip" /\ UNCHANGED ledger
    BY <1>2 DEF Opens
  <2>2. TypeOK'
    BY <2>1 DEF TypeOK, Label, Route, ledger
  <2>3. outcome[i] = "final" \/ attempts[i] = MAX_PROCESSING_ATTEMPTS
    BY <1>0, <1>2 DEF TypeOK, MAX_PROCESSING_ATTEMPTS
  <2>4. \A k \in Ids : AttemptInv(k)'
    BY <1>0, <2>1 DEF AttemptInv, InHand, ledger
  <2>5. HandInv' /\ CoolingInv'
    BY <1>0, <2>1, <2>3 DEF HandInv, CoolingInv, Known, ledger
  <2>6. ReadIsSettled' /\ SettledIsTold'
    BY <2>1 DEF ReadIsSettled, SettledIsTold, Known, ledger
  <2>7. QED
    BY <2>2, <2>4, <2>5, <2>6
<1>3. QED
  BY <1>1, <1>2

\* The choice of a course leaves the message in hand.
LEMMA ChooseRouteOK == ASSUME IInv, ChooseRoute PROVE IInv'
<1> USE DEF IInv, LedgerInv, ChooseRoute, ledger, traces, alerts, setup
<1>0. /\ Msg \in Ids /\ Msg' = Msg
      /\ Class(Msg) \in Sender /\ Class(Msg)' = Class(Msg)
  BY EntryHasId, ClassIsSender, SameClass DEF TypeOK, Msg
<1>1. PICK r \in RoutesOf(Class(Msg)) : route' = r /\ at' = First(r)
  OBVIOUS
<1>2. TypeOK'
  BY <1>0, <1>1, RoutesAreCourses DEF TypeOK
<1>3. /\ at' \in {"job", "reply", "alert"} /\ route' # "skip"
      /\ at' = "alert" <=> Class(Msg) = "rejected"
      /\ outcome[Msg] = "in_progress"
  BY <1>0, <1>1 DEF RoutesOf, First, HandInv, Sender
<1>4. \A i \in Ids : InHand(i)' <=> InHand(i)
  BY <1>0, <1>3 DEF InHand
<1>5. \A i \in Ids : AttemptInv(i)'
  BY <1>4 DEF AttemptInv
<1>6. HandInv' /\ CoolingInv'
  BY <1>0, <1>1, <1>3 DEF HandInv, CoolingInv, Known
<1>7. QED
  BY <1>2, <1>5, <1>6 DEF ReadIsSettled, SettledIsTold, Known

\* Where _match_report does not raise, attempts in progress are paid for.
LEMMA AttemptsArePaid ==
  ASSUME NEW i \in Ids, i \notin RaisesFor, AttemptInv(i), outcome[i] = "in_progress"
  PROVE  attempts[i] <= faults + outages + (IF InHand(i) THEN 1 ELSE 0)
BY Zenon DEF AttemptInv

\* One more fault or outage pays for one more attempt.
LEMMA OneMoreIsPaid ==
  ASSUME NEW a \in Nat, NEW f \in Nat, NEW o \in Nat, NEW f2 \in Nat, NEW o2 \in Nat,
         a <= f + o + 1, f2 + o2 > f + o
  PROVE  a <= f2 + o2
OBVIOUS

\* An attempt that ends without finalising, with or without the rest of the
\* batch, has cost an outage or a fault, or has stumbled over _match_report.
LEMMA AbandonOK ==
  ASSUME IInv, at' = "idle", batch' \subseteq batch,
         UNCHANGED <<on, route, sender, admin, mailbox, ledger, traces>>,
         owners' \in LoadOwners,
         faults' \in 0..MaxFaults, outages' \in 0..MaxOutages,
         faults' >= faults, outages' >= outages,
         at = "route" \/ faults' > faults,
         (at = "route" /\ Msg \in RaisesFor) \/ faults' + outages' > faults + outages
  PROVE  IInv'
<1> USE DEF IInv, LedgerInv, ledger, traces, alerts
<1>1. TypeOK'
  BY DEF TypeOK, Label
<1>2. /\ faults \in Nat /\ outages \in Nat
      /\ faults' \in Nat /\ outages' \in Nat
  BY InboxAssumption DEF TypeOK
<1>3. ASSUME NEW i \in Ids PROVE AttemptInv(i)'
  <2>1. ~InHand(i)'
    BY DEF InHand
  <2>2. jobs[i] \in Nat /\ replies[i] \in Nat /\ attempts[i] \in Nat
    BY DEF TypeOK, MAX_PROCESSING_ATTEMPTS
  <2>3. jobs[i] <= faults + 1 /\ replies[i] <= faults + 1 /\ AttemptInv(i)
    BY <1>2, <2>2 DEF AttemptInv
  <2>4. outcome[i] = "in_progress" => jobs[i] <= faults' /\ replies[i] <= faults'
    <3>1. CASE faults' > faults
      BY <1>2, <2>2, <2>3, <3>1
    <3>2. CASE at = "route" /\ faults' >= faults
      <4>1. outcome[i] = "in_progress" => jobs[i] <= faults /\ replies[i] <= faults
        BY <2>3, <3>2 DEF AttemptInv, InHand, HandInv
      <4>2. QED
        BY <1>2, <2>2, <3>2, <4>1
    <3>3. QED
      BY <3>1, <3>2
  <2>5. ASSUME i \notin RaisesFor, outcome[i] = "in_progress"
        PROVE  attempts[i] <= faults' + outages'
    <3>1. attempts[i] <= faults + outages + (IF InHand(i) THEN 1 ELSE 0)
      BY <2>3, <2>5, AttemptsArePaid
    <3>2. CASE faults' + outages' > faults + outages
      <4>1. attempts[i] <= faults + outages + 1
        BY <1>2, <2>2, <3>1
      <4>2. QED
        BY <1>2, <2>2, <3>2, <4>1, OneMoreIsPaid, Zenon
    <3>3. CASE at = "route" /\ Msg \in RaisesFor
      <4>1. ~InHand(i)
        BY <2>5, <3>3, Zenon DEF InHand
      <4>2. QED
        BY <1>2, <2>2, <3>1, <4>1
    <3>4. QED
      BY <3>2, <3>3
  <2>6. jobs[i] <= 1 + faults' /\ replies[i] <= 1 + faults'
    BY <1>2, <2>2, <2>3
  <2>7. (attempts[i] <= faults' + outages') =>
          attempts'[i] <= faults' + outages' + (IF InHand(i)' THEN 1 ELSE 0)
    BY <1>2, <2>1, <2>2
  <2>8. i \in RaisesFor \/ outcome'[i] # "in_progress"
          \/ attempts'[i] <= faults' + outages' + (IF InHand(i)' THEN 1 ELSE 0)
    BY <2>5, <2>7, Zenon
  <2>9. /\ outcome'[i] = "none" => attempts'[i] = 0 /\ jobs'[i] = 0 /\ replies'[i] = 0
        /\ replies'[i] > 0 => sender'[i] # "rejected"
    BY <2>3 DEF AttemptInv
  <2>10. QED
    BY <2>1, <2>4, <2>6, <2>8, <2>9, Zenon DEF AttemptInv
<1>4. HandInv' /\ CoolingInv'
  BY DEF HandInv, CoolingInv, Known
<1>5. QED
  BY <1>1, <1>3, <1>4 DEF ReadIsSettled, SettledIsTold, Known

\* The four ways in which an attempt ends early.
LEMMA InterruptedOK ==
  ASSUME IInv, Defer \/ MatchReportRaises \/ Raise \/ Crash PROVE IInv'
<1>0. /\ faults \in 0..MaxFaults /\ outages \in 0..MaxOutages /\ batch \subseteq batch
      /\ faults \in Nat /\ outages \in Nat
      /\ owners \in LoadOwners
  BY InboxAssumption DEF IInv, TypeOK
<1>1. CASE Defer
  <2>1. outages < MaxOutages /\ outages' = outages + 1 /\ faults' = faults
    BY <1>1 DEF Defer
  <2>2. /\ faults' \in 0..MaxFaults /\ outages' \in 0..MaxOutages
        /\ faults' >= faults /\ outages' >= outages /\ faults' + outages' > faults + outages
    BY <1>0, <2>1, InboxAssumption
  <2>3. QED
    BY <1>0, <1>1, <2>2, AbandonOK DEF Defer, Drop, setup
<1>2. CASE MatchReportRaises
  <2>1. faults' \in 0..MaxFaults /\ outages' \in 0..MaxOutages /\ faults' >= faults /\ outages' >= outages
    BY <1>0, <1>2 DEF MatchReportRaises
  <2>2. Msg \in RaisesFor /\ at = "route"
    BY <1>2 DEF MatchReportRaises
  <2>3. QED
    BY <1>0, <1>2, <2>1, <2>2, AbandonOK DEF MatchReportRaises, Drop, setup
<1>3. CASE Raise \/ Crash
  <2>1. faults < MaxFaults /\ faults' = faults + 1 /\ outages' = outages
    BY <1>3 DEF Raise, Crash
  <2>2. /\ faults' \in 0..MaxFaults /\ outages' \in 0..MaxOutages
        /\ faults' > faults /\ faults' >= faults /\ outages' >= outages
        /\ faults' + outages' > faults + outages
    BY <1>0, <2>1, InboxAssumption
  <2>3. /\ at' = "idle" /\ batch' \subseteq batch
        /\ UNCHANGED <<on, route, sender, admin, mailbox, ledger, traces>>
        /\ owners' \in LoadOwners
    BY <1>0, <1>3 DEF Raise, Crash, Drop, setup
  <2>4. QED
    BY <2>2, <2>3, AbandonOK
<1>4. QED
  BY <1>1, <1>2, <1>3

-----------------------------------------------------------------------------
(* The statements of a course.                                             *)

\* A message in hand is in the ledger, on its way along a course.
LEMMA InHandFacts ==
  ASSUME IInv, at # "idle"
  PROVE  /\ Msg \in Ids /\ on \in Entry /\ AttemptInv(Msg)
         /\ Class(Msg) \in Sender /\ faults \in Nat /\ outages \in Nat
         /\ sender[Msg] # "authorised" => Class(Msg) = sender[Msg]
         /\ jobs[Msg] \in Nat /\ replies[Msg] \in Nat
<1>1. Msg \in Ids /\ TypeOK
  BY EntryHasId DEF IInv, TypeOK, Msg
<1>2. QED
  BY <1>1, ClassIsSender, InboxAssumption DEF IInv, LedgerInv, TypeOK

\* What the next statement is.
LEMMA NextStatement ==
  ASSUME NEW s \in Sender, NEW r \in RoutesOf(s)
  PROVE  /\ Then("job", r) = "reply"
         /\ Then("reply", r) = IF s = "in_domain" THEN "alert" ELSE "finalize"
         /\ Then("alert", r) = IF s = "authorised" /\ r = "unparsed" THEN "idle" ELSE "finalize"
         /\ Then("record", r) = Then("alert", r)
         /\ Then("finalize", r) = "mark"
         /\ Then("mark", r) = IF s = "authorised" /\ r = "unparsed" THEN "alert" ELSE "idle"
<1>1. s = "in_domain" => r = "unrecognised"
  BY DEF RoutesOf
<1>2. s = "rejected" => r = "rejected"
  BY DEF RoutesOf
<1>3. s = "authorised" => r \in {"unparsed", "answer", "submit"}
  BY DEF RoutesOf
<1>4. QED
  BY <1>1, <1>2, <1>3 DEF Then, Sender

\* create_job: one more job, in an attempt that had made none.
LEMMA CreateJobOK == ASSUME IInv, CreateJob PROVE IInv'
<1> USE DEF IInv, LedgerInv, CreateJob, Step, ledger, alerts, setup
<1>1. /\ Msg \in Ids /\ Msg' = Msg /\ AttemptInv(Msg) /\ faults \in Nat /\ jobs[Msg] \in Nat
      /\ Class(Msg) \in Sender /\ Class(Msg)' = Class(Msg)
  BY InHandFacts, SameClass DEF Msg
<1>2. /\ outcome[Msg] = "in_progress" /\ jobs[Msg] <= faults /\ replies[Msg] <= faults
      /\ route \in RoutesOf(Class(Msg)) /\ route # "skip"
  BY DEF HandInv
<1>3. at' = "reply" /\ Class(Msg) # "rejected"
  <2>1. at' = "reply"
    BY <1>1, <1>2, NextStatement
  <2>2. QED
    BY <1>2, <2>1 DEF HandInv
<1>4. TypeOK'
  BY <1>1, <1>3 DEF TypeOK, Label
<1>5. ASSUME NEW i \in Ids PROVE AttemptInv(i)'
  <2>1. InHand(i)' <=> InHand(i)
    BY <1>1, <1>3 DEF InHand
  <2>2. CASE i = Msg
    <3>1. jobs'[i] = jobs[i] + 1 /\ InHand(i)
      BY <1>1, <1>2, <2>2 DEF TypeOK, InHand
    <3>2. QED
      BY <1>1, <1>2, <2>1, <2>2, <3>1 DEF AttemptInv
  <2>3. CASE i # Msg
    <3>1. jobs'[i] = jobs[i]
      BY <2>3 DEF TypeOK
    <3>2. QED
      BY <2>1, <3>1 DEF AttemptInv
  <2>4. QED
    BY <2>2, <2>3
<1>6. HandInv' /\ CoolingInv'
  BY <1>1, <1>2, <1>3 DEF HandInv, CoolingInv, Known
<1>7. QED
  BY <1>4, <1>5, <1>6 DEF ReadIsSettled, SettledIsTold, Known

\* One more answer, in an attempt that had sent none.
LEMMA ReplyOK == ASSUME IInv, Reply PROVE IInv'
<1> USE DEF IInv, LedgerInv, Reply, Step, ledger, alerts, setup
<1>1. /\ Msg \in Ids /\ Msg' = Msg /\ AttemptInv(Msg) /\ faults \in Nat /\ replies[Msg] \in Nat
      /\ Class(Msg) \in Sender /\ Class(Msg)' = Class(Msg)
      /\ sender[Msg] # "authorised" => Class(Msg) = sender[Msg]
  BY InHandFacts, SameClass DEF Msg
<1>2. /\ outcome[Msg] = "in_progress" /\ replies[Msg] <= faults
      /\ Class(Msg) # "rejected" /\ sender[Msg] # "rejected" /\ route \in RoutesOf(Class(Msg)) /\ route # "skip"
  BY <1>1 DEF HandInv
<1>3. at' = IF Class(Msg) = "in_domain" THEN "alert" ELSE "finalize"
  BY <1>1, <1>2, NextStatement
<1>4. TypeOK'
  BY <1>1, <1>3 DEF TypeOK, Label
<1>5. replies'[Msg] = replies[Msg] + 1 /\ \A i \in Ids : i # Msg => replies'[i] = replies[i]
  BY <1>1 DEF TypeOK
<1>6. ASSUME NEW i \in Ids PROVE AttemptInv(i)'
  <2>1. InHand(i)' <=> InHand(i)
    BY <1>1, <1>3 DEF InHand
  <2>2. CASE i = Msg
    <3>1. InHand(i)
      BY <1>2, <2>2 DEF InHand
    <3>2. QED
      BY <1>1, <1>2, <1>5, <2>1, <2>2, <3>1 DEF AttemptInv
  <2>3. CASE i # Msg
    BY <1>5, <2>1, <2>3 DEF AttemptInv
  <2>4. QED
    BY <2>2, <2>3
<1>7. HandInv' /\ CoolingInv'
  BY <1>1, <1>2, <1>3, <1>5 DEF HandInv, CoolingInv, Known, Sender
<1>8. SettledIsTold'
  BY <1>1, <1>2, <1>5 DEF SettledIsTold, Known
<1>9. QED
  BY <1>4, <1>6, <1>7, <1>8 DEF ReadIsSettled

\* What AlertOK and RecordSentOK share: the statement after an alert keeps
\* what is known of the message in hand.
LEMMA AlertedOK ==
  ASSUME IInv, at \in {"alert", "record"}, at' \in {"record", "idle", "finalize"}, TypeOK',
         at' = "record" => Msg \in mailed' /\ Stranger,
         at' = "finalize" => Class(Msg) # "authorised" /\ (admin => Known(Msg)'),
         at' = "idle" => Class(Msg) = "authorised",
         mailed \subseteq mailed', hushed \subseteq hushed', CoolingInv',
         UNCHANGED <<setup, mailbox, ledger, jobs, replies, batch, on, route, outages, faults>>
  PROVE  IInv'
<1> USE DEF IInv, LedgerInv, ledger, setup
<1>1. /\ Msg \in Ids /\ Msg' = Msg /\ AttemptInv(Msg) /\ Class(Msg) \in Sender
      /\ Class(Msg)' = Class(Msg) /\ (Stranger' <=> Stranger)
  BY InHandFacts, SameClass DEF Msg
<1>2. route \in RoutesOf(Class(Msg)) /\ route # "skip"
  BY <1>1 DEF HandInv
<1>3. at' \in {"record", "finalize"} => outcome[Msg] = "in_progress"
  BY <1>1 DEF HandInv, Stranger
<1>4. at' = "idle" => outcome[Msg] = "final"
  BY <1>1 DEF HandInv
<1>5. ASSUME NEW i \in Ids PROVE AttemptInv(i)'
  <2>1. InHand(i)' <=> InHand(i)
    BY <1>1, <1>3, <1>4 DEF InHand
  <2>2. QED
    BY <2>1 DEF AttemptInv
<1>6. HandInv'
  BY <1>1, <1>2, <1>3 DEF HandInv, Sender, Stranger
<1>7. SettledIsTold'
  BY KnownStays DEF SettledIsTold
<1>8. QED
  BY <1>5, <1>6, <1>7 DEF ReadIsSettled

\* An alert: a mail to the admin, or a cooldown that the mail about another
\* message has begun, or no admin, or no stranger.
LEMMA AlertOK == ASSUME IInv, Alert PROVE IInv'
<1> USE DEF IInv, LedgerInv, Alert, Step, ledger, setup
<1>1. Msg \in Ids /\ Msg' = Msg /\ Class(Msg) \in Sender
  BY InHandFacts DEF Msg
<1>2. route \in RoutesOf(Class(Msg)) /\ route # "skip"
  BY DEF HandInv
<1>3. Class(Msg) = "authorised" => route = "unparsed"
  BY DEF HandInv
<1>4. cooling \subseteq mailed /\ cooling \subseteq Ids
  BY DEF CoolingInv, TypeOK
<1>5. CASE Stranger /\ admin /\ cooling = {}
  <2>1. /\ mailed' = mailed \cup {Msg} /\ hushed' = hushed /\ cooling' = cooling
        /\ at' = "record" /\ UNCHANGED <<batch, on, route>>
    BY <1>5
  <2>2. TypeOK'
    BY <1>1, <2>1 DEF TypeOK, Label
  <2>3. CoolingInv'
    BY <2>1 DEF CoolingInv
  <2>4. QED
    BY <1>5, <2>1, <2>2, <2>3, AlertedOK
<1>6. CASE ~(Stranger /\ admin /\ cooling = {})
  <2>1. /\ hushed' = hushed \cup {<<Msg, j>> : j \in IF Stranger THEN cooling ELSE {}}
        /\ at' = Then("alert", route) /\ UNCHANGED <<batch, on, route, mailed, cooling>>
    BY <1>6
  <2>2. /\ at' \in {"idle", "finalize"}
        /\ at' = "idle" <=> Class(Msg) = "authorised"
    BY <1>1, <1>2, <1>3, <2>1, NextStatement
  <2>3. TypeOK'
    BY <1>1, <1>4, <2>1, <2>2 DEF TypeOK, Label
  <2>4. CoolingInv'
    BY <2>1 DEF CoolingInv
  <2>5. ASSUME at' = "finalize", admin PROVE Known(Msg)'
    <3>1. Stranger /\ cooling # {}
      BY <1>6, <2>2, <2>5 DEF Stranger
    <3>2. PICK j \in cooling : TRUE
      BY <3>1
    <3>3. <<Msg, j>> \in hushed' /\ j \in mailed'
      BY <1>4, <2>1, <3>1, <3>2
    <3>4. QED
      BY <1>1, <3>3 DEF Known
  <2>6. QED
    BY <1>6, <2>1, <2>2, <2>3, <2>4, <2>5, AlertedOK
<1>7. QED
  BY <1>5, <1>6

\* The cooldown begins after its mail.
LEMMA RecordSentOK == ASSUME IInv, RecordSent PROVE IInv'
<1> USE DEF IInv, LedgerInv, RecordSent, Step, ledger, setup
<1>1. Msg \in Ids /\ Msg' = Msg /\ Class(Msg) \in Sender
  BY InHandFacts DEF Msg
<1>2. Msg \in mailed /\ Stranger /\ route \in RoutesOf(Class(Msg))
  BY DEF HandInv
<1>3. at' = "finalize" /\ Class(Msg) # "authorised"
  BY <1>1, <1>2, NextStatement DEF Stranger
<1>4. TypeOK'
  BY <1>1, <1>3 DEF TypeOK, Label
<1>5. CoolingInv'
  BY <1>2 DEF CoolingInv
<1>6. Known(Msg)'
  BY <1>1, <1>2 DEF Known
<1>7. QED
  BY <1>3, <1>4, <1>5, <1>6, AlertedOK

\* Finalising a message whose course has been run.
LEMMA FinalizeOK == ASSUME IInv, Finalize PROVE IInv'
<1> USE DEF IInv, LedgerInv, Finalize, Step, traces, alerts, setup
<1>1. /\ Msg \in Ids /\ Msg' = Msg /\ AttemptInv(Msg) /\ Class(Msg) \in Sender /\ Class(Msg)' = Class(Msg)
      /\ replies[Msg] \in Nat
      /\ sender[Msg] # "authorised" => Class(Msg) = sender[Msg]
  BY InHandFacts, SameClass DEF Msg
<1>2. route \in RoutesOf(Class(Msg)) /\ route # "skip" /\ at' = "mark"
  BY <1>1, NextStatement DEF HandInv
<1>3. TypeOK'
  BY <1>1, <1>2 DEF TypeOK, Label
<1>4. outcome'[Msg] = "final" /\ \A i \in Ids : i # Msg => outcome'[i] = outcome[i]
  BY <1>1 DEF TypeOK
<1>5. ASSUME NEW i \in Ids PROVE AttemptInv(i)'
  <2>1. ~InHand(i)'
    BY <1>2 DEF InHand
  <2>2. CASE i = Msg
    BY <1>1, <1>4, <2>1, <2>2 DEF AttemptInv
  <2>3. CASE i # Msg
    <3>1. ~InHand(i)
      BY <2>3 DEF InHand
    <3>2. QED
      BY <1>4, <2>1, <2>3, <3>1 DEF AttemptInv
  <2>4. QED
    BY <2>2, <2>3
<1>6. HandInv' /\ CoolingInv'
  BY <1>1, <1>2, <1>4 DEF HandInv, CoolingInv, Known
<1>7. ReadIsSettled'
  BY <1>4, EntryHasId DEF ReadIsSettled
<1>8. SettledIsTold'
  <2>1. /\ Class(Msg) # "rejected" => replies[Msg] > 0
        /\ Class(Msg) # "authorised" /\ admin => Known(Msg)
        /\ sender[Msg] = "rejected" => ~(replies[Msg] > 0)
    BY <1>1 DEF HandInv, AttemptInv
  <2>2. /\ sender[Msg] = "rejected" => replies[Msg] = 0
        /\ sender[Msg] = "in_domain" => replies[Msg] > 0
        /\ admin /\ (sender[Msg] # "authorised" \/ replies[Msg] = 0) => Known(Msg)
    BY <1>1, <2>1
  <2>3. QED
    BY <1>4, <2>2 DEF SettledIsTold, Known
<1>9. QED
  BY <1>3, <1>5, <1>6, <1>7, <1>8

\* Marking an entry read, once its message is done with.
LEMMA MarkProcessedOK == ASSUME IInv, MarkProcessed PROVE IInv'
<1> USE DEF IInv, LedgerInv, MarkProcessed, Step, ledger, traces, alerts, setup
<1>1. /\ Msg \in Ids /\ Msg' = Msg /\ AttemptInv(Msg) /\ Class(Msg) \in Sender /\ Class(Msg)' = Class(Msg)
      /\ on \in Entry /\ replies[Msg] \in Nat
  BY InHandFacts, SameClass DEF Msg
<1>2. outcome[Msg] = "final" \/ attempts[Msg] = MAX_PROCESSING_ATTEMPTS
  BY DEF HandInv
<1>3. /\ route \in RoutesOf(Class(Msg)) \/ route = "skip"
      /\ route # "skip" => outcome[Msg] = "final"
  <2>1. at = "mark" /\ HandInv
    OBVIOUS
  <2>2. route \in RoutesOf(Class(Msg)) \cup {"skip"}
    BY <2>1 DEF HandInv
  <2>3. route # "skip" => outcome[Msg] = "final"
    BY <2>1, Zenon DEF HandInv
  <2>4. QED
    BY <2>2, <2>3
<1>4. /\ at' \in {"idle", "alert"}
      /\ at' = "alert" => /\ route # "skip" /\ route = "unparsed"
                          /\ Class(Msg) = "authorised" /\ outcome[Msg] = "final"
  <2>1. at' = Then("mark", route)
    OBVIOUS
  <2>2. CASE route = "skip"
    BY <2>1, <2>2 DEF Then
  <2>3. CASE route \in RoutesOf(Class(Msg)) /\ route # "skip"
    BY <1>1, <1>3, <2>1, <2>3, NextStatement
  <2>4. QED
    BY <1>3, <2>2, <2>3
<1>5. TypeOK'
  BY <1>1, <1>4 DEF TypeOK, Label
<1>6. ASSUME NEW i \in Ids PROVE AttemptInv(i)'
  <2>1. ~InHand(i) /\ ~InHand(i)'
    BY <1>1, <1>4 DEF InHand
  <2>2. QED
    BY <2>1 DEF AttemptInv
<1>7. HandInv' /\ CoolingInv'
  BY <1>1, <1>3, <1>4 DEF HandInv, CoolingInv, Known
<1>8. ReadIsSettled'
  BY <1>1, <1>2 DEF ReadIsSettled, TypeOK, Msg
<1>9. SettledIsTold'
  BY DEF SettledIsTold, Known
<1>10. QED
  BY <1>5, <1>6, <1>7, <1>8, <1>9

-----------------------------------------------------------------------------
(* The theorems.                                                           *)

\* Every step keeps the invariant.
LEMMA StepKeepsIInv == IInv /\ [Next]_vars => IInv'
<1> SUFFICES ASSUME IInv, [Next]_vars PROVE IInv'
  OBVIOUS
<1>1. CASE UNCHANGED vars
  BY <1>1 DEF IInv, TypeOK, LedgerInv, AttemptInv, InHand, Msg, HandInv, Class,
              ReadIsSettled, SettledIsTold, CoolingInv, Known, Stranger, setup, vars, ledger, traces, alerts, thread
<1>2. CASE \E e \in Entry : Deliver(e) \/ RemoveByHand(e)
  BY <1>2, DeliverOK
<1>3. CASE Poll \/ CooldownEnds \/ \E e \in Entry : Begin(e)
  BY <1>3, PollOK, CooldownEndsOK, BeginOK
<1>4. CASE Defer \/ MatchReportRaises \/ Raise \/ Crash
  BY <1>4, InterruptedOK
<1>5. CASE ChooseRoute \/ CreateJob \/ Reply \/ Alert \/ RecordSent
  BY <1>5, ChooseRouteOK, CreateJobOK, ReplyOK, AlertOK, RecordSentOK
<1>6. CASE Finalize \/ MarkProcessed
  BY <1>6, FinalizeOK, MarkProcessedOK
<1>7. QED
  BY <1>1, <1>2, <1>3, <1>4, <1>5, <1>6 DEF Next, Handle

\* The invariant holds at all times.
LEMMA Invariance == Spec => []IInv
BY InitOK, StepKeepsIInv, PTL DEF Spec

\* The state keeps its shape; in particular no message is attempted more
\* than MAX_PROCESSING_ATTEMPTS times.
THEOREM TypeCorrect == Spec => []TypeOK
<1>1. IInv => TypeOK
  BY DEF IInv
<1>2. QED
  BY <1>1, Invariance, PTL

\* No mail leaves the unread list before the ledger is done with it.
THEOREM NothingReadTooEarly == Spec => []ReadIsSettled
<1>1. IInv => ReadIsSettled
  BY DEF IInv, LedgerInv
<1>2. QED
  BY <1>1, Invariance, PTL

\* Without a fault there is no second job and no second answer; with n
\* faults there are at most n more.
THEOREM RepeatsAreOwedToFaults == Spec => []RepeatsCostFaults
<1>1. IInv => RepeatsCostFaults
  BY DEF IInv, LedgerInv, AttemptInv, RepeatsCostFaults
<1>2. QED
  BY <1>1, Invariance, PTL

\* A finalised message has been answered; where it has to be reported the
\* admin has a mail about it, or had one in whose cooldown it came, or there
\* is no admin.
THEOREM SettledMailIsAnswered == Spec => []SettledIsTold
<1>1. IInv => SettledIsTold
  BY DEF IInv, LedgerInv
<1>2. QED
  BY <1>1, Invariance, PTL

\* Where _match_report does not raise, a message is given up only after
\* three outages or faults.
THEOREM GivingUpIsDear == Spec => []GivingUpCosts
<1>1. IInv => GivingUpCosts
  <2> SUFFICES ASSUME IInv, NEW e \in Entry, mailbox[e] = "read", outcome[e[1]] # "final",
                      e[1] \notin RaisesFor
               PROVE  faults + outages >= MAX_PROCESSING_ATTEMPTS
    BY DEF GivingUpCosts
  <2>1. e[1] \in Ids /\ AttemptInv(e[1]) /\ attempts[e[1]] = MAX_PROCESSING_ATTEMPTS
    BY EntryHasId DEF IInv, LedgerInv, ReadIsSettled
  <2>2. outcome[e[1]] = "in_progress" /\ ~InHand(e[1])
    BY <2>1 DEF IInv, TypeOK, AttemptInv, MAX_PROCESSING_ATTEMPTS
  <2>3. attempts[e[1]] <= faults + outages + (IF InHand(e[1]) THEN 1 ELSE 0)
    BY <2>1, <2>2, AttemptsArePaid
  <2>4. faults \in Nat /\ outages \in Nat
    BY InboxAssumption DEF IInv, TypeOK
  <2>5. QED
    BY <2>1, <2>2, <2>3, <2>4 DEF MAX_PROCESSING_ATTEMPTS
<1>2. QED
  BY <1>1, Invariance, PTL
=============================================================================

---------------------------- MODULE WeeklyProofs ----------------------------
(***************************************************************************)
(* What the weekly update guarantees for every set of owners, groups and   *)
(* sources, any number of processes, runs, exceptions and crashes.         *)
(***************************************************************************)
EXTENDS WeeklyReport, FiniteSetTheorems, TLAPS

\* There is a group at all, and each has its two sorts of mail.
LEMMA Mails ==
  /\ (CHOOSE g \in Groups : TRUE) \in Groups
  /\ \A g \in Groups : <<"report", g>> \in Mail /\ <<"reply", g>> \in Mail
  /\ \A m \in Mail : m[2] \in Groups /\ m = <<m[1], m[2]>>
BY WeeklyAssumption DEF Mail

\* A mail is added to the outbox: nothing else becomes of it.
LEMMA QueueOK ==
  ASSUME NEW m \in Mail, Queue(m),
         made \in [Mail -> Nat], pending \in [Mail -> Nat], sent \subseteq Mail
  PROVE  made' \in [Mail -> Nat] /\ pending' \in [Mail -> Nat] /\ sent' \subseteq Mail
BY DEF Queue

\* A mail is sent, or sending it fails: no row is added, none comes back.
LEMMA DeliveredOK ==
  ASSUME NEW m \in Mail, Delivered(m) \/ NotDelivered(m),
         made \in [Mail -> Nat], pending \in [Mail -> Nat], sent \subseteq Mail
  PROVE  /\ made' = made /\ made' \in [Mail -> Nat]
         /\ pending' \in [Mail -> Nat]
         /\ sent' \subseteq Mail /\ sent \subseteq sent'
         /\ Delivered(m) => m \in sent'
         /\ \A n \in Mail : pending[n] = 0 => pending'[n] = 0
<1>1. pending[m] \in Nat /\ (IF pending[m] = 0 THEN 0 ELSE pending[m] - 1) \in Nat
  OBVIOUS
<1>2. QED
  BY <1>1 DEF Delivered, NotDelivered

\* A mail is struck off the list of one process.
LEMMA StruckOff ==
  ASSUME NEW p \in Processes, NEW m \in Mail, mails \in [Processes -> [Mail -> Nat]],
         mails' = [mails EXCEPT ![p][m] = @ - 1], mails[p][m] > 0
  PROVE  /\ mails' \in [Processes -> [Mail -> Nat]]
         /\ \A q \in Processes, n \in Mail : mails[q][n] = 0 => mails'[q][n] = 0
<1> DEFINE row == [mails[p] EXCEPT ![m] = @ - 1]
<1>1. mails[p] \in [Mail -> Nat] /\ mails[p][m] - 1 \in Nat
  OBVIOUS
<1>2. row \in [Mail -> Nat] /\ \A n \in Mail : mails[p][n] = 0 => row[n] = 0
  BY <1>1
<1>3. mails' = [mails EXCEPT ![p] = row]
  OBVIOUS
<1> HIDE DEF row
<1>4. QED
  BY <1>2, <1>3

-----------------------------------------------------------------------------
(* Type correctness.                                                       *)

LEMMA InitTyped == Init => TypeOK
BY Mails, WeeklyAssumption DEF Init, TypeOK, Status, Label, None

\* Every statement of the weekly process preserves the types.
LEMMA StepTyped ==
  ASSUME TypeOK, NEW p \in Processes, RunOnce(p) \/ Workflow(p)
  PROVE  TypeOK'
<1> USE DEF TypeOK, report, outbox, agenda, local, Goto, Step
<1>0. on[p] \in Groups
  OBVIOUS
<1>1. CASE Start(p) BY <1>1, WeeklyAssumption DEF Start, Label
<1>2. CASE ListGroups(p) BY <1>2 DEF ListGroups, Label
<1>3. CASE NextOwner(p) BY <1>3 DEF NextOwner, Label
<1>4. CASE CreateOrGet(p) BY <1>4 DEF CreateOrGet, Label, Status
<1>5. CASE Check(p)
  <2>1. overlaps' \in [Groups -> Nat]
    BY <1>0, <1>5 DEF Check
  <2>2. QED
    BY <1>5, <2>1 DEF Check, Label
<1>6. CASE ListPending(p) BY <1>6 DEF ListPending, Label
<1>7. CASE SendReport(p)
  <2>1. PICK m \in Mail :
          TakeMail(p, m) /\ on' = [on EXCEPT ![p] = m[2]] /\ Delivered(m)
    BY <1>7 DEF SendReport
  <2>2. mails' \in [Processes -> [Mail -> Nat]]
    BY <2>1, StruckOff DEF TakeMail
  <2>3. on' \in [Processes -> Groups]
    BY <2>1, Mails
  <2>4. made' \in [Mail -> Nat] /\ pending' \in [Mail -> Nat] /\ sent' \subseteq Mail
    BY <2>1, DeliveredOK
  <2>5. QED
    BY <1>7, <2>1, <2>2, <2>3, <2>4 DEF SendReport, TakeMail, Label
<1>8. CASE SendAgain(p)
  <2>1. PICK m \in Mail :
          /\ TakeMail(p, m)
          /\ pending' = [pending EXCEPT ![m] = IF @ < made[m] THEN @ + 1 ELSE @]
    BY <1>8 DEF SendAgain
  <2>2. mails' \in [Processes -> [Mail -> Nat]]
    BY <2>1, StruckOff DEF TakeMail
  <2>3. pending' \in [Mail -> Nat]
    BY <2>1
  <2>4. QED
    BY <1>8, <2>1, <2>2, <2>3 DEF SendAgain, TakeMail, Label
<1>24. CASE SendRaises(p)
  <2>1. PICK m \in Mail : TakeMail(p, m) /\ NotDelivered(m)
    BY <1>24 DEF SendRaises
  <2>2. mails' \in [Processes -> [Mail -> Nat]]
    BY <2>1, StruckOff DEF TakeMail
  <2>3. made' \in [Mail -> Nat] /\ pending' \in [Mail -> Nat] /\ sent' \subseteq Mail
    BY <2>1, DeliveredOK
  <2>4. QED
    BY <1>24, <2>1, <2>2, <2>3, WeeklyAssumption DEF SendRaises, TakeMail, Fault
<1>9. CASE NoteSent(p) BY <1>9 DEF NoteSent, SetStatus, Label, Status
<1>10. CASE Finish(p) BY <1>10 DEF Finish, Label
<1>11. CASE Crash(p)
  <2>1. None \in [Mail -> Nat]
    BY DEF None
  <2>2. QED
    BY <1>11, <2>1, WeeklyAssumption DEF Crash, Fault, Label
<1>12. CASE Load(p) BY <1>12 DEF Load, SetStatus, Label, Status
<1>13. CASE Collect(p) BY <1>13 DEF Collect, Label
<1>14. CASE Clear(p) BY <1>14 DEF Clear, Label
<1>15. CASE Insert(p) BY <1>15 DEF Insert, Label
<1>16. CASE Inserted(p) BY <1>16 DEF Inserted, Label
<1>17. CASE Persisted(p) BY <1>17 DEF Persisted, SetStatus, Label, Status
<1>18. CASE Generate(p) BY <1>18 DEF Generate, Label
<1>19. CASE WriteQueued(p) BY <1>19 DEF WriteQueued, SetStatus, Label, Status
<1>20. CASE EnqueueReport(p)
  <2>1. Queue(<<"report", on[p]>>)
    BY <1>20 DEF EnqueueReport
  <2>2. made' \in [Mail -> Nat] /\ pending' \in [Mail -> Nat] /\ sent' \subseteq Mail
    BY <1>0, <2>1, Mails, QueueOK
  <2>3. QED
    BY <1>20, <2>2 DEF EnqueueReport, Label
<1>21. CASE Raise(p) BY <1>21, WeeklyAssumption DEF Raise, Fault, Label
<1>22. CASE Fail(p) BY <1>22 DEF Fail, SetStatus, Label, Status
<1>23. QED
  BY <1>1, <1>2, <1>3, <1>4, <1>5, <1>6, <1>7, <1>8, <1>9, <1>10, <1>11, <1>12,
     <1>13, <1>14, <1>15, <1>16, <1>17, <1>18, <1>19, <1>20, <1>21, <1>22, <1>24
     DEF RunOnce, Workflow

\* So does the agent, ...
LEMMA AgentTyped ==
  ASSUME TypeOK,
         (\E m \in Mail : AgentSends(m) \/ AgentRaises(m)) \/ (\E g \in Groups : Reply(g))
  PROVE  TypeOK'
<1> USE DEF TypeOK, report, agenda, local
<1>1. ASSUME NEW m \in Mail, AgentSends(m) \/ AgentRaises(m) PROVE TypeOK'
  <2>1. made' \in [Mail -> Nat] /\ pending' \in [Mail -> Nat] /\ sent' \subseteq Mail
    <3>1. Delivered(m) \/ NotDelivered(m)
      BY <1>1 DEF AgentSends, AgentRaises
    <3>2. QED
      BY <3>1, DeliveredOK
  <2>2. UNCHANGED <<report, at, on, agenda, local, runs, overlaps>>
    BY <1>1 DEF AgentSends, AgentRaises
  <2>3. faults' \in 0..MaxFaults
    BY <1>1, WeeklyAssumption DEF AgentSends, AgentRaises, Fault
  <2>4. QED
    BY <2>1, <2>2, <2>3
<1>2. ASSUME NEW g \in Groups, Reply(g) PROVE TypeOK'
  BY <1>2, QueueOK, Mails DEF Reply
<1>3. QED
  BY <1>1, <1>2

\* ... and a step in which nothing happens.
LEMMA StutterTyped == TypeOK /\ UNCHANGED vars => TypeOK'
BY DEF TypeOK, vars, report, outbox, agenda, local

LEMMA NextTyped == TypeOK /\ [Next]_vars => TypeOK'
BY StepTyped, AgentTyped, StutterTyped DEF Next

\* TypeOK: the rows, lists and counters keep their types in every run.
THEOREM TypeCorrect == Spec => []TypeOK
BY InitTyped, NextTyped, PTL DEF Spec

-----------------------------------------------------------------------------
(* One report mail for each group, and one more for each overlap.          *)

\* The mails of different groups are different mails.
LEMMA ReportMails == \A g, h \in Groups : <<"report", g>> = <<"report", h>> => g = h
OBVIOUS

\* A set to which at most p is added, or from which at most p is taken.
LEMMA OneMoves ==
  ASSUME NEW S, NEW T, NEW p, IsFiniteSet(S), \A q : q # p => (q \in S <=> q \in T)
  PROVE  /\ IsFiniteSet(T) /\ Cardinality(S) \in Nat /\ Cardinality(T) \in Nat
         /\ p \in S /\ p \notin T => Cardinality(S) = Cardinality(T) + 1
         /\ p \notin S /\ p \in T => Cardinality(T) = Cardinality(S) + 1
         /\ (p \in S <=> p \in T) => S = T
<1>1. CASE p \in S /\ p \notin T
  <2>1. T = S \ {p}
    BY <1>1
  <2>2. IsFiniteSet(T) /\ Cardinality(T) = Cardinality(S) - 1
    BY <1>1, <2>1, FS_RemoveElement
  <2>3. Cardinality(S) \in Nat /\ Cardinality(T) \in Nat
    BY <2>2, FS_CardinalityType
  <2>4. QED
    BY <1>1, <2>2, <2>3
<1>2. CASE p \notin S /\ p \in T
  <2>1. T = S \cup {p}
    BY <1>2
  <2>2. IsFiniteSet(T) /\ Cardinality(T) = Cardinality(S) + 1
    BY <1>2, <2>1, FS_AddElement
  <2>3. Cardinality(S) \in Nat /\ Cardinality(T) \in Nat
    BY <2>2, FS_CardinalityType
  <2>4. QED
    BY <1>2, <2>2, <2>3
<1>3. CASE p \in S <=> p \in T
  <2>1. S = T
    BY <1>3
  <2>2. QED
    BY <1>3, <2>1, FS_CardinalityType
<1>4. QED
  BY <1>1, <1>2, <1>3

\* What Claims(g) adds up.
LEMMA ClaimsAdd ==
  ASSUME TypeOK, NEW g \in Groups
  PROVE  /\ IsFiniteSet(Mailing(g)) /\ IsFiniteSet(Making(g))
         /\ Cardinality(Mailing(g)) \in Nat /\ Cardinality(Making(g)) \in Nat
         /\ made[<<"report", g>>] \in Nat /\ overlaps[g] \in Nat
         /\ Mailing(g) # {} <=> Cardinality(Mailing(g)) # 0
         /\ Making(g) # {} <=> Cardinality(Making(g)) # 0
         /\ Claims(g) \in Nat
         /\ status[g] \in Done =>
              Claims(g) = made[<<"report", g>>] + Cardinality(Mailing(g)) + Cardinality(Making(g))
         /\ Making(g) # {} =>
              Claims(g) = made[<<"report", g>>] + Cardinality(Mailing(g)) + Cardinality(Making(g))
         /\ status[g] \notin Done /\ Making(g) = {} =>
              Claims(g) = made[<<"report", g>>] + Cardinality(Mailing(g)) + 1
<1>1. IsFiniteSet(Processes)
  BY WeeklyAssumption
<1>2. Mailing(g) \subseteq Processes /\ Making(g) \subseteq Processes
  BY DEF Mailing, Making, Working
<1>3. /\ IsFiniteSet(Mailing(g)) /\ IsFiniteSet(Making(g))
      /\ Cardinality(Mailing(g)) \in Nat /\ Cardinality(Making(g)) \in Nat
  BY <1>1, <1>2, FS_Subset, FS_CardinalityType
<1>4. /\ Mailing(g) # {} <=> Cardinality(Mailing(g)) # 0
      /\ Making(g) # {} <=> Cardinality(Making(g)) # 0
  BY <1>3, FS_EmptySet
<1>5. made[<<"report", g>>] \in Nat /\ overlaps[g] \in Nat
  BY Mails DEF TypeOK
<1>6. QED
  BY <1>3, <1>4, <1>5 DEF Claims

\* Nobody mails a report, and nobody is at it, that has been mailed without an
\* overlap; and whoever is at it is the only one.
LEMMA NoSecondMail ==
  ASSUME TypeOK, NEW g \in Groups, Claims(g) <= 1 + overlaps[g], overlaps[g] = 0,
         Working(g) # {}
  PROVE  made[<<"report", g>>] = 0
<1>1. Mailing(g) # {} \/ Making(g) # {}
  BY DEF Mailing, Making
<1>2. QED
  BY <1>1, ClaimsAdd

\* The other processes stand still while p goes on.
Still(p) ==
  \A q \in Processes \ {p} :
    /\ at'[q] = at[q] /\ on'[q] = on[q]
    /\ found'[q] = found[q] /\ left'[q] = left[q]

LEMMA OthersStandStill ==
  ASSUME TypeOK, NEW p \in Processes, RunOnce(p) \/ Workflow(p)
  PROVE  Still(p)
<1> USE DEF TypeOK, Still, agenda, local, Goto, Step
<1>1. CASE Start(p) BY <1>1 DEF Start
<1>2. CASE ListGroups(p) BY <1>2 DEF ListGroups
<1>3. CASE NextOwner(p) BY <1>3 DEF NextOwner
<1>4. CASE CreateOrGet(p) BY <1>4 DEF CreateOrGet
<1>5. CASE Check(p) BY <1>5 DEF Check
<1>6. CASE ListPending(p) BY <1>6 DEF ListPending
<1>7. CASE SendReport(p) BY <1>7 DEF SendReport, TakeMail
<1>8. CASE SendAgain(p) BY <1>8 DEF SendAgain, TakeMail
<1>9. CASE SendRaises(p) BY <1>9 DEF SendRaises, TakeMail
<1>10. CASE NoteSent(p) BY <1>10 DEF NoteSent
<1>11. CASE Finish(p) BY <1>11 DEF Finish
<1>12. CASE Crash(p) BY <1>12 DEF Crash
<1>13. CASE Load(p) BY <1>13 DEF Load
<1>14. CASE Collect(p) BY <1>14 DEF Collect
<1>15. CASE Clear(p) BY <1>15 DEF Clear
<1>16. CASE Insert(p) BY <1>16 DEF Insert
<1>17. CASE Inserted(p) BY <1>17 DEF Inserted
<1>18. CASE Persisted(p) BY <1>18 DEF Persisted
<1>19. CASE Generate(p) BY <1>19 DEF Generate
<1>20. CASE WriteQueued(p) BY <1>20 DEF WriteQueued
<1>21. CASE EnqueueReport(p) BY <1>21 DEF EnqueueReport
<1>22. CASE Raise(p) BY <1>22 DEF Raise
<1>23. CASE Fail(p) BY <1>23 DEF Fail
<1>24. QED
  BY <1>1, <1>2, <1>3, <1>4, <1>5, <1>6, <1>7, <1>8, <1>9, <1>10, <1>11, <1>12,
     <1>13, <1>14, <1>15, <1>16, <1>17, <1>18, <1>19, <1>20, <1>21, <1>22, <1>23
     DEF RunOnce, Workflow

\* So only p enters or leaves the sets of those at work.
LEMMA OnlyOneMoves ==
  ASSUME NEW p \in Processes, Still(p), NEW g \in Groups
  PROVE  /\ \A q : q # p => /\ q \in Working(g) <=> q \in Working(g)'
                            /\ q \in Mailing(g) <=> q \in Mailing(g)'
                            /\ q \in Making(g) <=> q \in Making(g)'
         /\ p \in Working(g) <=> at[p] \in AtWork /\ on[p] = g
         /\ p \in Mailing(g) <=> at[p] = "mail" /\ on[p] = g
         /\ p \in Making(g) <=> at[p] \in AtWork \ {"mail"} /\ on[p] = g
         /\ p \in Working(g)' <=> at'[p] \in AtWork /\ on'[p] = g
         /\ p \in Mailing(g)' <=> at'[p] = "mail" /\ on'[p] = g
         /\ p \in Making(g)' <=> at'[p] \in AtWork \ {"mail"} /\ on'[p] = g
BY DEF Still, Working, Mailing, Making, AtWork

-----------------------------------------------------------------------------
\* A step that leaves the sets for g as they are, and of its report changes
\* the status at most: to SENT, or to that of a new row.
Untouched(g) ==
  /\ Working(g)' = Working(g) /\ Mailing(g)' = Mailing(g) /\ Making(g)' = Making(g)
  /\ \A q \in Working(g) : /\ at'[q] = at[q] /\ on'[q] = on[q]
                           /\ found'[q] = found[q] /\ left'[q] = left[q]
  /\ made'[<<"report", g>>] = made[<<"report", g>>]
  /\ text'[g] = text[g] /\ evidence'[g] = evidence[g] /\ overlaps'[g] = overlaps[g]
  /\ \/ status'[g] = status[g] \/ status'[g] = "SENT"
     \/ status[g] = "none" /\ status'[g] = "RECEIVED"

LEMMA UntouchedKeeps ==
  ASSUME TypeOK, TypeOK', NEW g \in Groups, Untouched(g),
         Claims(g) <= 1 + overlaps[g], ReportOf(g)
  PROVE  Claims(g)' <= 1 + overlaps'[g] /\ ReportOf(g)'
<1>1. status'[g] \notin Done => status[g] \notin Done
  BY DEF Untouched, Done
<1>2. Claims(g)' <= Claims(g)
  <2>1. /\ Cardinality(Mailing(g))' = Cardinality(Mailing(g))
        /\ Cardinality(Making(g))' = Cardinality(Making(g))
        /\ made'[<<"report", g>>] = made[<<"report", g>>]
    BY DEF Untouched
  <2>2. CASE Making(g) # {}
    BY <2>1, <2>2, ClaimsAdd DEF Untouched, Claims
  <2>3. CASE Making(g) = {}
    <3>1. /\ made[<<"report", g>>] \in Nat /\ Cardinality(Mailing(g)) \in Nat
          /\ Cardinality(Making(g)) = 0 /\ Making(g)' = {}
      BY <2>3, ClaimsAdd DEF Untouched
    <3>2. CASE status'[g] \in Done
      BY <2>1, <3>1, <3>2 DEF Claims
    <3>3. CASE status'[g] \notin Done
      BY <1>1, <2>1, <2>3, <3>1, <3>3 DEF Claims
    <3>4. QED
      BY <3>2, <3>3
  <2>4. QED
    BY <2>2, <2>3
<1>3. Claims(g)' <= 1 + overlaps'[g]
  <2>1. Claims(g) \in Nat /\ overlaps[g] \in Nat /\ Claims(g)' \in Nat /\ overlaps'[g] \in Nat
    BY ClaimsAdd, Mails DEF TypeOK, Claims, Untouched
  <2>2. QED
    BY <1>2, <2>1 DEF Untouched
<1>4. ReportOf(g)'
  BY DEF ReportOf, WorkInv, Working, Untouched
<1>5. QED
  BY <1>3, <1>4

\* A step of p on its report leaves those of other groups alone.
Here(p) ==
  /\ on'[p] = on[p]
  /\ \A h \in Groups \ {on[p]} :
       /\ status'[h] = status[h] /\ text'[h] = text[h] /\ evidence'[h] = evidence[h]
       /\ made'[<<"report", h>>] = made[<<"report", h>>] /\ overlaps'[h] = overlaps[h]

LEMMA ElsewhereUntouched ==
  ASSUME TypeOK, NEW p \in Processes, Still(p), Here(p), NEW h \in Groups, h # on[p]
  PROVE  Untouched(h)
<1>1. p \notin Working(h) /\ p \notin Working(h)'
  BY DEF Here, Working
<1>2. \A q \in Working(h) : q \in Processes \ {p}
  BY <1>1 DEF Working
<1>3. Working(h)' = Working(h) /\ Mailing(h)' = Mailing(h) /\ Making(h)' = Making(h)
  BY <1>1, OnlyOneMoves DEF Mailing, Making
<1>4. QED
  BY <1>2, <1>3 DEF Still, Here, Untouched

-----------------------------------------------------------------------------
(* The kinds of step the weekly process takes.                             *)

\* p is at no report, before the step and after it.
Aside(p) ==
  /\ at[p] \notin AtWork /\ at'[p] \notin AtWork
  /\ UNCHANGED <<made, text, evidence, overlaps>>
  /\ \A g \in Groups : \/ status'[g] = status[g] \/ status'[g] = "SENT"
                       \/ status[g] = "none" /\ status'[g] = "RECEIVED"

LEMMA AsideKeeps ==
  ASSUME TypeOK, TypeOK', ReportInv, NEW p \in Processes, Still(p), Aside(p)
  PROVE  ReportInv'
<1> SUFFICES ASSUME NEW g \in Groups PROVE Claims(g)' <= 1 + overlaps'[g] /\ ReportOf(g)'
  BY DEF ReportInv
<1>1. p \notin Working(g) /\ p \notin Working(g)'
  BY DEF Aside, Working
<1>2. \A q \in Working(g) : q \in Processes \ {p}
  BY <1>1 DEF Working
<1>3. Working(g)' = Working(g) /\ Mailing(g)' = Mailing(g) /\ Making(g)' = Making(g)
  <2>1. /\ p \notin Mailing(g) /\ p \notin Mailing(g)'
        /\ p \notin Making(g) /\ p \notin Making(g)'
    BY <1>1 DEF Mailing, Making
  <2>2. \A q : /\ q \in Working(g) <=> q \in Working(g)'
               /\ q \in Mailing(g) <=> q \in Mailing(g)'
               /\ q \in Making(g) <=> q \in Making(g)'
    BY <1>1, <2>1, OnlyOneMoves
  <2>3. QED
    BY <2>2
<1>4. made'[<<"report", g>>] = made[<<"report", g>>]
  BY DEF Aside
<1>5. /\ text'[g] = text[g] /\ evidence'[g] = evidence[g] /\ overlaps'[g] = overlaps[g]
      /\ \/ status'[g] = status[g] \/ status'[g] = "SENT"
         \/ status[g] = "none" /\ status'[g] = "RECEIVED"
  BY DEF Aside
<1>6. Untouched(g)
  BY <1>2, <1>3, <1>4, <1>5 DEF Still, Untouched
<1>7. QED
  BY <1>6, UntouchedKeeps DEF ReportInv

\* It is enough to look at the report of p.
LEMMA HereSuffices ==
  ASSUME TypeOK, TypeOK', ReportInv, NEW p \in Processes, Still(p), Here(p),
         NEW g \in Groups, g = on[p], Claims(g)' <= 1 + overlaps'[g], ReportOf(g)'
  PROVE  ReportInv'
<1> SUFFICES ASSUME NEW h \in Groups PROVE Claims(h)' <= 1 + overlaps'[h] /\ ReportOf(h)'
  BY DEF ReportInv
<1>1. CASE h = g
  BY <1>1
<1>2. CASE h # g
  <2>1. Untouched(h)
    BY <1>2, ElsewhereUntouched
  <2>2. QED
    BY <2>1, UntouchedKeeps DEF ReportInv
<1>3. QED
  BY <1>1, <1>2

\* A run takes up a report: another run may be at it.
LEMMA TakeUpKeeps ==
  ASSUME TypeOK, TypeOK', ReportInv, NEW p \in Processes, Still(p),
         NEW g \in Groups, g = on[p], Check(p), status[g] \notin Done
  PROVE  ReportInv'
<1>0. Claims(g) <= 1 + overlaps[g] /\ ReportOf(g)
  BY DEF TypeOK, ReportInv
<1>1. /\ at[p] = "check" /\ at'[p] = "load" /\ on' = on
      /\ UNCHANGED <<status, text, evidence, made>>
      /\ overlaps' = IF Working(g) = {} THEN overlaps ELSE [overlaps EXCEPT ![g] = @ + 1]
  BY DEF Check, Goto, report, outbox, TypeOK
<1>2. Here(p)
  BY <1>0, <1>1 DEF Here, TypeOK
<1>3. /\ Cardinality(Mailing(g)') = Cardinality(Mailing(g))
      /\ Cardinality(Making(g)') = Cardinality(Making(g)) + 1
      /\ Making(g)' # {}
  <2>1. p \notin Mailing(g) /\ p \notin Mailing(g)' /\ p \notin Making(g) /\ p \in Making(g)'
    BY <1>0, <1>1, OnlyOneMoves DEF AtWork
  <2>2. \A q : q # p => /\ q \in Mailing(g) <=> q \in Mailing(g)'
                        /\ q \in Making(g) <=> q \in Making(g)'
    BY <1>0, OnlyOneMoves
  <2>3. IsFiniteSet(Mailing(g)) /\ IsFiniteSet(Making(g))
    BY <1>0, ClaimsAdd
  <2>4. Mailing(g) = Mailing(g)'
    BY <2>1, <2>2, <2>3, OneMoves
  <2>5. Cardinality(Making(g)') = Cardinality(Making(g)) + 1
    BY <2>1, <2>2, <2>3, OneMoves
  <2>6. QED
    BY <2>1, <2>4, <2>5
<1>4. /\ Cardinality(Mailing(g)) \in Nat /\ Cardinality(Making(g)) \in Nat
      /\ made[<<"report", g>>] \in Nat /\ overlaps[g] \in Nat
  BY <1>0, ClaimsAdd
<1>5. Claims(g)' = made[<<"report", g>>] + Cardinality(Mailing(g)) + Cardinality(Making(g)) + 1
  BY <1>1, <1>3, <1>4 DEF Claims
<1>6. Claims(g)' <= 1 + overlaps'[g]
  <2>1. CASE Working(g) = {}
    <3>1. Mailing(g) = {} /\ Making(g) = {}
      BY <2>1 DEF Mailing, Making
    <3>2. Cardinality(Making(g)) = 0
      BY <1>0, <3>1, ClaimsAdd
    <3>3. Claims(g) = made[<<"report", g>>] + Cardinality(Mailing(g)) + 1
      BY <3>1 DEF Claims
    <3>4. QED
      BY <1>0, <1>1, <1>4, <1>5, <2>1, <3>2, <3>3
  <2>2. CASE Working(g) # {}
    <3>1. overlaps'[g] = overlaps[g] + 1
      BY <1>0, <1>1, <2>2 DEF TypeOK
    <3>2. made[<<"report", g>>] + Cardinality(Mailing(g)) + Cardinality(Making(g)) <= Claims(g)
      BY <1>0, <1>4, ClaimsAdd DEF Claims
    <3>3. Claims(g) \in Nat
      BY <1>0, ClaimsAdd
    <3>4. QED
      BY <1>0, <1>4, <1>5, <3>1, <3>2, <3>3
  <2>3. QED
    BY <2>1, <2>2
<1>7. ReportOf(g)'
  <2> SUFFICES ASSUME overlaps'[g] = 0
               PROVE  /\ \A q, r \in Working(g)' : q = r
                      /\ \A q \in Working(g)' : WorkInv(q)'
                      /\ made'[<<"report", g>>] > 0 =>
                           status'[g] \in {"QUEUED", "SENT"} /\ evidence'[g] = text'[g]
    BY DEF ReportOf
  <2>1. Working(g) = {} /\ overlaps[g] = 0
    <3>1. CASE Working(g) # {}
      <4>1. overlaps'[g] = overlaps[g] + 1
        BY <1>0, <1>1, <3>1 DEF TypeOK
      <4>2. QED
        BY <1>4, <4>1
    <3>2. QED
      BY <1>1, <3>1
  <2>2. \A q \in Working(g)' : q = p
    BY <1>0, <2>1, OnlyOneMoves
  <2>3. WorkInv(p)'
    BY <1>1 DEF WorkInv
  <2>4. made[<<"report", g>>] > 0 =>
          status[g] \in {"QUEUED", "SENT"} /\ evidence[g] = text[g]
    BY <1>0, <2>1 DEF ReportOf
  <2>5. QED
    BY <1>1, <2>2, <2>3, <2>4
<1>8. QED
  BY <1>0, <1>2, <1>6, <1>7, HereSuffices

\* How a step of p on the report of g moves the numbers of those at work.
LEMMA CountsMove ==
  ASSUME TypeOK, NEW p \in Processes, Still(p), NEW g \in Groups, g = on[p], on'[p] = g
  PROVE  /\ Cardinality(Mailing(g)') \in Nat /\ Cardinality(Making(g)') \in Nat
         /\ Making(g)' # {} <=> Cardinality(Making(g)') # 0
         /\ at[p] = "mail" /\ at'[p] # "mail" =>
              Cardinality(Mailing(g)) = Cardinality(Mailing(g)') + 1
         /\ at[p] # "mail" /\ at'[p] = "mail" =>
              Cardinality(Mailing(g)') = Cardinality(Mailing(g)) + 1
         /\ (at[p] = "mail" <=> at'[p] = "mail") =>
              Cardinality(Mailing(g)') = Cardinality(Mailing(g))
         /\ at[p] \in AtWork \ {"mail"} /\ at'[p] \notin AtWork \ {"mail"} =>
              Cardinality(Making(g)) = Cardinality(Making(g)') + 1
         /\ at[p] \notin AtWork \ {"mail"} /\ at'[p] \in AtWork \ {"mail"} =>
              Cardinality(Making(g)') = Cardinality(Making(g)) + 1
         /\ (at[p] \in AtWork \ {"mail"} <=> at'[p] \in AtWork \ {"mail"}) =>
              Making(g)' = Making(g)
<1>1. /\ \A q : q # p => /\ q \in Mailing(g) <=> q \in Mailing(g)'
                         /\ q \in Making(g) <=> q \in Making(g)'
      /\ p \in Mailing(g) <=> at[p] = "mail"
      /\ p \in Making(g) <=> at[p] \in AtWork \ {"mail"}
      /\ p \in Mailing(g)' <=> at'[p] = "mail"
      /\ p \in Making(g)' <=> at'[p] \in AtWork \ {"mail"}
  BY OnlyOneMoves
<1>2. IsFiniteSet(Mailing(g)) /\ IsFiniteSet(Making(g))
  BY ClaimsAdd
<1>3. /\ IsFiniteSet(Mailing(g)') /\ Cardinality(Mailing(g)') \in Nat
      /\ p \in Mailing(g) /\ p \notin Mailing(g)' =>
           Cardinality(Mailing(g)) = Cardinality(Mailing(g)') + 1
      /\ p \notin Mailing(g) /\ p \in Mailing(g)' =>
           Cardinality(Mailing(g)') = Cardinality(Mailing(g)) + 1
      /\ (p \in Mailing(g) <=> p \in Mailing(g)') => Mailing(g) = Mailing(g)'
  BY <1>1, <1>2, OneMoves
<1>4. /\ IsFiniteSet(Making(g)') /\ Cardinality(Making(g)') \in Nat
      /\ p \in Making(g) /\ p \notin Making(g)' =>
           Cardinality(Making(g)) = Cardinality(Making(g)') + 1
      /\ p \notin Making(g) /\ p \in Making(g)' =>
           Cardinality(Making(g)') = Cardinality(Making(g)) + 1
      /\ (p \in Making(g) <=> p \in Making(g)') => Making(g) = Making(g)'
  BY <1>1, <1>2, OneMoves
<1>5. Making(g)' # {} <=> Cardinality(Making(g)') # 0
  BY <1>4, FS_EmptySet
<1>6. (p \in Mailing(g) <=> p \in Mailing(g)') =>
         Cardinality(Mailing(g)') = Cardinality(Mailing(g))
  BY <1>3
<1>7. QED
  BY <1>1, <1>3, <1>4, <1>5, <1>6

\* Who is at a report without an overlap has it to himself.
LEMMA ToHimself ==
  ASSUME TypeOK, ReportInv, NEW p \in Processes, NEW g \in Groups, g = on[p],
         at[p] \in AtWork, overlaps[g] = 0
  PROVE  Working(g) = {p} /\ WorkInv(p) /\ made[<<"report", g>>] = 0
<1>1. p \in Working(g)
  BY DEF Working
<1>2. Claims(g) <= 1 + overlaps[g] /\ ReportOf(g)
  BY DEF ReportInv
<1>3. \A q \in Working(g) : q = p
  BY <1>1, <1>2 DEF ReportOf
<1>4. QED
  BY <1>1, <1>2, <1>3, NoSecondMail DEF ReportOf

\* A statement in the middle of a report that mails nothing and writes no
\* text: those at it stay as many.
Amid(p) ==
  /\ at[p] \in AtWork \ {"mail"} /\ at'[p] \in AtWork \ {"mail"}
  /\ Here(p) /\ UNCHANGED <<made, overlaps>>
  /\ WorkInv(p) => WorkInv(p)'

LEMMA AmidKeeps ==
  ASSUME TypeOK, TypeOK', ReportInv, NEW p \in Processes, Still(p), Amid(p)
  PROVE  ReportInv'
<1>0. PICK g \in Groups : g = on[p]
  BY DEF TypeOK
<1>1. Here(p) /\ on'[p] = g /\ at[p] \in AtWork /\ at'[p] \in AtWork
  BY <1>0 DEF Amid, Here
<1>2. /\ made[<<"report", g>>] \in Nat /\ overlaps[g] \in Nat
      /\ made'[<<"report", g>>] = made[<<"report", g>>] /\ overlaps'[g] = overlaps[g]
  BY ClaimsAdd DEF Amid
<1>3. Claims(g)' <= 1 + overlaps'[g]
  <2>1. p \in Making(g) /\ p \in Making(g)'
    BY <1>0, <1>1 DEF Amid, Making, Working, AtWork
  <2>2. /\ Cardinality(Mailing(g)') = Cardinality(Mailing(g))
        /\ Making(g)' = Making(g)
    BY <1>0, <1>1, CountsMove DEF Amid
  <2>3. Claims(g)' = Claims(g)
    BY <1>2, <2>1, <2>2 DEF Claims
  <2>4. QED
    BY <1>2, <2>3 DEF ReportInv
<1>4. ReportOf(g)'
  <2> SUFFICES ASSUME overlaps'[g] = 0
               PROVE  /\ \A q, r \in Working(g)' : q = r
                      /\ \A q \in Working(g)' : WorkInv(q)'
                      /\ ~(made'[<<"report", g>>] > 0)
    BY DEF ReportOf
  <2>1. Working(g) = {p} /\ WorkInv(p) /\ made[<<"report", g>>] = 0
    BY <1>0, <1>1, <1>2, ToHimself
  <2>2. \A q \in Working(g)' : q = p
    BY <2>1, OnlyOneMoves
  <2>3. WorkInv(p)'
    BY <2>1 DEF Amid
  <2>4. QED
    BY <1>2, <2>1, <2>2, <2>3
<1>5. QED
  BY <1>0, <1>1, <1>3, <1>4, HereSuffices

\* p leaves the report; it has mailed nothing, and calls it FAILED at most.
Leaving(p) ==
  /\ at[p] \in AtWork /\ at'[p] \notin AtWork
  /\ Here(p) /\ UNCHANGED <<made, overlaps>>
  /\ at[p] = "mail" => status' = status

LEMMA LeavingKeeps ==
  ASSUME TypeOK, TypeOK', ReportInv, NEW p \in Processes, Still(p), Leaving(p)
  PROVE  ReportInv'
<1>0. PICK g \in Groups : g = on[p]
  BY DEF TypeOK
<1>1. Here(p) /\ on'[p] = g /\ at[p] \in AtWork /\ at'[p] \notin AtWork
  BY <1>0 DEF Leaving, Here
<1>2. /\ made[<<"report", g>>] \in Nat /\ overlaps[g] \in Nat
      /\ made'[<<"report", g>>] = made[<<"report", g>>] /\ overlaps'[g] = overlaps[g]
      /\ Cardinality(Mailing(g)) \in Nat /\ Cardinality(Making(g)) \in Nat
      /\ Cardinality(Mailing(g)') \in Nat /\ Cardinality(Making(g)') \in Nat
      /\ Claims(g) \in Nat /\ Claims(g) <= 1 + overlaps[g]
  BY <1>0, <1>1, ClaimsAdd, CountsMove DEF Leaving, ReportInv
<1>3. Claims(g)' <= 1 + overlaps'[g]
  <2>1. CASE at[p] = "mail"
    <3>1. /\ Cardinality(Mailing(g)) = Cardinality(Mailing(g)') + 1
          /\ Making(g)' = Making(g) /\ status'[g] = status[g]
      BY <1>0, <1>1, <2>1, CountsMove DEF Leaving, AtWork
    <3>2. Claims(g) = Claims(g)' + 1
      BY <1>2, <3>1 DEF Claims
    <3>3. Claims(g)' \in Nat
      BY <1>2 DEF Claims
    <3>4. QED
      BY <1>2, <3>2, <3>3
  <2>2. CASE at[p] # "mail"
    <3>1. /\ Cardinality(Mailing(g)') = Cardinality(Mailing(g))
          /\ Cardinality(Making(g)) = Cardinality(Making(g)') + 1
      BY <1>0, <1>1, <2>2, CountsMove DEF AtWork
    <3>2. p \in Making(g)
      BY <1>0, <1>1, <2>2 DEF Making, Working
    <3>3. Claims(g) = made[<<"report", g>>] + Cardinality(Mailing(g)) + Cardinality(Making(g))
      BY <3>2 DEF Claims
    <3>4. Claims(g)' <= made[<<"report", g>>] + Cardinality(Mailing(g)) + Cardinality(Making(g))
      BY <1>2, <3>1 DEF Claims
    <3>5. Claims(g)' \in Nat
      BY <1>2 DEF Claims
    <3>6. QED
      BY <1>2, <3>3, <3>4, <3>5
  <2>3. QED
    BY <2>1, <2>2
<1>4. ReportOf(g)'
  <2> SUFFICES ASSUME overlaps'[g] = 0
               PROVE  Working(g)' = {} /\ ~(made'[<<"report", g>>] > 0)
    BY DEF ReportOf
  <2>1. Working(g) = {p} /\ made[<<"report", g>>] = 0
    BY <1>0, <1>1, <1>2, ToHimself
  <2>2. \A q : q \notin Working(g)'
    BY <1>1, <2>1, OnlyOneMoves
  <2>3. QED
    BY <1>2, <2>1, <2>2
<1>5. QED
  BY <1>0, <1>1, <1>3, <1>4, HereSuffices

\* QUEUED and the text are written: p is about to mail.
LEMMA WriteQueuedKeeps ==
  ASSUME TypeOK, TypeOK', ReportInv, NEW p \in Processes, Still(p), WriteQueued(p)
  PROVE  ReportInv'
<1>0. PICK g \in Groups : g = on[p]
  BY DEF TypeOK
<1>1. /\ at[p] = "queue" /\ at'[p] = "mail" /\ on' = on
      /\ status' = [status EXCEPT ![g] = "QUEUED"]
      /\ text' = [text EXCEPT ![g] = found[p]]
      /\ UNCHANGED <<evidence, made, overlaps>>
  BY <1>0 DEF WriteQueued, Step, Goto, SetStatus, outbox, TypeOK
<1>2. Here(p)
  BY <1>0, <1>1 DEF Here, TypeOK
<1>3. /\ made[<<"report", g>>] \in Nat /\ overlaps[g] \in Nat
      /\ Cardinality(Mailing(g)) \in Nat /\ Cardinality(Making(g)) \in Nat
      /\ Cardinality(Mailing(g)') \in Nat /\ Cardinality(Making(g)') \in Nat
      /\ Claims(g) \in Nat /\ Claims(g) <= 1 + overlaps[g]
      /\ status'[g] = "QUEUED" /\ text'[g] = found[p] /\ evidence'[g] = evidence[g]
  BY <1>0, <1>1, ClaimsAdd, CountsMove DEF ReportInv, TypeOK
<1>4. Claims(g)' <= 1 + overlaps'[g]
  <2>1. /\ Cardinality(Mailing(g)') = Cardinality(Mailing(g)) + 1
        /\ Cardinality(Making(g)) = Cardinality(Making(g)') + 1
    BY <1>0, <1>1, CountsMove DEF AtWork
  <2>2. p \in Making(g)
    BY <1>0, <1>1 DEF Making, Working, AtWork
  <2>3. Claims(g) = made[<<"report", g>>] + Cardinality(Mailing(g)) + Cardinality(Making(g))
    BY <2>2 DEF Claims
  <2>4. Claims(g)' = made[<<"report", g>>] + Cardinality(Mailing(g)') + Cardinality(Making(g)')
    BY <1>1, <1>3 DEF Claims, Done
  <2>5. QED
    BY <1>1, <1>3, <2>1, <2>3, <2>4
<1>5. ReportOf(g)'
  <2> SUFFICES ASSUME overlaps'[g] = 0
               PROVE  /\ \A q, r \in Working(g)' : q = r
                      /\ \A q \in Working(g)' : WorkInv(q)'
                      /\ ~(made'[<<"report", g>>] > 0)
    BY DEF ReportOf
  <2>1. Working(g) = {p} /\ WorkInv(p) /\ made[<<"report", g>>] = 0
    BY <1>0, <1>1, ToHimself DEF AtWork
  <2>2. \A q \in Working(g)' : q = p
    BY <2>1, OnlyOneMoves
  <2>3. WorkInv(p)'
    BY <1>0, <1>1, <1>3, <2>1 DEF WorkInv
  <2>4. QED
    BY <1>1, <2>1, <2>2, <2>3
<1>6. QED
  BY <1>0, <1>2, <1>4, <1>5, HereSuffices

\* The mail is queued: one who was about to mail has done so.
LEMMA EnqueueReportKeeps ==
  ASSUME TypeOK, TypeOK', ReportInv, NEW p \in Processes, Still(p), EnqueueReport(p)
  PROVE  ReportInv'
<1>0. PICK g \in Groups : g = on[p]
  BY DEF TypeOK
<1>1. /\ at[p] = "mail" /\ at'[p] = "group" /\ on' = on
      /\ UNCHANGED <<status, text, evidence, overlaps>>
      /\ made' = [made EXCEPT ![<<"report", g>>] = @ + 1]
  BY <1>0 DEF EnqueueReport, Step, Goto, Queue, report, TypeOK
<1>2. \A h \in Groups :
        made'[<<"report", h>>] =
          IF h = g THEN made[<<"report", h>>] + 1 ELSE made[<<"report", h>>]
  BY <1>1, Mails, ReportMails DEF TypeOK
<1>3. Here(p)
  BY <1>0, <1>1, <1>2 DEF Here
<1>4. /\ made[<<"report", g>>] \in Nat /\ overlaps[g] \in Nat
      /\ made'[<<"report", g>>] = made[<<"report", g>>] + 1
      /\ Cardinality(Mailing(g)) \in Nat /\ Cardinality(Making(g)) \in Nat
      /\ Cardinality(Mailing(g)') \in Nat
      /\ Claims(g) \in Nat /\ Claims(g) <= 1 + overlaps[g]
  BY <1>0, <1>1, <1>2, ClaimsAdd, CountsMove DEF ReportInv
<1>5. Claims(g)' <= 1 + overlaps'[g]
  <2>1. /\ Cardinality(Mailing(g)) = Cardinality(Mailing(g)') + 1
        /\ Making(g)' = Making(g)
    BY <1>0, <1>1, CountsMove DEF AtWork
  <2>2. Claims(g)' = Claims(g)
    BY <1>1, <1>4, <2>1 DEF Claims
  <2>3. QED
    BY <1>1, <1>4, <2>2
<1>6. ReportOf(g)'
  <2> SUFFICES ASSUME overlaps'[g] = 0
               PROVE  /\ Working(g)' = {}
                      /\ status'[g] \in {"QUEUED", "SENT"} /\ evidence'[g] = text'[g]
    BY DEF ReportOf
  <2>1. Working(g) = {p} /\ WorkInv(p)
    BY <1>0, <1>1, ToHimself DEF AtWork
  <2>2. \A q : q \notin Working(g)'
    BY <1>1, <2>1, OnlyOneMoves DEF AtWork
  <2>3. QED
    BY <1>0, <1>1, <2>1, <2>2 DEF WorkInv
<1>7. QED
  BY <1>0, <1>3, <1>5, <1>6, HereSuffices

\* The mail cannot be queued: p has still to call the report FAILED.
LEMMA NotQueuedKeeps ==
  ASSUME TypeOK, TypeOK', ReportInv, NEW p \in Processes, Still(p), Raise(p), at[p] = "mail"
  PROVE  ReportInv'
<1>0. PICK g \in Groups : g = on[p]
  BY DEF TypeOK
<1>1. /\ at'[p] = "fail" /\ on' = on
      /\ UNCHANGED <<status, text, evidence, made, overlaps>>
  BY DEF Raise, Goto, report, outbox, TypeOK
<1>2. Here(p)
  BY <1>1 DEF Here
<1>3. /\ made[<<"report", g>>] \in Nat /\ overlaps[g] \in Nat
      /\ Cardinality(Mailing(g)) \in Nat /\ Cardinality(Making(g)) \in Nat
      /\ Cardinality(Mailing(g)') \in Nat /\ Cardinality(Making(g)') \in Nat
      /\ Claims(g) \in Nat /\ Claims(g) <= 1 + overlaps[g]
  BY <1>0, <1>1, ClaimsAdd, CountsMove DEF ReportInv
<1>4. Claims(g)' <= 1 + overlaps'[g]
  <2>1. /\ Cardinality(Mailing(g)) = Cardinality(Mailing(g)') + 1
        /\ Cardinality(Making(g)') = Cardinality(Making(g)) + 1
        /\ Making(g)' # {}
    BY <1>0, <1>1, <1>3, CountsMove DEF AtWork
  <2>2. Claims(g)' = made[<<"report", g>>] + Cardinality(Mailing(g)') + Cardinality(Making(g)')
    BY <1>1, <2>1 DEF Claims
  <2>3. made[<<"report", g>>] + Cardinality(Mailing(g)) + Cardinality(Making(g)) <= Claims(g)
    BY <1>3, ClaimsAdd DEF Claims
  <2>4. QED
    BY <1>1, <1>3, <2>1, <2>2, <2>3
<1>5. ReportOf(g)'
  <2> SUFFICES ASSUME overlaps'[g] = 0
               PROVE  /\ \A q, r \in Working(g)' : q = r
                      /\ \A q \in Working(g)' : WorkInv(q)'
                      /\ ~(made'[<<"report", g>>] > 0)
    BY DEF ReportOf
  <2>1. Working(g) = {p} /\ made[<<"report", g>>] = 0
    BY <1>0, <1>1, ToHimself DEF AtWork
  <2>2. \A q \in Working(g)' : q = p
    BY <2>1, OnlyOneMoves
  <2>3. WorkInv(p)'
    BY <1>1 DEF WorkInv
  <2>4. QED
    BY <1>1, <2>1, <2>2, <2>3
<1>6. QED
  BY <1>0, <1>2, <1>4, <1>5, HereSuffices

-----------------------------------------------------------------------------
LEMMA InitReport == Init => ReportInv
<1> SUFFICES ASSUME Init, NEW g \in Groups
             PROVE  Claims(g) <= 1 + overlaps[g] /\ ReportOf(g)
  BY DEF ReportInv
<1>1. Working(g) = {} /\ Mailing(g) = {} /\ Making(g) = {}
  BY DEF Init, Working, Mailing, Making, AtWork
<1>2. made[<<"report", g>>] = 0 /\ overlaps[g] = 0 /\ status[g] \notin Done
  BY Mails DEF Init, None, Done
<1>3. Cardinality({}) = 0
  BY FS_EmptySet
<1>4. QED
  BY <1>1, <1>2, <1>3 DEF Claims, ReportOf

\* Every statement of a weekly process preserves the invariant.
LEMMA StepReport ==
  ASSUME TypeOK, TypeOK', ReportInv, NEW p \in Processes, RunOnce(p) \/ Workflow(p)
  PROVE  ReportInv'
<1> USE DEF report, outbox, agenda, local, Goto, Step
<1>0. /\ on[p] \in Groups /\ on \in [Processes -> Groups] /\ at \in [Processes -> Label]
      /\ status \in [Groups -> Status] /\ text \in [Groups -> SUBSET Sources]
      /\ evidence \in [Groups -> SUBSET Sources]
      /\ found \in [Processes -> SUBSET Sources] /\ left \in [Processes -> SUBSET Sources]
      /\ Still(p)
  BY OthersStandStill DEF TypeOK
<1>a. Aside(p) => ReportInv'
  BY <1>0, AsideKeeps
<1>b. Amid(p) => ReportInv'
  BY <1>0, AmidKeeps
<1>c. Leaving(p) => ReportInv'
  BY <1>0, LeavingKeeps
<1>1. CASE Start(p) BY <1>0, <1>a, <1>1 DEF Start, Aside, AtWork
<1>2. CASE ListGroups(p) BY <1>0, <1>a, <1>2 DEF ListGroups, Aside, AtWork
<1>3. CASE NextOwner(p) BY <1>0, <1>a, <1>3 DEF NextOwner, Aside, AtWork
<1>4. CASE CreateOrGet(p) BY <1>0, <1>a, <1>4 DEF CreateOrGet, Aside, AtWork
<1>5. CASE Check(p)
  <2>1. CASE status[on[p]] \in Done
    BY <1>0, <1>a, <1>5, <2>1 DEF Check, Aside, AtWork
  <2>2. CASE status[on[p]] \notin Done
    BY <1>0, <1>5, <2>2, TakeUpKeeps
  <2>3. QED
    BY <2>1, <2>2
<1>6. CASE ListPending(p) BY <1>0, <1>a, <1>6 DEF ListPending, Aside, AtWork
<1>7. CASE SendReport(p)
  <2>1. UNCHANGED <<made, status, text, evidence>>
    BY <1>7 DEF SendReport, Delivered, TakeMail
  <2>2. QED
    BY <1>0, <1>a, <1>7, <2>1 DEF SendReport, Aside, AtWork
<1>8. CASE SendAgain(p)
  <2>1. UNCHANGED <<made, status, text, evidence>>
    BY <1>8 DEF SendAgain, TakeMail
  <2>2. QED
    BY <1>0, <1>a, <1>8, <2>1 DEF SendAgain, Aside, AtWork
<1>9. CASE SendRaises(p)
  <2>1. UNCHANGED <<made, status, text, evidence>>
    BY <1>9 DEF SendRaises, NotDelivered, TakeMail
  <2>2. QED
    BY <1>0, <1>a, <1>9, <2>1 DEF SendRaises, Aside, AtWork
<1>10. CASE NoteSent(p) BY <1>0, <1>a, <1>10 DEF NoteSent, SetStatus, Aside, AtWork
<1>11. CASE Finish(p) BY <1>0, <1>a, <1>11 DEF Finish, Aside, AtWork
<1>12. CASE Crash(p)
  <2>1. at'[p] = "idle" /\ UNCHANGED <<report, outbox, on, overlaps>>
    BY <1>0, <1>12 DEF Crash
  <2>2. CASE at[p] \in AtWork
    BY <1>c, <2>1, <2>2 DEF Leaving, Here, AtWork
  <2>3. CASE at[p] \notin AtWork
    BY <1>a, <2>1, <2>3 DEF Aside, AtWork
  <2>4. QED
    BY <2>2, <2>3
<1>13. CASE Load(p)
  BY <1>0, <1>b, <1>13 DEF Load, SetStatus, Amid, Here, WorkInv, AtWork
<1>14. CASE Collect(p)
  BY <1>0, <1>b, <1>14 DEF Collect, Amid, Here, WorkInv, AtWork
<1>15. CASE Clear(p)
  BY <1>0, <1>b, <1>15 DEF Clear, Amid, Here, WorkInv, AtWork
<1>16. CASE Insert(p)
  BY <1>0, <1>b, <1>16 DEF Insert, Amid, Here, WorkInv, AtWork
<1>17. CASE Inserted(p)
  BY <1>0, <1>b, <1>17 DEF Inserted, Amid, Here, WorkInv, AtWork
<1>18. CASE Persisted(p)
  BY <1>0, <1>b, <1>18 DEF Persisted, SetStatus, Amid, Here, WorkInv, AtWork
<1>19. CASE Generate(p)
  BY <1>0, <1>b, <1>19 DEF Generate, Amid, Here, WorkInv, AtWork
<1>20. CASE WriteQueued(p) BY <1>0, <1>20, WriteQueuedKeeps
<1>21. CASE EnqueueReport(p) BY <1>0, <1>21, EnqueueReportKeeps
<1>22. CASE Raise(p)
  <2>1. CASE at[p] = "mail"
    BY <1>0, <1>22, <2>1, NotQueuedKeeps
  <2>2. CASE at[p] # "mail"
    BY <1>0, <1>b, <1>22, <2>2 DEF Raise, Amid, Here, WorkInv, AtWork
  <2>3. QED
    BY <2>1, <2>2
<1>23. CASE Fail(p) BY <1>0, <1>c, <1>23 DEF Fail, SetStatus, Leaving, Here, AtWork
<1>24. QED
  BY <1>1, <1>2, <1>3, <1>4, <1>5, <1>6, <1>7, <1>8, <1>9, <1>10, <1>11, <1>12,
     <1>13, <1>14, <1>15, <1>16, <1>17, <1>18, <1>19, <1>20, <1>21, <1>22, <1>23
     DEF RunOnce, Workflow

\* The agent only adds and removes mails, and never a report mail.
LEMMA AgentReport ==
  ASSUME TypeOK, TypeOK', ReportInv,
         (\E m \in Mail : AgentSends(m) \/ AgentRaises(m)) \/ (\E g \in Groups : Reply(g))
  PROVE  ReportInv'
<1> USE DEF report, agenda, local
<1>1. \A g \in Groups : made'[<<"report", g>>] = made[<<"report", g>>]
  <2>1. ASSUME NEW m \in Mail, AgentSends(m) \/ AgentRaises(m) PROVE made' = made
    BY <2>1 DEF AgentSends, AgentRaises, Delivered, NotDelivered
  <2>2. ASSUME NEW h \in Groups, Reply(h)
        PROVE  \A g \in Groups : made'[<<"report", g>>] = made[<<"report", g>>]
    BY <2>2, Mails DEF Reply, Queue, TypeOK
  <2>3. QED
    BY <2>1, <2>2
<1>2. UNCHANGED <<status, text, evidence, at, on, found, left, overlaps>>
  BY DEF AgentSends, AgentRaises, Reply
<1>3. ASSUME NEW g \in Groups PROVE Untouched(g)
  BY <1>1, <1>2 DEF Untouched, Working, Mailing, Making
<1>4. QED
  BY <1>3, UntouchedKeeps DEF ReportInv

LEMMA NextReport == TypeOK /\ ReportInv /\ [Next]_vars => ReportInv'
<1> SUFFICES ASSUME TypeOK, ReportInv, [Next]_vars PROVE ReportInv'
  OBVIOUS
<1>1. TypeOK'
  BY NextTyped
<1>2. CASE UNCHANGED vars
  <2>1. ASSUME NEW g \in Groups PROVE Untouched(g)
    BY <1>2 DEF vars, report, outbox, agenda, local, Untouched, Working, Mailing, Making
  <2>2. QED
    BY <1>1, <2>1, UntouchedKeeps DEF ReportInv
<1>3. CASE Next
  BY <1>1, <1>3, StepReport, AgentReport DEF Next
<1>4. QED
  BY <1>2, <1>3

\* ReportInv: the mails of a report and those bound to come are no more than
\* the runs that overlapped allow, and a run that has a report to itself
\* leaves text and evidence in agreement.
THEOREM ReportsAreAccounted == Spec => []ReportInv
BY InitReport, NextReport, TypeCorrect, PTL DEF Spec

\* OneReportMail: however often the command is run for a period, and whatever
\* fails, a group gets one report, and one more at most for each time that a
\* run took it up while another was at it.
THEOREM OneMailPerPeriod == Spec => []OneReportMail
<1>1. TypeOK /\ ReportInv => OneReportMail
  <2> SUFFICES ASSUME TypeOK, ReportInv, NEW g \in Groups
               PROVE  made[<<"report", g>>] <= 1 + overlaps[g]
    BY DEF OneReportMail
  <2>1. /\ made[<<"report", g>>] \in Nat /\ overlaps[g] \in Nat /\ Claims(g) \in Nat
        /\ Cardinality(Mailing(g)) \in Nat /\ Cardinality(Making(g)) \in Nat
    BY ClaimsAdd
  <2>2. made[<<"report", g>>] <= Claims(g)
    BY <2>1 DEF Claims
  <2>3. Claims(g) <= 1 + overlaps[g]
    BY DEF ReportInv
  <2>4. QED
    BY <2>1, <2>2, <2>3
<1>2. QED
  BY <1>1, TypeCorrect, ReportsAreAccounted, PTL

\* A process that is alone overlaps with nobody: as long as the scheduler
\* starts no second one, it is one report for each group.
THEOREM AloneItIsOne ==
  ASSUME \A p, q \in Processes : p = q
  PROVE  Spec => [](\A g \in Groups : made[<<"report", g>>] <= 1)
<1> DEFINE NoOverlap == \A g \in Groups : overlaps[g] = 0
<1>1. Init => NoOverlap
  BY DEF Init
<1>2. TypeOK /\ NoOverlap /\ [Next]_vars => NoOverlap'
  <2> SUFFICES ASSUME TypeOK, NoOverlap, [Next]_vars PROVE overlaps' = overlaps
    OBVIOUS
  <2>1. ASSUME NEW p \in Processes, Check(p) PROVE overlaps' = overlaps
    <3>1. Working(on[p]) = {}
      BY <2>1 DEF Check, Working, AtWork
    <3>2. QED
      BY <2>1, <3>1 DEF Check
  <2>2. ASSUME NEW p \in Processes, (RunOnce(p) \/ Workflow(p)) /\ ~Check(p)
        PROVE  overlaps' = overlaps
    BY <2>2 DEF RunOnce, Workflow, Step, Start, ListGroups, NextOwner, CreateOrGet,
                ListPending, SendReport, SendAgain, SendRaises, NoteSent, Finish, Crash,
                Load, Collect, Clear, Insert, Inserted, Persisted, Generate,
                WriteQueued, EnqueueReport, Raise, Fail
  <2>3. CASE \/ \E m \in Mail : AgentSends(m) \/ AgentRaises(m)
             \/ \E g \in Groups : Reply(g)
    BY <2>3 DEF AgentSends, AgentRaises, Reply
  <2>4. CASE UNCHANGED vars
    BY <2>4 DEF vars
  <2>5. QED
    BY <2>1, <2>2, <2>3, <2>4 DEF Next
<1>3. NoOverlap /\ OneReportMail => \A g \in Groups : made[<<"report", g>>] <= 1
  <2> SUFFICES ASSUME NoOverlap, OneReportMail, NEW g \in Groups
               PROVE  made[<<"report", g>>] <= 1
    OBVIOUS
  <2>1. made[<<"report", g>>] <= 1 + overlaps[g] /\ overlaps[g] = 0
    BY DEF OneReportMail
  <2>2. QED
    BY <2>1
<1>4. QED
  BY <1>1, <1>2, <1>3, TypeCorrect, OneMailPerPeriod, PTL DEF Spec

\* SnapshotIsSource: the evidence that questions are answered from is the
\* evidence that the report was written from.
THEOREM SnapshotIsKept == Spec => []SnapshotIsSource
<1>1. ReportInv => SnapshotIsSource
  BY DEF ReportInv, ReportOf, SnapshotIsSource
<1>2. QED
  BY <1>1, ReportsAreAccounted, PTL

\* MailedIsDone: a report that has been mailed is not taken up again.
THEOREM MailedReportsStay == Spec => []MailedIsDone
<1>1. ReportInv => MailedIsDone
  BY DEF ReportInv, ReportOf, MailedIsDone
<1>2. QED
  BY <1>1, ReportsAreAccounted, PTL

-----------------------------------------------------------------------------
(* SENT is the truth about g, as long as no question about g is answered.  *)

LEMMA InitMail == Init => MailInv
BY Mails DEF Init, None, MailInv, MailOf

\* The weekly process makes no answers, and strikes off what it takes.
LEMMA NoAnswers ==
  ASSUME TypeOK, NEW g \in Groups, NEW p \in Processes, RunOnce(p) \/ Workflow(p)
  PROVE  made'[<<"reply", g>>] = made[<<"reply", g>>]
<1>1. CASE EnqueueReport(p)
  BY <1>1, Mails DEF EnqueueReport, Queue, TypeOK
<1>2. CASE SendReport(p) \/ SendAgain(p) \/ SendRaises(p)
  BY <1>2 DEF SendReport, SendAgain, SendRaises, Delivered, NotDelivered
<1>3. CASE ~(EnqueueReport(p) \/ SendReport(p) \/ SendAgain(p) \/ SendRaises(p))
  BY <1>3 DEF RunOnce, Workflow, Start, ListGroups, NextOwner, CreateOrGet, Check,
              ListPending, NoteSent, Finish, Crash, Load, Collect, Clear, Insert,
              Inserted, Persisted, Generate, WriteQueued, Raise, Fail, outbox
<1>4. QED
  BY <1>1, <1>2, <1>3

\* Every statement of the weekly process preserves MailOf.
LEMMA StepMail ==
  ASSUME TypeOK, NEW g \in Groups, MailOf(g),
         NEW p \in Processes, RunOnce(p) \/ Workflow(p)
  PROVE  MailOf(g)'
<1> DEFINE rep == <<"report", g>>
           ans == <<"reply", g>>
<1>a. SUFFICES ASSUME made'[ans] = 0
               PROVE  /\ status'[g] = "SENT" => rep \in sent'
                      /\ \A q \in Processes :
                           /\ at'[q] = "note" /\ on'[q] = g => rep \in sent'
                           /\ mails'[q][ans] = 0
                      /\ pending'[ans] = 0
  BY DEF MailOf
<1>b. /\ status[g] = "SENT" => rep \in sent
      /\ \A q \in Processes : (at[q] = "note" /\ on[q] = g => rep \in sent) /\ mails[q][ans] = 0
      /\ pending[ans] = 0
  BY <1>a, NoAnswers DEF MailOf
<1>0. /\ on[p] \in Groups /\ on \in [Processes -> Groups]
      /\ at \in [Processes -> Label] /\ status \in [Groups -> Status]
      /\ made \in [Mail -> Nat] /\ pending \in [Mail -> Nat] /\ sent \subseteq Mail
      /\ mails \in [Processes -> [Mail -> Nat]]
      /\ rep \in Mail /\ ans \in Mail /\ rep # ans
  BY Mails DEF TypeOK
<1> HIDE DEF rep, ans
<1> USE DEF report, outbox, agenda, local, Goto, Step
<1>1. CASE Start(p) BY <1>0, <1>b, <1>1 DEF Start
<1>2. CASE ListGroups(p) BY <1>0, <1>b, <1>2 DEF ListGroups
<1>3. CASE NextOwner(p) BY <1>0, <1>b, <1>3 DEF NextOwner
<1>4. CASE CreateOrGet(p) BY <1>0, <1>b, <1>4 DEF CreateOrGet
<1>5. CASE Check(p) BY <1>0, <1>b, <1>5 DEF Check
<1>6. CASE ListPending(p) BY <1>0, <1>b, <1>6 DEF ListPending
<1>7. CASE SendReport(p)
  <2>1. PICK m \in Mail :
          TakeMail(p, m) /\ on' = [on EXCEPT ![p] = m[2]] /\ Delivered(m)
    BY <1>7 DEF SendReport
  <2>2. m[2] = g => m = rep
    <3>1. m = rep \/ m = ans \/ m[2] # g
      BY Mails DEF Mail, rep, ans
    <3>2. m # ans
      BY <1>b, <2>1 DEF TakeMail
    <3>3. QED
      BY <3>1, <3>2
  <2>3. m \in sent' /\ sent \subseteq sent' /\ pending'[ans] = 0
    BY <1>0, <1>b, <2>1, DeliveredOK
  <2>4. \A q \in Processes : mails'[q][ans] = 0
    BY <1>0, <1>b, <2>1, StruckOff DEF TakeMail
  <2>5. status' = status /\ at' = [at EXCEPT ![p] = "note"]
    BY <1>7, <2>1 DEF SendReport, TakeMail
  <2>6. QED
    BY <1>0, <1>b, <2>1, <2>2, <2>3, <2>4, <2>5
<1>8. CASE SendAgain(p)
  <2>1. PICK m \in Mail :
          /\ TakeMail(p, m)
          /\ pending' = [pending EXCEPT ![m] = IF @ < made[m] THEN @ + 1 ELSE @]
    BY <1>0, <1>8 DEF SendAgain
  <2>2. pending'[ans] = 0
    <3>1. m # ans
      BY <1>b, <2>1 DEF TakeMail
    <3>2. QED
      BY <1>0, <1>b, <2>1, <3>1
  <2>3. \A q \in Processes : mails'[q][ans] = 0
    BY <1>0, <1>b, <2>1, StruckOff DEF TakeMail
  <2>4. UNCHANGED <<status, sent, on>> /\ at' = [at EXCEPT ![p] = "flush"]
    BY <1>8, <2>1 DEF SendAgain, TakeMail
  <2>5. QED
    BY <1>0, <1>b, <2>2, <2>3, <2>4
<1>9. CASE SendRaises(p)
  <2>1. PICK m \in Mail : TakeMail(p, m) /\ NotDelivered(m)
    BY <1>9 DEF SendRaises
  <2>2. \A q \in Processes : mails'[q][ans] = 0
    BY <1>0, <1>b, <2>1, StruckOff DEF TakeMail
  <2>3. sent \subseteq sent' /\ pending'[ans] = 0
    BY <1>0, <1>b, <2>1, DeliveredOK
  <2>4. UNCHANGED <<status, at, on>>
    BY <1>9, <2>1 DEF SendRaises, TakeMail
  <2>5. QED
    BY <1>b, <2>2, <2>3, <2>4
<1>10. CASE NoteSent(p) BY <1>0, <1>b, <1>10 DEF NoteSent, SetStatus
<1>11. CASE Finish(p) BY <1>0, <1>b, <1>11 DEF Finish
<1>12. CASE Crash(p)
  <2>1. \A q \in Processes : mails'[q][ans] = 0
    BY <1>0, <1>b, <1>12 DEF Crash, None
  <2>2. QED
    BY <1>0, <1>b, <1>12, <2>1 DEF Crash
<1>13. CASE Load(p) BY <1>0, <1>b, <1>13 DEF Load, SetStatus
<1>14. CASE Collect(p) BY <1>0, <1>b, <1>14 DEF Collect
<1>15. CASE Clear(p) BY <1>0, <1>b, <1>15 DEF Clear
<1>16. CASE Insert(p) BY <1>0, <1>b, <1>16 DEF Insert
<1>17. CASE Inserted(p) BY <1>0, <1>b, <1>17 DEF Inserted
<1>18. CASE Persisted(p) BY <1>0, <1>b, <1>18 DEF Persisted, SetStatus
<1>19. CASE Generate(p) BY <1>0, <1>b, <1>19 DEF Generate
<1>20. CASE WriteQueued(p) BY <1>0, <1>b, <1>20 DEF WriteQueued, SetStatus
<1>21. CASE EnqueueReport(p)
  <2>1. <<"report", on[p]>> # ans
    BY DEF ans
  <2>2. pending'[ans] = 0
    BY <1>0, <1>b, <1>21, <2>1 DEF EnqueueReport, Queue
  <2>3. QED
    BY <1>0, <1>b, <1>21, <2>2 DEF EnqueueReport, Queue
<1>22. CASE Raise(p) BY <1>0, <1>b, <1>22 DEF Raise
<1>23. CASE Fail(p) BY <1>0, <1>b, <1>23 DEF Fail, SetStatus
<1>24. QED
  BY <1>1, <1>2, <1>3, <1>4, <1>5, <1>6, <1>7, <1>8, <1>9, <1>10, <1>11, <1>12,
     <1>13, <1>14, <1>15, <1>16, <1>17, <1>18, <1>19, <1>20, <1>21, <1>22, <1>23
     DEF RunOnce, Workflow

LEMMA NextMail == TypeOK /\ MailInv /\ [Next]_vars => MailInv'
<1> SUFFICES ASSUME TypeOK, [Next]_vars, NEW g \in Groups, MailOf(g) PROVE MailOf(g)'
  BY DEF MailInv
<1>1. CASE UNCHANGED vars
  BY <1>1 DEF vars, report, outbox, agenda, local, MailOf
<1>2. ASSUME NEW m \in Mail, AgentSends(m) \/ AgentRaises(m) PROVE MailOf(g)'
  <2>1. made' = made /\ sent \subseteq sent' /\ \A n \in Mail : pending[n] = 0 => pending'[n] = 0
    BY <1>2, DeliveredOK DEF AgentSends, AgentRaises, TypeOK
  <2>2. UNCHANGED <<status, at, on, mails>>
    BY <1>2 DEF AgentSends, AgentRaises, report, local
  <2>3. QED
    BY <2>1, <2>2, Mails DEF MailOf
<1>3. ASSUME NEW h \in Groups, Reply(h) PROVE MailOf(g)'
  <2>1. /\ made' = [made EXCEPT ![<<"reply", h>>] = @ + 1]
        /\ pending' = [pending EXCEPT ![<<"reply", h>>] = @ + 1]
        /\ UNCHANGED <<status, sent, at, on, mails>>
    BY <1>3 DEF Reply, Queue, report, local
  <2>2. made \in [Mail -> Nat] /\ pending \in [Mail -> Nat] /\ <<"reply", g>> \in Mail
    BY Mails DEF TypeOK
  <2>3. CASE g = h
    <3>1. made'[<<"reply", g>>] > 0
      BY <2>1, <2>2, <2>3
    <3>2. QED
      BY <3>1 DEF MailOf
  <2>4. CASE g # h
    <3>1. <<"reply", g>> # <<"reply", h>>
      BY <2>4
    <3>2. /\ made'[<<"reply", g>>] = made[<<"reply", g>>]
          /\ pending'[<<"reply", g>>] = pending[<<"reply", g>>]
      BY <2>1, <2>2, <3>1
    <3>3. QED
      BY <2>1, <3>2 DEF MailOf
  <2>5. QED
    BY <2>3, <2>4
<1>4. QED
  BY <1>1, <1>2, <1>3, StepMail DEF Next

\* SentIsMailed: a report that says SENT is sent, even if runs overlap, until
\* a question about it is answered.
THEOREM SentReportsAreMailed == Spec => []SentIsMailed
<1>1. TypeOK /\ MailInv => SentIsMailed
  <2> SUFFICES ASSUME TypeOK, NEW g \in Groups, MailOf(g)
               PROVE  status[g] = "SENT" => <<"report", g>> \in sent \/ made[<<"reply", g>>] > 0
    BY DEF MailInv, SentIsMailed
  <2>1. made[<<"reply", g>>] \in Nat
    BY Mails DEF TypeOK
  <2>2. QED
    BY <2>1 DEF MailOf
<1>2. TypeOK /\ MailInv /\ [Next]_vars => MailInv'
  BY NextMail
<1>3. QED
  BY <1>1, <1>2, InitMail, TypeCorrect, PTL DEF Spec
=============================================================================

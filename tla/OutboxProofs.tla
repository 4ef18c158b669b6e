---------------------------- MODULE OutboxProofs ----------------------------
(***************************************************************************)
(* What Outbox guarantees for every set of rows, every retry limit and any *)
(* number of exceptions and crashes.                                       *)
(***************************************************************************)
EXTENDS Outbox, TLAPS

\* The rows that flusher f is sending: none or one.
Sending(f) ==
  {r \in Rows : on[f] = r /\ at[f] \in {"send", "noteSent", "link", "respond", "count", "giveUp"}}

\* 1 if flusher f has met an exception with r that it has yet to write down.
Uncounted(f, r) == IF on[f] = r /\ at[f] \in {"count", "giveUp"} THEN 1 ELSE 0

\* A row that is yet to be written has no history, ...
FreshIsUntouched ==
  \A r \in Rows : status[r] = "none" =>
    attempts[r] = 0 /\ \A f \in Flusher : r \notin batch[f] /\ r \notin Sending(f) /\ sent[f][r] = 0

\* ... and the results handler prepares only such a one, between two rounds.
PreparedIsFresh ==
  at["mail"] \in {"exists", "queue"} =>
    status[on["mail"]] = "none" /\ on["mail"] \notin WeeklyRows /\ batch["mail"] = {}

\* The results handler is no part of the weekly process, which holds no row of
\* another process.
WeeklyIsApart ==
  /\ at["weekly"] \notin {"exists", "queue"}
  /\ Sending("weekly") \subseteq WeeklyRows
  /\ \A r \in Rows \ WeeklyRows : sent["weekly"][r] = 0

\* After send() a copy is out.
NotedIsDelivered ==
  \A f \in Flusher : at[f] \in {"noteSent", "link", "respond"} => sent[f][on[f]] > 0

\* After mark_sent the link is there.
RespondedIsLinked == \A f \in Flusher : at[f] = "respond" => on[f] \in linked

\* Each attempt that a column or a local variable counts has had its exception.
AttemptsAreRaised ==
  \A r \in Rows : r \notin linked /\ r \notin overtaken =>
    /\ attempts[r] + Uncounted("mail", r) + Uncounted("weekly", r) <= raises
    /\ \A f \in Flusher : on[f] = r /\ at[f] = "giveUp" =>
         counted[f] + Uncounted("mail", r) + Uncounted("weekly", r) <= raises

\* A mail names the place of the file unless the file was moved after that.
NamedIsThere ==
  /\ \A r \in Rows : Readable(r) \/ r \in overtaken
  /\ tail = "shelve" => overtaken = {}

\* The copies of a row of one loop, by what the row says while nobody sends it, ...
RestingCopies ==
  \A r \in Rows \ WeeklyRows : r \notin Sending("mail") =>
    sent["mail"][r] <= attempts[r] + crashes + (IF status[r] = "SENT" THEN 1 ELSE 0)

\* ... and by the statement that comes next while it is being sent.
SendingCopies ==
  \A r \in Sending("mail") \ WeeklyRows :
    /\ status[r] \in {"PENDING", "SENT"}
    /\ at["mail"] \in {"send", "noteSent"} => status[r] = "PENDING"
    /\ at["mail"] \in {"link", "respond"} => status[r] = "SENT"
    /\ at["mail"] = "giveUp" => counted["mail"] = attempts[r]
    /\ sent["mail"][r] <= attempts[r] + crashes + (IF at["mail"] = "send" THEN 0 ELSE 1)

\* What that loop still has before it is PENDING.
BatchIsPending ==
  \A r \in batch["mail"] \ WeeklyRows : status[r] = "PENDING" /\ r \notin Sending("mail")

\* How far the worker has got with the file, as long as it is not stopped.
FileFollowsTail ==
  crashes = 0 =>
    /\ tail = "shelve" => file = "processing" /\ path = "processing"
    /\ tail = "note"   => file = "completed" /\ path = "processing"
    /\ tail = "done"   => file = "completed" /\ path = "completed"
    /\ seen = "completed" => path = "completed"
    /\ at["mail"] = "queue" /\ attached[on["mail"]] = "none" =>
         seen = "processing" /\ file = "completed"

IInv ==
  /\ TypeOK /\ FreshIsUntouched /\ PreparedIsFresh /\ WeeklyIsApart
  /\ NotedIsDelivered /\ RespondedIsLinked /\ AttemptsAreRaised /\ NamedIsThere
  /\ RestingCopies /\ SendingCopies /\ BatchIsPending /\ FileFollowsTail
  /\ SentIsDelivered /\ SentIsLinked /\ GivenUpIsEarned
-----------------------------------------------------------------------------
(* The invariant is inductive.                                             *)

\* It holds at the start.
LEMMA InitIInv == Init => IInv
<1> SUFFICES ASSUME Init PROVE IInv
  OBVIOUS
<1> USE DEF Init, Flusher, Sending
<1>1. (CHOOSE r \in Rows : TRUE) \in Rows
  BY OutboxAssumption
<1>2. TypeOK
  BY <1>1, OutboxAssumption DEF TypeOK, Label, Place
<1>3. FreshIsUntouched /\ PreparedIsFresh /\ WeeklyIsApart
  BY DEF FreshIsUntouched, PreparedIsFresh, WeeklyIsApart
<1>4. NotedIsDelivered /\ RespondedIsLinked /\ AttemptsAreRaised /\ NamedIsThere
  BY DEF NotedIsDelivered, RespondedIsLinked, AttemptsAreRaised, Uncounted, NamedIsThere,
         Readable
<1>5. RestingCopies /\ SendingCopies /\ BatchIsPending /\ FileFollowsTail
  BY DEF RestingCopies, SendingCopies, BatchIsPending, FileFollowsTail
<1>6. SentIsDelivered /\ SentIsLinked /\ GivenUpIsEarned
  BY DEF SentIsDelivered, SentIsLinked, GivenUpIsEarned
<1>7. QED
  BY <1>2, <1>3, <1>4, <1>5, <1>6 DEF IInv

\* Every step keeps the state well-typed.
LEMMA StepTypeOK == IInv /\ [Next]_vars => TypeOK'
<1> SUFFICES ASSUME IInv, [Next]_vars PROVE TypeOK'
  OBVIOUS
<1> USE OutboxAssumption DEF IInv, Flusher, Goto, transcript, faults, TypeOK, Handles,
                             Label, Place
<1>1. ASSUME NEW r \in Rows, Enqueue(r) PROVE TypeOK'
  BY <1>1 DEF Enqueue, Prepared
<1>2. ASSUME NEW r \in Rows, AskResults(r) PROVE TypeOK'
  BY <1>2 DEF AskResults
<1>3. ASSUME CheckFile PROVE TypeOK'
  BY <1>3 DEF CheckFile
<1>4. ASSUME QueueResults PROVE TypeOK'
  BY <1>4 DEF QueueResults
<1>5. ASSUME Shelve PROVE TypeOK'
  BY <1>5 DEF Shelve
<1>6. ASSUME NoteShelved PROVE TypeOK'
  BY <1>6 DEF NoteShelved
<1>7. ASSUME NEW f \in Flusher, ListPending(f) PROVE TypeOK'
  BY <1>7 DEF ListPending, Round
<1>8. ASSUME NEW f \in Flusher, TakeRow(f) PROVE TypeOK'
  BY <1>8 DEF TakeRow
<1>9. ASSUME NEW f \in Flusher, Send(f) PROVE TypeOK'
  BY <1>9 DEF Send, Delivered
<1>10. ASSUME NEW f \in Flusher, FileIsGone(f) PROVE TypeOK'
  BY <1>10 DEF FileIsGone
<1>11. ASSUME NEW f \in Flusher, SendRaises(f) PROVE TypeOK'
  BY <1>11 DEF SendRaises, Raises, Delivered
<1>12. ASSUME NEW f \in Flusher, NoteSent(f) PROVE TypeOK'
  BY <1>12 DEF NoteSent
<1>13. ASSUME NEW f \in Flusher, Link(f) PROVE TypeOK'
  BY <1>13 DEF Link
<1>14. ASSUME NEW f \in Flusher, LinkTaken(f) PROVE TypeOK'
  BY <1>14 DEF LinkTaken
<1>15. ASSUME NEW f \in Flusher, Respond(f) PROVE TypeOK'
  BY <1>15 DEF Respond
<1>16. ASSUME NEW f \in Flusher, RaisesLate(f) PROVE TypeOK'
  BY <1>16 DEF RaisesLate, Raises
<1>17. ASSUME NEW f \in Flusher, CountAttempts(f) PROVE TypeOK'
  BY <1>17 DEF CountAttempts
<1>18. ASSUME NEW f \in Flusher, MarkFailed(f) PROVE TypeOK'
  BY <1>18 DEF MarkFailed
<1>19. ASSUME NEW f \in Flusher, Crash(f) PROVE TypeOK'
  BY <1>19 DEF Crash, AgentStops, Prepared
<1>20. ASSUME UNCHANGED vars
     PROVE  TypeOK'
  BY <1>20 DEF vars
<1>21. QED
  BY <1>1, <1>2, <1>3, <1>4, <1>5, <1>6, <1>7, <1>8, <1>9, <1>10, <1>11, <1>12, <1>13,
  <1>14, <1>15, <1>16, <1>17, <1>18, <1>19, <1>20 DEF Next, MailStep, FlushStep,
  FaultStep

\* A row gets a history only after it was written.
LEMMA StepFreshIsUntouched == IInv /\ [Next]_vars => FreshIsUntouched'
<1> SUFFICES ASSUME IInv, [Next]_vars PROVE FreshIsUntouched'
  OBVIOUS
<1> USE DEF IInv, Flusher, Goto, FreshIsUntouched, Sending, TypeOK,
            PreparedIsFresh
<1>1. ASSUME NEW r \in Rows, Enqueue(r) PROVE FreshIsUntouched'
  BY <1>1 DEF Enqueue, Prepared
<1>2. ASSUME NEW r \in Rows, AskResults(r) PROVE FreshIsUntouched'
  BY <1>2 DEF AskResults
<1>3. ASSUME CheckFile PROVE FreshIsUntouched'
  BY <1>3 DEF CheckFile
<1>4. ASSUME QueueResults PROVE FreshIsUntouched'
  BY <1>4 DEF QueueResults
<1>5. ASSUME NEW f \in Flusher, ListPending(f) PROVE FreshIsUntouched'
  BY <1>5 DEF ListPending, Round
<1>6. ASSUME NEW f \in Flusher, TakeRow(f) PROVE FreshIsUntouched'
  BY <1>6 DEF TakeRow
<1>7. ASSUME NEW f \in Flusher, Send(f) PROVE FreshIsUntouched'
  BY <1>7 DEF Send, Delivered
<1>8. ASSUME NEW f \in Flusher, FileIsGone(f) PROVE FreshIsUntouched'
  BY <1>8 DEF FileIsGone
<1>9. ASSUME NEW f \in Flusher, SendRaises(f) PROVE FreshIsUntouched'
  BY <1>9 DEF SendRaises, Raises, Delivered
<1>10. ASSUME NEW f \in Flusher, NoteSent(f) PROVE FreshIsUntouched'
  BY <1>10 DEF NoteSent
<1>11. ASSUME NEW f \in Flusher, Link(f) PROVE FreshIsUntouched'
  BY <1>11 DEF Link
<1>12. ASSUME NEW f \in Flusher, LinkTaken(f) PROVE FreshIsUntouched'
  BY <1>12 DEF LinkTaken
<1>13. ASSUME NEW f \in Flusher, Respond(f) PROVE FreshIsUntouched'
  BY <1>13 DEF Respond
<1>14. ASSUME NEW f \in Flusher, RaisesLate(f) PROVE FreshIsUntouched'
  BY <1>14 DEF RaisesLate, Raises
<1>15. ASSUME NEW f \in Flusher, CountAttempts(f) PROVE FreshIsUntouched'
  BY <1>15 DEF CountAttempts
<1>16. ASSUME NEW f \in Flusher, MarkFailed(f) PROVE FreshIsUntouched'
  BY <1>16 DEF MarkFailed
<1>17. ASSUME NEW f \in Flusher, Crash(f) PROVE FreshIsUntouched'
  BY <1>17 DEF Crash, AgentStops, Prepared
<1>18. ASSUME Shelve \/ NoteShelved \/ UNCHANGED vars
     PROVE  FreshIsUntouched'
  BY <1>18 DEF Shelve, NoteShelved, vars
<1>19. QED
  BY <1>1, <1>2, <1>3, <1>4, <1>5, <1>6, <1>7, <1>8, <1>9, <1>10, <1>11, <1>12, <1>13,
  <1>14, <1>15, <1>16, <1>17, <1>18 DEF Next, MailStep, FlushStep, FaultStep

\* Nobody else writes the row of the mail that is being prepared.
LEMMA StepPreparedIsFresh == IInv /\ [Next]_vars => PreparedIsFresh'
<1> SUFFICES ASSUME IInv, [Next]_vars PROVE PreparedIsFresh'
  OBVIOUS
<1> USE DEF IInv, Flusher, Goto, PreparedIsFresh, TypeOK,
            FreshIsUntouched, WeeklyIsApart, Sending
<1>1. ASSUME NEW r \in Rows, Enqueue(r) PROVE PreparedIsFresh'
  BY <1>1 DEF Enqueue, Prepared
<1>2. ASSUME NEW r \in Rows, AskResults(r) PROVE PreparedIsFresh'
  BY <1>2 DEF AskResults
<1>3. ASSUME CheckFile PROVE PreparedIsFresh'
  BY <1>3 DEF CheckFile
<1>4. ASSUME QueueResults PROVE PreparedIsFresh'
  BY <1>4 DEF QueueResults
<1>5. ASSUME NEW f \in Flusher, ListPending(f) PROVE PreparedIsFresh'
  BY <1>5 DEF ListPending, Round
<1>6. ASSUME NEW f \in Flusher, TakeRow(f) PROVE PreparedIsFresh'
  BY <1>6 DEF TakeRow
<1>7. ASSUME NEW f \in Flusher, Send(f) PROVE PreparedIsFresh'
  BY <1>7 DEF Send, Delivered
<1>8. ASSUME NEW f \in Flusher, FileIsGone(f) PROVE PreparedIsFresh'
  BY <1>8 DEF FileIsGone
<1>9. ASSUME NEW f \in Flusher, SendRaises(f) PROVE PreparedIsFresh'
  BY <1>9 DEF SendRaises, Raises, Delivered
<1>10. ASSUME NEW f \in Flusher, NoteSent(f) PROVE PreparedIsFresh'
  BY <1>10 DEF NoteSent
<1>11. ASSUME NEW f \in Flusher, Link(f) PROVE PreparedIsFresh'
  BY <1>11 DEF Link
<1>12. ASSUME NEW f \in Flusher, LinkTaken(f) PROVE PreparedIsFresh'
  BY <1>12 DEF LinkTaken
<1>13. ASSUME NEW f \in Flusher, Respond(f) PROVE PreparedIsFresh'
  BY <1>13 DEF Respond
<1>14. ASSUME NEW f \in Flusher, RaisesLate(f) PROVE PreparedIsFresh'
  BY <1>14 DEF RaisesLate, Raises
<1>15. ASSUME NEW f \in Flusher, CountAttempts(f) PROVE PreparedIsFresh'
  BY <1>15 DEF CountAttempts
<1>16. ASSUME NEW f \in Flusher, MarkFailed(f) PROVE PreparedIsFresh'
  BY <1>16 DEF MarkFailed
<1>17. ASSUME NEW f \in Flusher, Crash(f) PROVE PreparedIsFresh'
  BY <1>17 DEF Crash, AgentStops, Prepared
<1>18. ASSUME Shelve \/ NoteShelved \/ UNCHANGED vars
     PROVE  PreparedIsFresh'
  BY <1>18 DEF Shelve, NoteShelved, vars
<1>19. QED
  BY <1>1, <1>2, <1>3, <1>4, <1>5, <1>6, <1>7, <1>8, <1>9, <1>10, <1>11, <1>12, <1>13,
  <1>14, <1>15, <1>16, <1>17, <1>18 DEF Next, MailStep, FlushStep, FaultStep

\* The weekly process takes no other row than its own.
LEMMA StepWeeklyIsApart == IInv /\ [Next]_vars => WeeklyIsApart'
<1> SUFFICES ASSUME IInv, [Next]_vars PROVE WeeklyIsApart'
  OBVIOUS
<1> USE DEF IInv, Flusher, Goto, WeeklyIsApart, Sending, Handles, TypeOK
<1>1. ASSUME NEW r \in Rows, AskResults(r) PROVE WeeklyIsApart'
  BY <1>1 DEF AskResults
<1>2. ASSUME CheckFile PROVE WeeklyIsApart'
  BY <1>2 DEF CheckFile
<1>3. ASSUME QueueResults PROVE WeeklyIsApart'
  BY <1>3 DEF QueueResults
<1>4. ASSUME NEW f \in Flusher, TakeRow(f) PROVE WeeklyIsApart'
  BY <1>4 DEF TakeRow
<1>5. ASSUME NEW f \in Flusher, Send(f) PROVE WeeklyIsApart'
  BY <1>5 DEF Send, Delivered
<1>6. ASSUME NEW f \in Flusher, FileIsGone(f) PROVE WeeklyIsApart'
  BY <1>6 DEF FileIsGone
<1>7. ASSUME NEW f \in Flusher, SendRaises(f) PROVE WeeklyIsApart'
  BY <1>7 DEF SendRaises, Raises, Delivered
<1>8. ASSUME NEW f \in Flusher, NoteSent(f) PROVE WeeklyIsApart'
  BY <1>8 DEF NoteSent
<1>9. ASSUME NEW f \in Flusher, Link(f) PROVE WeeklyIsApart'
  BY <1>9 DEF Link
<1>10. ASSUME NEW f \in Flusher, LinkTaken(f) PROVE WeeklyIsApart'
  BY <1>10 DEF LinkTaken
<1>11. ASSUME NEW f \in Flusher, Respond(f) PROVE WeeklyIsApart'
  BY <1>11 DEF Respond
<1>12. ASSUME NEW f \in Flusher, RaisesLate(f) PROVE WeeklyIsApart'
  BY <1>12 DEF RaisesLate, Raises
<1>13. ASSUME NEW f \in Flusher, CountAttempts(f) PROVE WeeklyIsApart'
  BY <1>13 DEF CountAttempts
<1>14. ASSUME NEW f \in Flusher, MarkFailed(f) PROVE WeeklyIsApart'
  BY <1>14 DEF MarkFailed
<1>15. ASSUME NEW f \in Flusher, Crash(f) PROVE WeeklyIsApart'
  BY <1>15 DEF Crash, AgentStops, Prepared
<1>16. ASSUME NEW f \in Flusher, ListPending(f)
     PROVE  WeeklyIsApart'
  BY <1>16 DEF ListPending, Round
<1>17. ASSUME (\E r \in Rows : Enqueue(r)) \/ Shelve \/ NoteShelved \/ UNCHANGED vars
     PROVE  WeeklyIsApart'
  BY <1>17 DEF Enqueue, Shelve, NoteShelved, Prepared, vars
<1>18. QED
  BY <1>1, <1>2, <1>3, <1>4, <1>5, <1>6, <1>7, <1>8, <1>9, <1>10, <1>11, <1>12, <1>13,
  <1>14, <1>15, <1>16, <1>17 DEF Next, MailStep, FlushStep, FaultStep

\* Copies that are out stay out.
LEMMA StepNotedIsDelivered == IInv /\ [Next]_vars => NotedIsDelivered'
<1> SUFFICES ASSUME IInv, [Next]_vars PROVE NotedIsDelivered'
  OBVIOUS
<1> USE DEF IInv, Flusher, Goto, NotedIsDelivered, TypeOK
<1>1. ASSUME NEW r \in Rows, AskResults(r) PROVE NotedIsDelivered'
  BY <1>1 DEF AskResults
<1>2. ASSUME CheckFile PROVE NotedIsDelivered'
  BY <1>2 DEF CheckFile
<1>3. ASSUME QueueResults PROVE NotedIsDelivered'
  BY <1>3 DEF QueueResults
<1>4. ASSUME NEW f \in Flusher, TakeRow(f) PROVE NotedIsDelivered'
  BY <1>4 DEF TakeRow
<1>5. ASSUME NEW f \in Flusher, Send(f) PROVE NotedIsDelivered'
  BY <1>5 DEF Send, Delivered
<1>6. ASSUME NEW f \in Flusher, FileIsGone(f) PROVE NotedIsDelivered'
  BY <1>6 DEF FileIsGone
<1>7. ASSUME NEW f \in Flusher, SendRaises(f) PROVE NotedIsDelivered'
  BY <1>7 DEF SendRaises, Raises, Delivered
<1>8. ASSUME NEW f \in Flusher, NoteSent(f) PROVE NotedIsDelivered'
  BY <1>8 DEF NoteSent
<1>9. ASSUME NEW f \in Flusher, Link(f) PROVE NotedIsDelivered'
  BY <1>9 DEF Link
<1>10. ASSUME NEW f \in Flusher, LinkTaken(f) PROVE NotedIsDelivered'
  BY <1>10 DEF LinkTaken
<1>11. ASSUME NEW f \in Flusher, Respond(f) PROVE NotedIsDelivered'
  BY <1>11 DEF Respond
<1>12. ASSUME NEW f \in Flusher, RaisesLate(f) PROVE NotedIsDelivered'
  BY <1>12 DEF RaisesLate, Raises
<1>13. ASSUME NEW f \in Flusher, CountAttempts(f) PROVE NotedIsDelivered'
  BY <1>13 DEF CountAttempts
<1>14. ASSUME NEW f \in Flusher, MarkFailed(f) PROVE NotedIsDelivered'
  BY <1>14 DEF MarkFailed
<1>15. ASSUME NEW f \in Flusher, Crash(f) PROVE NotedIsDelivered'
  BY <1>15 DEF Crash, AgentStops, Prepared
<1>16. ASSUME NEW f \in Flusher, ListPending(f)
     PROVE  NotedIsDelivered'
  BY <1>16 DEF ListPending, Round
<1>17. ASSUME (\E r \in Rows : Enqueue(r)) \/ Shelve \/ NoteShelved \/ UNCHANGED vars
     PROVE  NotedIsDelivered'
  BY <1>17 DEF Enqueue, Shelve, NoteShelved, Prepared, vars
<1>18. QED
  BY <1>1, <1>2, <1>3, <1>4, <1>5, <1>6, <1>7, <1>8, <1>9, <1>10, <1>11, <1>12, <1>13,
  <1>14, <1>15, <1>16, <1>17 DEF Next, MailStep, FlushStep, FaultStep

\* Links stay.
LEMMA StepRespondedIsLinked == IInv /\ [Next]_vars => RespondedIsLinked'
<1> SUFFICES ASSUME IInv, [Next]_vars PROVE RespondedIsLinked'
  OBVIOUS
<1> USE DEF IInv, Flusher, Goto, RespondedIsLinked, TypeOK
<1>1. ASSUME NEW r \in Rows, AskResults(r) PROVE RespondedIsLinked'
  BY <1>1 DEF AskResults
<1>2. ASSUME CheckFile PROVE RespondedIsLinked'
  BY <1>2 DEF CheckFile
<1>3. ASSUME QueueResults PROVE RespondedIsLinked'
  BY <1>3 DEF QueueResults
<1>4. ASSUME NEW f \in Flusher, TakeRow(f) PROVE RespondedIsLinked'
  BY <1>4 DEF TakeRow
<1>5. ASSUME NEW f \in Flusher, Send(f) PROVE RespondedIsLinked'
  BY <1>5 DEF Send, Delivered
<1>6. ASSUME NEW f \in Flusher, FileIsGone(f) PROVE RespondedIsLinked'
  BY <1>6 DEF FileIsGone
<1>7. ASSUME NEW f \in Flusher, SendRaises(f) PROVE RespondedIsLinked'
  BY <1>7 DEF SendRaises, Raises, Delivered
<1>8. ASSUME NEW f \in Flusher, NoteSent(f) PROVE RespondedIsLinked'
  BY <1>8 DEF NoteSent
<1>9. ASSUME NEW f \in Flusher, Link(f) PROVE RespondedIsLinked'
  BY <1>9 DEF Link
<1>10. ASSUME NEW f \in Flusher, LinkTaken(f) PROVE RespondedIsLinked'
  BY <1>10 DEF LinkTaken
<1>11. ASSUME NEW f \in Flusher, Respond(f) PROVE RespondedIsLinked'
  BY <1>11 DEF Respond
<1>12. ASSUME NEW f \in Flusher, RaisesLate(f) PROVE RespondedIsLinked'
  BY <1>12 DEF RaisesLate, Raises
<1>13. ASSUME NEW f \in Flusher, CountAttempts(f) PROVE RespondedIsLinked'
  BY <1>13 DEF CountAttempts
<1>14. ASSUME NEW f \in Flusher, MarkFailed(f) PROVE RespondedIsLinked'
  BY <1>14 DEF MarkFailed
<1>15. ASSUME NEW f \in Flusher, Crash(f) PROVE RespondedIsLinked'
  BY <1>15 DEF Crash, AgentStops, Prepared
<1>16. ASSUME NEW f \in Flusher, ListPending(f)
     PROVE  RespondedIsLinked'
  BY <1>16 DEF ListPending, Round
<1>17. ASSUME (\E r \in Rows : Enqueue(r)) \/ Shelve \/ NoteShelved \/ UNCHANGED vars
     PROVE  RespondedIsLinked'
  BY <1>17 DEF Enqueue, Shelve, NoteShelved, Prepared, vars
<1>18. QED
  BY <1>1, <1>2, <1>3, <1>4, <1>5, <1>6, <1>7, <1>8, <1>9, <1>10, <1>11, <1>12, <1>13,
  <1>14, <1>15, <1>16, <1>17 DEF Next, MailStep, FlushStep, FaultStep

\* Two loops that count in one column lose counts, but never invent one.
LEMMA StepAttemptsAreRaised == IInv /\ [Next]_vars => AttemptsAreRaised'
<1> SUFFICES ASSUME IInv, [Next]_vars PROVE AttemptsAreRaised'
  OBVIOUS
<1> USE DEF IInv, Flusher, Goto, transcript, faults, AttemptsAreRaised,
            TypeOK, Uncounted, NamedIsThere, Readable, PreparedIsFresh,
            FreshIsUntouched, Sending
<1>1. ASSUME NEW r \in Rows, AskResults(r) PROVE AttemptsAreRaised'
  BY <1>1 DEF AskResults
<1>2. ASSUME CheckFile PROVE AttemptsAreRaised'
  BY <1>2 DEF CheckFile
<1>3. ASSUME QueueResults PROVE AttemptsAreRaised'
  BY <1>3 DEF QueueResults
<1>4. ASSUME Shelve PROVE AttemptsAreRaised'
  BY <1>4 DEF Shelve
<1>5. ASSUME NEW f \in Flusher, TakeRow(f) PROVE AttemptsAreRaised'
  BY <1>5 DEF TakeRow
<1>6. ASSUME NEW f \in Flusher, Send(f) PROVE AttemptsAreRaised'
  BY <1>6 DEF Send, Delivered
<1>7. ASSUME NEW f \in Flusher, FileIsGone(f) PROVE AttemptsAreRaised'
  BY <1>7 DEF FileIsGone
<1>8. ASSUME NEW f \in Flusher, SendRaises(f) PROVE AttemptsAreRaised'
  BY <1>8 DEF SendRaises, Raises, Delivered
<1>9. ASSUME NEW f \in Flusher, NoteSent(f) PROVE AttemptsAreRaised'
  BY <1>9 DEF NoteSent
<1>10. ASSUME NEW f \in Flusher, Link(f) PROVE AttemptsAreRaised'
  BY <1>10 DEF Link
<1>11. ASSUME NEW f \in Flusher, LinkTaken(f) PROVE AttemptsAreRaised'
  BY <1>11 DEF LinkTaken
<1>12. ASSUME NEW f \in Flusher, Respond(f) PROVE AttemptsAreRaised'
  BY <1>12 DEF Respond
<1>13. ASSUME NEW f \in Flusher, RaisesLate(f) PROVE AttemptsAreRaised'
  BY <1>13 DEF RaisesLate, Raises
<1>14. ASSUME NEW f \in Flusher, CountAttempts(f) PROVE AttemptsAreRaised'
  BY <1>14 DEF CountAttempts
<1>15. ASSUME NEW f \in Flusher, MarkFailed(f) PROVE AttemptsAreRaised'
  BY <1>15 DEF MarkFailed
<1>16. ASSUME NEW f \in Flusher, Crash(f) PROVE AttemptsAreRaised'
  BY <1>16 DEF Crash, AgentStops, Prepared
<1>17. ASSUME NEW f \in Flusher, ListPending(f)
     PROVE  AttemptsAreRaised'
  BY <1>17 DEF ListPending, Round
<1>18. ASSUME (\E r \in Rows : Enqueue(r)) \/ NoteShelved \/ UNCHANGED vars
     PROVE  AttemptsAreRaised'
  BY <1>18 DEF Enqueue, NoteShelved, Prepared, vars
<1>19. QED
  BY <1>1, <1>2, <1>3, <1>4, <1>5, <1>6, <1>7, <1>8, <1>9, <1>10, <1>11, <1>12, <1>13,
  <1>14, <1>15, <1>16, <1>17, <1>18 DEF Next, MailStep, FlushStep, FaultStep

\* A file is moved once, and the mails that named it are known.
LEMMA StepNamedIsThere == IInv /\ [Next]_vars => NamedIsThere'
<1> SUFFICES ASSUME IInv, [Next]_vars PROVE NamedIsThere'
  OBVIOUS
<1> USE DEF IInv, Flusher, Goto, transcript, NamedIsThere, Readable,
            TypeOK
<1>1. ASSUME CheckFile PROVE NamedIsThere'
  BY <1>1 DEF CheckFile
<1>2. ASSUME Shelve PROVE NamedIsThere'
  BY <1>2 DEF Shelve
<1>3. ASSUME NoteShelved PROVE NamedIsThere'
  BY <1>3 DEF NoteShelved
<1>4. ASSUME NEW f \in Flusher, Crash(f) PROVE NamedIsThere'
  BY <1>4 DEF Crash, AgentStops, Prepared
<1>5. ASSUME NEW f \in Flusher, ListPending(f) \/ TakeRow(f) \/ Send(f) \/ FileIsGone(f) \/
            SendRaises(f) \/ NoteSent(f) \/ Link(f) \/ LinkTaken(f) \/ Respond(f)
            \/ RaisesLate(f) \/ CountAttempts(f) \/ MarkFailed(f)
     PROVE  NamedIsThere'
  BY <1>5 DEF ListPending, TakeRow, Send, FileIsGone, SendRaises, NoteSent, Link,
              LinkTaken, Respond, RaisesLate, CountAttempts, MarkFailed, Round,
              Delivered, Raises
<1>6. ASSUME (\E r \in Rows : Enqueue(r)) \/ (\E r \in Rows : AskResults(r)) \/
            QueueResults \/ UNCHANGED vars
     PROVE  NamedIsThere'
  BY <1>6 DEF Enqueue, AskResults, QueueResults, Prepared, vars
<1>7. QED
  BY <1>1, <1>2, <1>3, <1>4, <1>5, <1>6 DEF Next, MailStep, FlushStep, FaultStep

\* A copy too many is counted, or its row SENT, when the loop turns away from it.
LEMMA StepRestingCopies == IInv /\ [Next]_vars => RestingCopies'
<1> SUFFICES ASSUME IInv, [Next]_vars PROVE RestingCopies'
  OBVIOUS
<1> USE DEF IInv, Flusher, Goto, faults, RestingCopies, SendingCopies,
            BatchIsPending, TypeOK, Sending, WeeklyIsApart,
            PreparedIsFresh
<1>1. ASSUME NEW r \in Rows, Enqueue(r) PROVE RestingCopies'
  BY <1>1 DEF Enqueue, Prepared
<1>2. ASSUME NEW r \in Rows, AskResults(r) PROVE RestingCopies'
  BY <1>2 DEF AskResults
<1>3. ASSUME CheckFile PROVE RestingCopies'
  BY <1>3 DEF CheckFile
<1>4. ASSUME QueueResults PROVE RestingCopies'
  BY <1>4 DEF QueueResults
<1>5. ASSUME NEW f \in Flusher, TakeRow(f) PROVE RestingCopies'
  BY <1>5 DEF TakeRow
<1>6. ASSUME NEW f \in Flusher, Send(f) PROVE RestingCopies'
  BY <1>6 DEF Send, Delivered
<1>7. ASSUME NEW f \in Flusher, FileIsGone(f) PROVE RestingCopies'
  BY <1>7 DEF FileIsGone
<1>8. ASSUME NEW f \in Flusher, SendRaises(f) PROVE RestingCopies'
  BY <1>8 DEF SendRaises, Raises, Delivered
<1>9. ASSUME NEW f \in Flusher, NoteSent(f) PROVE RestingCopies'
  BY <1>9 DEF NoteSent
<1>10. ASSUME NEW f \in Flusher, Link(f) PROVE RestingCopies'
  BY <1>10 DEF Link
<1>11. ASSUME NEW f \in Flusher, LinkTaken(f) PROVE RestingCopies'
  BY <1>11 DEF LinkTaken
<1>12. ASSUME NEW f \in Flusher, Respond(f) PROVE RestingCopies'
  BY <1>12 DEF Respond
<1>13. ASSUME NEW f \in Flusher, RaisesLate(f) PROVE RestingCopies'
  BY <1>13 DEF RaisesLate, Raises
<1>14. ASSUME NEW f \in Flusher, CountAttempts(f) PROVE RestingCopies'
  BY <1>14 DEF CountAttempts
<1>15. ASSUME NEW f \in Flusher, MarkFailed(f) PROVE RestingCopies'
  BY <1>15 DEF MarkFailed
<1>16. ASSUME NEW f \in Flusher, Crash(f) PROVE RestingCopies'
  BY <1>16 DEF Crash, AgentStops, Prepared
<1>17. ASSUME NEW f \in Flusher, ListPending(f)
     PROVE  RestingCopies'
  BY <1>17 DEF ListPending, Round
<1>18. ASSUME Shelve \/ NoteShelved \/ UNCHANGED vars
     PROVE  RestingCopies'
  BY <1>18 DEF Shelve, NoteShelved, vars
<1>19. QED
  BY <1>1, <1>2, <1>3, <1>4, <1>5, <1>6, <1>7, <1>8, <1>9, <1>10, <1>11, <1>12, <1>13,
  <1>14, <1>15, <1>16, <1>17, <1>18 DEF Next, MailStep, FlushStep, FaultStep

\* At each statement the loop is one copy ahead of its count at most.
LEMMA StepSendingCopies == IInv /\ [Next]_vars => SendingCopies'
<1> SUFFICES ASSUME IInv, [Next]_vars PROVE SendingCopies'
  OBVIOUS
<1> USE DEF IInv, Flusher, Goto, faults, RestingCopies, SendingCopies,
            BatchIsPending, TypeOK, Sending, WeeklyIsApart,
            PreparedIsFresh
<1>1. ASSUME NEW r \in Rows, Enqueue(r) PROVE SendingCopies'
  BY <1>1 DEF Enqueue, Prepared
<1>2. ASSUME NEW r \in Rows, AskResults(r) PROVE SendingCopies'
  BY <1>2 DEF AskResults
<1>3. ASSUME CheckFile PROVE SendingCopies'
  BY <1>3 DEF CheckFile
<1>4. ASSUME QueueResults PROVE SendingCopies'
  BY <1>4 DEF QueueResults
<1>5. ASSUME NEW f \in Flusher, TakeRow(f) PROVE SendingCopies'
  BY <1>5 DEF TakeRow
<1>6. ASSUME NEW f \in Flusher, Send(f) PROVE SendingCopies'
  BY <1>6 DEF Send, Delivered
<1>7. ASSUME NEW f \in Flusher, FileIsGone(f) PROVE SendingCopies'
  BY <1>7 DEF FileIsGone
<1>8. ASSUME NEW f \in Flusher, SendRaises(f) PROVE SendingCopies'
  BY <1>8 DEF SendRaises, Raises, Delivered
<1>9. ASSUME NEW f \in Flusher, NoteSent(f) PROVE SendingCopies'
  BY <1>9 DEF NoteSent
<1>10. ASSUME NEW f \in Flusher, Link(f) PROVE SendingCopies'
  BY <1>10 DEF Link
<1>11. ASSUME NEW f \in Flusher, LinkTaken(f) PROVE SendingCopies'
  BY <1>11 DEF LinkTaken
<1>12. ASSUME NEW f \in Flusher, Respond(f) PROVE SendingCopies'
  BY <1>12 DEF Respond
<1>13. ASSUME NEW f \in Flusher, RaisesLate(f) PROVE SendingCopies'
  BY <1>13 DEF RaisesLate, Raises
<1>14. ASSUME NEW f \in Flusher, CountAttempts(f) PROVE SendingCopies'
  BY <1>14 DEF CountAttempts
<1>15. ASSUME NEW f \in Flusher, MarkFailed(f) PROVE SendingCopies'
  BY <1>15 DEF MarkFailed
<1>16. ASSUME NEW f \in Flusher, Crash(f) PROVE SendingCopies'
  BY <1>16 DEF Crash, AgentStops, Prepared
<1>17. ASSUME NEW f \in Flusher, ListPending(f)
     PROVE  SendingCopies'
  BY <1>17 DEF ListPending, Round
<1>18. ASSUME Shelve \/ NoteShelved \/ UNCHANGED vars
     PROVE  SendingCopies'
  BY <1>18 DEF Shelve, NoteShelved, vars
<1>19. QED
  BY <1>1, <1>2, <1>3, <1>4, <1>5, <1>6, <1>7, <1>8, <1>9, <1>10, <1>11, <1>12, <1>13,
  <1>14, <1>15, <1>16, <1>17, <1>18 DEF Next, MailStep, FlushStep, FaultStep

\* Nobody settles a row that its only loop has yet to take.
LEMMA StepBatchIsPending == IInv /\ [Next]_vars => BatchIsPending'
<1> SUFFICES ASSUME IInv, [Next]_vars PROVE BatchIsPending'
  OBVIOUS
<1> USE DEF IInv, Flusher, Goto, BatchIsPending, TypeOK, Sending,
            WeeklyIsApart, PreparedIsFresh, FreshIsUntouched, Handles
<1>1. ASSUME NEW r \in Rows, Enqueue(r) PROVE BatchIsPending'
  BY <1>1 DEF Enqueue, Prepared
<1>2. ASSUME NEW r \in Rows, AskResults(r) PROVE BatchIsPending'
  BY <1>2 DEF AskResults
<1>3. ASSUME CheckFile PROVE BatchIsPending'
  BY <1>3 DEF CheckFile
<1>4. ASSUME QueueResults PROVE BatchIsPending'
  BY <1>4 DEF QueueResults
<1>5. ASSUME NEW f \in Flusher, ListPending(f) PROVE BatchIsPending'
  BY <1>5 DEF ListPending, Round
<1>6. ASSUME NEW f \in Flusher, TakeRow(f) PROVE BatchIsPending'
  BY <1>6 DEF TakeRow
<1>7. ASSUME NEW f \in Flusher, Send(f) PROVE BatchIsPending'
  BY <1>7 DEF Send, Delivered
<1>8. ASSUME NEW f \in Flusher, FileIsGone(f) PROVE BatchIsPending'
  BY <1>8 DEF FileIsGone
<1>9. ASSUME NEW f \in Flusher, SendRaises(f) PROVE BatchIsPending'
  BY <1>9 DEF SendRaises, Raises, Delivered
<1>10. ASSUME NEW f \in Flusher, NoteSent(f) PROVE BatchIsPending'
  BY <1>10 DEF NoteSent
<1>11. ASSUME NEW f \in Flusher, Link(f) PROVE BatchIsPending'
  BY <1>11 DEF Link
<1>12. ASSUME NEW f \in Flusher, LinkTaken(f) PROVE BatchIsPending'
  BY <1>12 DEF LinkTaken
<1>13. ASSUME NEW f \in Flusher, Respond(f) PROVE BatchIsPending'
  BY <1>13 DEF Respond
<1>14. ASSUME NEW f \in Flusher, RaisesLate(f) PROVE BatchIsPending'
  BY <1>14 DEF RaisesLate, Raises
<1>15. ASSUME NEW f \in Flusher, CountAttempts(f) PROVE BatchIsPending'
  BY <1>15 DEF CountAttempts
<1>16. ASSUME NEW f \in Flusher, MarkFailed(f) PROVE BatchIsPending'
  BY <1>16 DEF MarkFailed
<1>17. ASSUME NEW f \in Flusher, Crash(f) PROVE BatchIsPending'
  BY <1>17 DEF Crash, AgentStops, Prepared
<1>18. ASSUME Shelve \/ NoteShelved \/ UNCHANGED vars
     PROVE  BatchIsPending'
  BY <1>18 DEF Shelve, NoteShelved, vars
<1>19. QED
  BY <1>1, <1>2, <1>3, <1>4, <1>5, <1>6, <1>7, <1>8, <1>9, <1>10, <1>11, <1>12, <1>13,
  <1>14, <1>15, <1>16, <1>17, <1>18 DEF Next, MailStep, FlushStep, FaultStep

\* The worker moves the file and tells the row, and nobody else does.
LEMMA StepFileFollowsTail == IInv /\ [Next]_vars => FileFollowsTail'
<1> SUFFICES ASSUME IInv, [Next]_vars PROVE FileFollowsTail'
  OBVIOUS
<1> USE DEF IInv, Flusher, Goto, transcript, faults, FileFollowsTail,
            TypeOK, Place
<1>1. ASSUME NEW r \in Rows, AskResults(r) PROVE FileFollowsTail'
  BY <1>1 DEF AskResults
<1>2. ASSUME CheckFile PROVE FileFollowsTail'
  BY <1>2 DEF CheckFile
<1>3. ASSUME QueueResults PROVE FileFollowsTail'
  BY <1>3 DEF QueueResults
<1>4. ASSUME Shelve PROVE FileFollowsTail'
  BY <1>4 DEF Shelve
<1>5. ASSUME NoteShelved PROVE FileFollowsTail'
  BY <1>5 DEF NoteShelved
<1>6. ASSUME NEW f \in Flusher, TakeRow(f) PROVE FileFollowsTail'
  BY <1>6 DEF TakeRow
<1>7. ASSUME NEW f \in Flusher, Send(f) PROVE FileFollowsTail'
  BY <1>7 DEF Send, Delivered
<1>8. ASSUME NEW f \in Flusher, FileIsGone(f) PROVE FileFollowsTail'
  BY <1>8 DEF FileIsGone
<1>9. ASSUME NEW f \in Flusher, SendRaises(f) PROVE FileFollowsTail'
  BY <1>9 DEF SendRaises, Raises, Delivered
<1>10. ASSUME NEW f \in Flusher, NoteSent(f) PROVE FileFollowsTail'
  BY <1>10 DEF NoteSent
<1>11. ASSUME NEW f \in Flusher, Link(f) PROVE FileFollowsTail'
  BY <1>11 DEF Link
<1>12. ASSUME NEW f \in Flusher, LinkTaken(f) PROVE FileFollowsTail'
  BY <1>12 DEF LinkTaken
<1>13. ASSUME NEW f \in Flusher, Respond(f) PROVE FileFollowsTail'
  BY <1>13 DEF Respond
<1>14. ASSUME NEW f \in Flusher, RaisesLate(f) PROVE FileFollowsTail'
  BY <1>14 DEF RaisesLate, Raises
<1>15. ASSUME NEW f \in Flusher, CountAttempts(f) PROVE FileFollowsTail'
  BY <1>15 DEF CountAttempts
<1>16. ASSUME NEW f \in Flusher, MarkFailed(f) PROVE FileFollowsTail'
  BY <1>16 DEF MarkFailed
<1>17. ASSUME NEW f \in Flusher, Crash(f) PROVE FileFollowsTail'
  BY <1>17 DEF Crash, AgentStops, Prepared
<1>18. ASSUME NEW f \in Flusher, ListPending(f)
     PROVE  FileFollowsTail'
  BY <1>18 DEF ListPending, Round
<1>19. ASSUME (\E r \in Rows : Enqueue(r)) \/ UNCHANGED vars
     PROVE  FileFollowsTail'
  BY <1>19 DEF Enqueue, Prepared, vars
<1>20. QED
  BY <1>1, <1>2, <1>3, <1>4, <1>5, <1>6, <1>7, <1>8, <1>9, <1>10, <1>11, <1>12, <1>13,
  <1>14, <1>15, <1>16, <1>17, <1>18, <1>19 DEF Next, MailStep, FlushStep, FaultStep

\* SENT is written after the copy is out.
LEMMA StepSentIsDelivered == IInv /\ [Next]_vars => SentIsDelivered'
<1> SUFFICES ASSUME IInv, [Next]_vars PROVE SentIsDelivered'
  OBVIOUS
<1> USE DEF IInv, Flusher, Goto, SentIsDelivered, NotedIsDelivered,
            Copies, TypeOK
<1>1. ASSUME NEW r \in Rows, Enqueue(r) PROVE SentIsDelivered'
  BY <1>1 DEF Enqueue, Prepared
<1>2. ASSUME QueueResults PROVE SentIsDelivered'
  BY <1>2 DEF QueueResults
<1>3. ASSUME NEW f \in Flusher, Send(f) PROVE SentIsDelivered'
  BY <1>3 DEF Send, Delivered
<1>4. ASSUME NEW f \in Flusher, SendRaises(f) PROVE SentIsDelivered'
  BY <1>4 DEF SendRaises, Raises, Delivered
<1>5. ASSUME NEW f \in Flusher, NoteSent(f) PROVE SentIsDelivered'
  BY <1>5 DEF NoteSent
<1>6. ASSUME NEW f \in Flusher, MarkFailed(f) PROVE SentIsDelivered'
  BY <1>6 DEF MarkFailed
<1>7. ASSUME NEW f \in Flusher, ListPending(f) \/ TakeRow(f) \/ FileIsGone(f) \/ Link(f) \/
            LinkTaken(f) \/ Respond(f) \/ RaisesLate(f) \/ CountAttempts(f) \/
            Crash(f)
     PROVE  SentIsDelivered'
  BY <1>7 DEF ListPending, TakeRow, FileIsGone, Link, LinkTaken, Respond,
              RaisesLate, CountAttempts, Crash, Round, Raises, AgentStops, Prepared
<1>8. ASSUME (\E r \in Rows : AskResults(r)) \/ CheckFile \/ Shelve \/ NoteShelved
            \/ UNCHANGED vars
     PROVE  SentIsDelivered'
  BY <1>8 DEF AskResults, CheckFile, Shelve, NoteShelved, vars
<1>9. QED
  BY <1>1, <1>2, <1>3, <1>4, <1>5, <1>6, <1>7, <1>8 DEF Next, MailStep, FlushStep,
  FaultStep

\* Between SENT and the link there is only a crash, or another loop.
LEMMA StepSentIsLinked == IInv /\ [Next]_vars => SentIsLinked'
<1> SUFFICES ASSUME IInv, [Next]_vars PROVE SentIsLinked'
  OBVIOUS
<1> USE DEF IInv, Flusher, Goto, faults, SentIsLinked, Underway,
            RespondedIsLinked, TypeOK
<1>1. ASSUME NEW r \in Rows, Enqueue(r) PROVE SentIsLinked'
  BY <1>1 DEF Enqueue, Prepared
<1>2. ASSUME NEW r \in Rows, AskResults(r) PROVE SentIsLinked'
  BY <1>2 DEF AskResults
<1>3. ASSUME CheckFile PROVE SentIsLinked'
  BY <1>3 DEF CheckFile
<1>4. ASSUME QueueResults PROVE SentIsLinked'
  BY <1>4 DEF QueueResults
<1>5. ASSUME NEW f \in Flusher, TakeRow(f) PROVE SentIsLinked'
  BY <1>5 DEF TakeRow
<1>6. ASSUME NEW f \in Flusher, Send(f) PROVE SentIsLinked'
  BY <1>6 DEF Send, Delivered
<1>7. ASSUME NEW f \in Flusher, FileIsGone(f) PROVE SentIsLinked'
  BY <1>7 DEF FileIsGone
<1>8. ASSUME NEW f \in Flusher, SendRaises(f) PROVE SentIsLinked'
  BY <1>8 DEF SendRaises, Raises, Delivered
<1>9. ASSUME NEW f \in Flusher, NoteSent(f) PROVE SentIsLinked'
  BY <1>9 DEF NoteSent
<1>10. ASSUME NEW f \in Flusher, Link(f) PROVE SentIsLinked'
  BY <1>10 DEF Link
<1>11. ASSUME NEW f \in Flusher, LinkTaken(f) PROVE SentIsLinked'
  BY <1>11 DEF LinkTaken
<1>12. ASSUME NEW f \in Flusher, Respond(f) PROVE SentIsLinked'
  BY <1>12 DEF Respond
<1>13. ASSUME NEW f \in Flusher, RaisesLate(f) PROVE SentIsLinked'
  BY <1>13 DEF RaisesLate, Raises
<1>14. ASSUME NEW f \in Flusher, CountAttempts(f) PROVE SentIsLinked'
  BY <1>14 DEF CountAttempts
<1>15. ASSUME NEW f \in Flusher, MarkFailed(f) PROVE SentIsLinked'
  BY <1>15 DEF MarkFailed
<1>16. ASSUME NEW f \in Flusher, Crash(f) PROVE SentIsLinked'
  BY <1>16 DEF Crash, AgentStops, Prepared
<1>17. ASSUME NEW f \in Flusher, ListPending(f)
     PROVE  SentIsLinked'
  BY <1>17 DEF ListPending, Round
<1>18. ASSUME Shelve \/ NoteShelved \/ UNCHANGED vars
     PROVE  SentIsLinked'
  BY <1>18 DEF Shelve, NoteShelved, vars
<1>19. QED
  BY <1>1, <1>2, <1>3, <1>4, <1>5, <1>6, <1>7, <1>8, <1>9, <1>10, <1>11, <1>12, <1>13,
  <1>14, <1>15, <1>16, <1>17, <1>18 DEF Next, MailStep, FlushStep, FaultStep

\* FAILED is written when MaxAttempts exceptions have been counted.
LEMMA StepGivenUpIsEarned == IInv /\ [Next]_vars => GivenUpIsEarned'
<1> SUFFICES ASSUME IInv, [Next]_vars PROVE GivenUpIsEarned'
  OBVIOUS
<1> USE OutboxAssumption DEF IInv, Flusher, Goto, transcript, faults, GivenUpIsEarned,
                             NamedIsThere, Readable, AttemptsAreRaised, Uncounted,
                             TypeOK, PreparedIsFresh, FreshIsUntouched, Prepared, Sending
<1>1. ASSUME NEW r \in Rows, Enqueue(r) PROVE GivenUpIsEarned'
  BY <1>1 DEF Enqueue
<1>2. ASSUME QueueResults PROVE GivenUpIsEarned'
  BY <1>2 DEF QueueResults
<1>3. ASSUME Shelve PROVE GivenUpIsEarned'
  BY <1>3 DEF Shelve
<1>4. ASSUME NEW f \in Flusher, SendRaises(f) PROVE GivenUpIsEarned'
  BY <1>4 DEF SendRaises, Raises, Delivered
<1>5. ASSUME NEW f \in Flusher, NoteSent(f) PROVE GivenUpIsEarned'
  BY <1>5 DEF NoteSent
<1>6. ASSUME NEW f \in Flusher, Link(f) PROVE GivenUpIsEarned'
  BY <1>6 DEF Link
<1>7. ASSUME NEW f \in Flusher, RaisesLate(f) PROVE GivenUpIsEarned'
  BY <1>7 DEF RaisesLate, Raises
<1>8. ASSUME NEW f \in Flusher, MarkFailed(f) PROVE GivenUpIsEarned'
  BY <1>8 DEF MarkFailed
<1>9. ASSUME NEW f \in Flusher, Crash(f) PROVE GivenUpIsEarned'
  BY <1>9 DEF Crash, AgentStops
<1>10. ASSUME NEW f \in Flusher, ListPending(f) \/ TakeRow(f) \/ Send(f) \/ FileIsGone(f) \/
            LinkTaken(f) \/ Respond(f) \/ CountAttempts(f)
     PROVE  GivenUpIsEarned'
  BY <1>10 DEF ListPending, TakeRow, Send, FileIsGone, LinkTaken, Respond,
               CountAttempts, Round, Delivered
<1>11. ASSUME (\E r \in Rows : AskResults(r)) \/ CheckFile \/ NoteShelved \/
            UNCHANGED vars
     PROVE  GivenUpIsEarned'
  BY <1>11 DEF AskResults, CheckFile, NoteShelved, vars
<1>12. QED
  BY <1>1, <1>2, <1>3, <1>4, <1>5, <1>6, <1>7, <1>8, <1>9, <1>10, <1>11 DEF Next,
  MailStep, FlushStep, FaultStep

-----------------------------------------------------------------------------
(* The theorems.                                                           *)

\* Every step preserves the invariant.
LEMMA StepIInv == IInv /\ [Next]_vars => IInv'
BY StepTypeOK, StepFreshIsUntouched, StepPreparedIsFresh, StepWeeklyIsApart,
   StepNotedIsDelivered, StepRespondedIsLinked, StepAttemptsAreRaised, StepNamedIsThere,
   StepRestingCopies, StepSendingCopies, StepBatchIsPending, StepFileFollowsTail,
   StepSentIsDelivered, StepSentIsLinked, StepGivenUpIsEarned DEF IInv

\* What the invariant says of the recipient of a mail of one loop.
LEMMA CopiesFollow == IInv => CopiesAreCounted
<1> SUFFICES ASSUME IInv, NEW r \in Rows \ WeeklyRows
             PROVE  Copies(r) <= attempts[r] + crashes + (IF status[r] = "FAILED" THEN 0 ELSE 1)
  BY DEF CopiesAreCounted
<1>1. /\ Copies(r) = sent["mail"][r] /\ Copies(r) \in Nat
      /\ attempts[r] + crashes \in Nat
  BY DEF IInv, TypeOK, WeeklyIsApart, Copies, Flusher
<1>2. CASE r \in Sending("mail")
  BY <1>1, <1>2 DEF IInv, SendingCopies
<1>3. CASE r \notin Sending("mail")
  BY <1>1, <1>3 DEF IInv, RestingCopies
<1>4. QED
  BY <1>2, <1>3

\* What it says of the mail that is being prepared.
LEMMA TranscriptFollows == IInv => TranscriptIsAttached
BY DEF IInv, TypeOK, FileFollowsTail, TranscriptIsAttached

\* The invariant holds throughout.
THEOREM Invariance == Spec => []IInv
BY InitIInv, StepIInv, PTL DEF Spec

\* The state keeps its shape, and the weekly process to its own rows, whatever
\* is raised and whoever is stopped.
THEOREM OutboxTyped == Spec => []TypeOK
<1>1. IInv => TypeOK
  BY DEF IInv
<1>2. QED
  BY <1>1, Invariance, PTL

\* SENT means that a copy is out, although two loops write the status.
THEOREM SentDelivered == Spec => []SentIsDelivered
<1>1. IInv => SentIsDelivered
  BY DEF IInv
<1>2. QED
  BY <1>1, Invariance, PTL

\* SENT means that replies will find the job, but for a crash inside
\* mark_sent.
THEOREM SentLinked == Spec => []SentIsLinked
<1>1. IInv => SentIsLinked
  BY DEF IInv
<1>2. QED
  BY <1>1, Invariance, PTL

\* However two loops overwrite each other's count, a mail of which no copy is
\* known to be out is given up only after MaxAttempts exceptions, or because
\* its file was moved.
THEOREM GivenUpEarned == Spec => []GivenUpIsEarned
<1>1. IInv => GivenUpIsEarned
  BY DEF IInv
<1>2. QED
  BY <1>1, Invariance, PTL

\* A results mail lacks the transcript only in the window in which the worker
\* moves it, if there was no crash.
THEOREM TranscriptAttached == Spec => []TranscriptIsAttached
BY TranscriptFollows, Invariance, PTL

\* The copies of a mail that one loop sends are bounded by its counted
\* attempts and the crashes.
THEOREM CopiesCounted == Spec => []CopiesAreCounted
BY CopiesFollow, Invariance, PTL
=============================================================================

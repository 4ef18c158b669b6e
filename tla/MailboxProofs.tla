---------------------------- MODULE MailboxProofs ----------------------------
(***************************************************************************)
(* What Mailbox guarantees for every set of messages, every limit of a     *)
(* fetch and any number of deletions by another mail program.              *)
(***************************************************************************)
EXTENDS Mailbox, SequenceTheorems, FiniteSetTheorems, TLAPS

\* The mailbox is finite, and nothing is fetched or handled that never arrived.
OnlyArrived ==
  /\ IsFiniteSet(arrived) /\ deletes \in Nat
  /\ \A f \in batch : f.msg \in arrived
  /\ at # "idle" => on.msg \in arrived
  /\ at = "handle" => on.msg \in begun

\* The name by which a fetched message will be marked is still its own.
Named(f) ==
  IF provider = "imap" THEN f.ref \in DOMAIN box /\ box[f.ref] = f.msg ELSE f.ref = f.msg

NamesAreTrue ==
  \/ Shifted
  \/ (\A f \in batch : Named(f)) /\ (at # "idle" => Named(on))

\* What the ledger has a final outcome for has been handled, by whichever name
\* the ledger knows it.
LedgerIsHandled ==
  Shifted \/ \A key \in ledger :
    /\ key \in Messages => key \in handled
    /\ key \in Nat => provider = "imap" /\ key \in DOMAIN box /\ box[key] \in handled

\* What is about to be marked has been handled.
MarkedIsHandled == Shifted \/ (at = "mark" => on.msg \in handled)

\* With Graph, a message older than one in the list has been begun, or stands
\* before it in the list.
BatchIsOldest ==
  provider = "graph" =>
    \A f \in batch : \A i, j \in DOMAIN box :
      i < j /\ box[j] = f.msg =>
        box[i] \in begun \/ \E g \in batch : g.msg = box[i] /\ g.place < f.place

IInv ==
  /\ TypeOK /\ OnlyArrived
  /\ NamesAreTrue /\ LedgerIsHandled /\ MarkedIsHandled /\ BatchIsOldest
  /\ SeenIsHandled /\ OldestFirst
-----------------------------------------------------------------------------
(* Lemmas.                                                                 *)

\* What the places of the mailbox are.
LEMMA Places ==
  ASSUME TypeOK
  PROVE  /\ DOMAIN box = 1..Len(box) /\ Len(box) \in Nat
         /\ \A i \in DOMAIN box : box[i] \in arrived /\ box[i] \in Messages
         /\ \A i, j \in DOMAIN box : box[i] = box[j] => i = j
BY DEF TypeOK, IsInjective

\* One more message leaves the places of the others as they are.
LEMMA Appended ==
  ASSUME TypeOK, NEW m \in Messages \ arrived, box' = Append(box, m)
  PROVE  /\ box' \in Seq(arrived \cup {m}) /\ Len(box') = Len(box) + 1
         /\ DOMAIN box' = 1..(Len(box) + 1)
         /\ \A i \in DOMAIN box : i \in DOMAIN box' /\ box'[i] = box[i]
         /\ box'[Len(box) + 1] = m
<1>1. box \in Seq(arrived \cup {m})
  BY SeqMonotonic, arrived \subseteq arrived \cup {m} DEF TypeOK
<1>2. /\ box' \in Seq(arrived \cup {m}) /\ Len(box') = Len(box) + 1
      /\ \A i \in 1..Len(box) : box'[i] = box[i]
      /\ box'[Len(box) + 1] = m
  BY <1>1, AppendProperties
<1>3. DOMAIN box' = 1..(Len(box) + 1)
  BY <1>2, LenProperties
<1>4. QED
  BY <1>2, <1>3, Places

\* A deletion moves the messages behind it up by one place.
LEMMA Removed ==
  ASSUME TypeOK, NEW i \in DOMAIN box, box' = RemoveAt(box, i)
  PROVE  /\ box' \in Seq(arrived) /\ Len(box') = Len(box) - 1
         /\ DOMAIN box' = 1..(Len(box) - 1)
         /\ \A k \in DOMAIN box' : box'[k] = box[IF k < i THEN k ELSE k + 1]
<1> DEFINE front == SubSeq(box, 1, i - 1)
           back  == SubSeq(box, i + 1, Len(box))
<1>1. /\ i \in 1..Len(box) /\ Len(box) \in Nat
      /\ \A k \in 1..Len(box) : box[k] \in arrived
  BY Places
<1>2. /\ front \in Seq(arrived) /\ Len(front) = i - 1
      /\ \A k \in 1..(i - 1) : front[k] = box[k]
  <2>1. \A k \in 1..(i - 1) : box[k] \in arrived
    BY <1>1
  <2>2. /\ front \in Seq(arrived)
        /\ Len(front) = IF 1 <= i - 1 THEN (i - 1) - 1 + 1 ELSE 0
        /\ \A k \in 1..((i - 1) - 1 + 1) : front[k] = box[1 + k - 1]
    BY <1>1, <2>1, SubSeqProperties
  <2>3. QED
    BY <1>1, <2>2
<1>3. /\ back \in Seq(arrived) /\ Len(back) = Len(box) - i
      /\ \A k \in 1..(Len(box) - i) : back[k] = box[i + k]
  <2>1. \A k \in (i + 1)..Len(box) : box[k] \in arrived
    BY <1>1
  <2>2. /\ back \in Seq(arrived)
        /\ Len(back) = IF i + 1 <= Len(box) THEN Len(box) - (i + 1) + 1 ELSE 0
        /\ \A k \in 1..(Len(box) - (i + 1) + 1) : back[k] = box[(i + 1) + k - 1]
    BY <1>1, <2>1, SubSeqProperties
  <2>3. QED
    BY <1>1, <2>2
<1>4. box' = front \o back
  BY DEF RemoveAt
<1> HIDE DEF front, back
<1>5. /\ box' \in Seq(arrived) /\ Len(box') = Len(front) + Len(back)
      /\ \A k \in 1..(Len(front) + Len(back)) :
           box'[k] = IF k <= Len(front) THEN front[k] ELSE back[k - Len(front)]
  BY <1>2, <1>3, <1>4, ConcatProperties
<1>6. Len(box') = Len(box) - 1 /\ DOMAIN box' = 1..(Len(box) - 1)
  BY <1>1, <1>2, <1>3, <1>5, LenProperties
<1>7. ASSUME NEW k \in DOMAIN box' PROVE box'[k] = box[IF k < i THEN k ELSE k + 1]
  <2>1. CASE k < i
    BY <1>1, <1>2, <1>3, <1>5, <1>6, <2>1
  <2>2. CASE ~(k < i)
    <3>1. k - (i - 1) \in 1..(Len(box) - i) /\ i + (k - (i - 1)) = k + 1
      BY <1>1, <1>6, <2>2
    <3>2. box'[k] = back[k - (i - 1)]
      BY <1>1, <1>2, <1>3, <1>5, <1>6, <2>2
    <3>3. QED
      BY <1>3, <2>2, <3>1, <3>2
  <2>3. QED
    BY <2>1, <2>2
<1>8. QED
  BY <1>5, <1>6, <1>7

\* Of the unread messages that a fetch lists with Graph, none has an unread
\* one before it that is not listed.
LEMMA ListedIsInitial ==
  ASSUME TypeOK, provider = "graph", NEW i \in Unread, NEW j \in Unread, i < j,
         Cardinality({k \in Unread : Before(k, j)}) < Limit
  PROVE  Cardinality({k \in Unread : Before(k, i)}) < Limit
<1> DEFINE A == {k \in Unread : Before(k, i)}
           B == {k \in Unread : Before(k, j)}
<1>1. Unread \subseteq 1..Len(box) /\ Len(box) \in Nat
  BY Places DEF Unread
<1>2. A \subseteq B
  <2>1. i \in Int /\ j \in Int /\ \A k \in Unread : k \in Int
    BY <1>1
  <2>2. ASSUME NEW k \in Unread, Before(k, i) PROVE Before(k, j)
    BY <2>1, <2>2 DEF Before
  <2>3. QED
    BY <2>2
<1>3. IsFiniteSet(B)
  <2>1. IsFiniteSet(1..Len(box))
    BY <1>1, FS_Interval
  <2>2. QED
    BY <1>1, <2>1, FS_Subset
<1>4. Cardinality(A) <= Cardinality(B) /\ Cardinality(A) \in Nat /\ Cardinality(B) \in Nat
  BY <1>2, <1>3, FS_Subset, FS_CardinalityType
<1>5. QED
  BY <1>4, MailboxAssumption
-----------------------------------------------------------------------------
(* The invariant is inductive.                                             *)

\* It holds at the start.
LEMMA InitIInv == Init => IInv
<1> SUFFICES ASSUME Init PROVE IInv
  OBVIOUS
<1> USE DEF Init
<1>1. TypeOK
  <2>1. (CHOOSE m \in Messages : TRUE) \in Messages
    BY MailboxAssumption
  <2>2. Cardinality(arrived) = 0
    BY FS_EmptySet
  <2>3. QED
    BY <2>1, <2>2 DEF TypeOK, Fetched, Label, IsInjective
<1>2. OnlyArrived
  BY FS_EmptySet DEF OnlyArrived
<1>3. NamesAreTrue /\ LedgerIsHandled /\ MarkedIsHandled /\ BatchIsOldest
  BY DEF NamesAreTrue, LedgerIsHandled, MarkedIsHandled, BatchIsOldest
<1>4. SeenIsHandled /\ OldestFirst
  BY DEF SeenIsHandled, OldestFirst
<1>5. QED
  BY <1>1, <1>2, <1>3, <1>4 DEF IInv

\* A message arrives behind all others.
LEMMA ArriveKeeps ==
  ASSUME IInv, NEW m \in Messages, Arrive(m) PROVE IInv'
<1> USE DEF IInv
<1>1. /\ m \in Messages \ arrived /\ arrived' = arrived \cup {m} /\ box' = Append(box, m)
      /\ provider' = provider /\ seen' = seen /\ batch' = batch /\ at' = at /\ on' = on
      /\ ledger' = ledger /\ begun' = begun /\ handled' = handled /\ deletes' = deletes
  BY DEF Arrive
<1>2. /\ DOMAIN box = 1..Len(box) /\ Len(box) \in Nat
      /\ \A i \in DOMAIN box : box[i] \in arrived
      /\ \A i, j \in DOMAIN box : box[i] = box[j] => i = j
  BY Places
<1>3. /\ box' \in Seq(arrived') /\ Len(box') = Len(box) + 1
      /\ DOMAIN box' = 1..(Len(box) + 1)
      /\ \A i \in DOMAIN box : i \in DOMAIN box' /\ box'[i] = box[i]
      /\ box'[Len(box) + 1] = m
  BY <1>1, Appended
<1>4. \A i \in DOMAIN box' : i \in DOMAIN box \/ i = Len(box) + 1
  BY <1>2, <1>3
<1>5. Cardinality(arrived') = Cardinality(arrived) + 1 /\ IsFiniteSet(arrived')
  BY <1>1, FS_AddElement DEF OnlyArrived
<1>6. TypeOK'
  <2>1. IsInjective(box)'
    BY <1>1, <1>2, <1>3, <1>4 DEF IsInjective
  <2>2. Len(box') + deletes' = Cardinality(arrived')
    BY <1>1, <1>2, <1>3, <1>5 DEF TypeOK, OnlyArrived
  <2>3. QED
    BY <1>1, <1>3, <2>1, <2>2 DEF TypeOK
<1>7. OnlyArrived'
  BY <1>1, <1>5 DEF OnlyArrived
<1>8. NamesAreTrue' /\ LedgerIsHandled' /\ MarkedIsHandled' /\ SeenIsHandled'
  BY <1>1, <1>3 DEF NamesAreTrue, Named, LedgerIsHandled, MarkedIsHandled, SeenIsHandled, Shifted
<1>9. OldestFirst'
  <2>1. m \notin begun
    BY <1>1 DEF TypeOK
  <2>2. QED
    BY <1>1, <1>2, <1>3, <1>4, <2>1 DEF OldestFirst
<1>10. BatchIsOldest'
  <2>1. \A f \in batch : f.msg # m
    BY <1>1 DEF OnlyArrived
  <2>2. QED
    BY <1>1, <1>2, <1>3, <1>4, <2>1 DEF BatchIsOldest
<1>11. QED
  BY <1>6, <1>7, <1>8, <1>9, <1>10

\* A deletion keeps the others in order, and with IMAP shifts them.
LEMMA DeleteKeeps ==
  ASSUME IInv, NEW i \in DOMAIN box, Delete(i) PROVE IInv'
<1> USE DEF IInv
<1>1. /\ deletes' = deletes + 1 /\ box' = RemoveAt(box, i) /\ arrived' = arrived
      /\ provider' = provider /\ seen' = seen /\ batch' = batch /\ at' = at /\ on' = on
      /\ ledger' = ledger /\ begun' = begun /\ handled' = handled
  BY DEF Delete
<1>2. /\ DOMAIN box = 1..Len(box) /\ Len(box) \in Nat /\ i \in Nat
      /\ \A k, l \in DOMAIN box : box[k] = box[l] => k = l
  BY Places
<1> DEFINE was(k) == IF k < i THEN k ELSE k + 1
<1>3. /\ box' \in Seq(arrived) /\ Len(box') = Len(box) - 1
      /\ DOMAIN box' = 1..(Len(box) - 1)
      /\ \A k \in DOMAIN box' : box'[k] = box[was(k)]
  BY <1>1, Removed
<1>4. /\ \A k \in DOMAIN box' : was(k) \in DOMAIN box
      /\ \A k, l \in DOMAIN box' : (k < l => was(k) < was(l)) /\ (was(k) = was(l) => k = l)
  BY <1>2, <1>3
<1> HIDE DEF was
<1>5. TypeOK'
  <2>1. IsInjective(box)'
    BY <1>2, <1>3, <1>4 DEF IsInjective
  <2>2. Len(box') + deletes' = Cardinality(arrived')
    BY <1>1, <1>2, <1>3 DEF TypeOK, OnlyArrived
  <2>3. QED
    BY <1>1, <1>3, <2>1, <2>2 DEF TypeOK
<1>6. OnlyArrived'
  BY <1>1 DEF OnlyArrived
<1>7. provider = "graph" \/ Shifted'
  BY <1>1, MailboxAssumption DEF TypeOK, OnlyArrived, Shifted
<1>8. NamesAreTrue' /\ LedgerIsHandled' /\ MarkedIsHandled' /\ SeenIsHandled'
  BY <1>1, <1>7
     DEF NamesAreTrue, Named, LedgerIsHandled, MarkedIsHandled, SeenIsHandled, Shifted
<1>9. OldestFirst'
  BY <1>1, <1>3, <1>4 DEF OldestFirst
<1>10. BatchIsOldest'
  BY <1>1, <1>3, <1>4 DEF BatchIsOldest
<1>11. QED
  BY <1>5, <1>6, <1>8, <1>9, <1>10

\* A fetch lists messages under their own names, and the oldest if with Graph.
LEMMA FetchKeeps ==
  ASSUME IInv, FetchNewMessages PROVE IInv'
<1> USE DEF IInv
<1>1. /\ at = "idle" /\ batch' = Listed
      /\ box' = box /\ arrived' = arrived /\ deletes' = deletes
      /\ provider' = provider /\ seen' = seen /\ at' = at /\ on' = on
      /\ ledger' = ledger /\ begun' = begun /\ handled' = handled
  BY DEF FetchNewMessages
<1>2. /\ DOMAIN box = 1..Len(box) /\ Len(box) \in Nat
      /\ \A i \in DOMAIN box : box[i] \in arrived /\ box[i] \in Messages
      /\ \A i, j \in DOMAIN box : box[i] = box[j] => i = j
  BY Places
<1>3. ASSUME NEW f \in Listed
      PROVE  /\ f.place \in Unread /\ f.msg = box[f.place]
             /\ f.ref = (IF provider = "imap" THEN f.place ELSE box[f.place])
             /\ Cardinality({k \in Unread : Before(k, f.place)}) < Limit
             /\ f = [msg |-> f.msg, ref |-> f.ref, place |-> f.place]
  <2>1. PICK i \in {i \in Unread : Cardinality({k \in Unread : Before(k, i)}) < Limit} :
          f = [msg |-> box[i], ref |-> IF provider = "imap" THEN i ELSE box[i], place |-> i]
    BY DEF Listed
  <2>2. f.msg = box[i] /\ f.place = i /\ f.ref = IF provider = "imap" THEN i ELSE box[i]
    BY <2>1
  <2>3. QED
    BY <2>1, <2>2
<1>4. \A f \in Listed : f.place \in DOMAIN box /\ f.place \in Nat
  <2>1. Unread \subseteq DOMAIN box /\ DOMAIN box \subseteq Nat
    BY <1>2 DEF Unread
  <2>2. QED
    BY <1>3, <2>1
<1>5. Listed \subseteq Fetched
  <2> SUFFICES ASSUME NEW f \in Listed PROVE f \in Fetched
    OBVIOUS
  <2>1. f.msg \in Messages /\ f.ref \in Messages \cup Nat /\ f.place \in Nat
    BY <1>2, <1>3, <1>4
  <2>2. f = [msg |-> f.msg, ref |-> f.ref, place |-> f.place]
    BY <1>3
  <2>3. QED
    BY <2>1, <2>2 DEF Fetched
<1>6. TypeOK' /\ OnlyArrived'
  BY <1>1, <1>2, <1>3, <1>4, <1>5 DEF TypeOK, OnlyArrived
<1>7. NamesAreTrue'
  BY <1>1, <1>3, <1>4 DEF NamesAreTrue, Named
<1>8. LedgerIsHandled' /\ MarkedIsHandled' /\ SeenIsHandled' /\ OldestFirst'
  BY <1>1 DEF LedgerIsHandled, MarkedIsHandled, SeenIsHandled, OldestFirst, Shifted
<1>9. BatchIsOldest'
  <2> SUFFICES ASSUME provider = "graph", NEW f \in Listed,
                      NEW i \in DOMAIN box, NEW j \in DOMAIN box, i < j, box[j] = f.msg,
                      box[i] \notin begun
               PROVE  \E g \in Listed : g.msg = box[i] /\ g.place < f.place
    BY <1>1 DEF BatchIsOldest
  <2>1. j = f.place
    BY <1>2, <1>3, <1>4
  <2>2. box[i] \notin seen
    BY DEF SeenIsHandled, Shifted, TypeOK
  <2>3. i \in Unread /\ j \in Unread
    BY <1>3, <2>1, <2>2 DEF Unread
  <2>4. Cardinality({k \in Unread : Before(k, i)}) < Limit
    BY <1>3, <2>1, <2>3, ListedIsInitial
  <2>5. [msg |-> box[i], ref |-> box[i], place |-> i] \in Listed
    BY <2>3, <2>4 DEF Listed
  <2>6. QED
    BY <2>1, <2>5
<1>10. QED
  BY <1>6, <1>7, <1>8, <1>9

\* The next message of the list is begun, or is known to the ledger: then it has
\* been handled.
LEMMA BeginKeeps ==
  ASSUME IInv, Begin PROVE IInv'
<1> USE DEF IInv
<1>1. PICK f \in batch :
        /\ Take(f)
        /\ IF Key(f) \in ledger THEN at' = "mark" /\ UNCHANGED begun
             ELSE at' = "handle" /\ begun' = begun \cup {f.msg}
  BY DEF Begin
<1>2. /\ at = "idle" /\ on' = f /\ batch' = batch \ {f}
      /\ box' = box /\ arrived' = arrived /\ deletes' = deletes /\ provider' = provider
      /\ seen' = seen /\ ledger' = ledger /\ handled' = handled
      /\ \A g \in batch \ {f} : Before(f.place, g.place)
  BY <1>1 DEF Begin, Take
<1>3. /\ f \in Fetched /\ f.msg \in Messages /\ f.msg \in arrived
      /\ \A g \in batch : g.place \in Nat
  BY DEF TypeOK, OnlyArrived, Fetched
<1>4. begun \subseteq begun' /\ begun' \subseteq begun \cup {f.msg}
  BY <1>1
<1>5. TypeOK' /\ OnlyArrived'
  BY <1>1, <1>2, <1>3, <1>4 DEF TypeOK, OnlyArrived, Label
<1>6. NamesAreTrue' /\ LedgerIsHandled' /\ SeenIsHandled'
  BY <1>2 DEF NamesAreTrue, Named, LedgerIsHandled, SeenIsHandled, Shifted
<1>7. Key(f) \in ledger /\ ~Shifted => f.msg \in handled
  <2> SUFFICES ASSUME Key(f) \in ledger, ~Shifted PROVE f.msg \in handled
    OBVIOUS
  <2>1. Named(f)
    BY DEF NamesAreTrue
  <2>2. CASE f.msg \notin Anonymous \/ provider # "imap"
    <3>1. Key(f) = f.msg
      BY <2>1, <2>2 DEF Key, Named
    <3>2. QED
      BY <1>3, <3>1 DEF LedgerIsHandled
  <2>3. CASE f.msg \in Anonymous /\ provider = "imap"
    <3>1. Key(f) = f.ref /\ f.ref \in Nat /\ box[f.ref] = f.msg
      BY <2>1, <2>3, Places DEF Key, Named
    <3>2. QED
      BY <3>1 DEF LedgerIsHandled
  <2>4. QED
    BY <2>2, <2>3
<1>8. MarkedIsHandled'
  BY <1>1, <1>2, <1>7 DEF MarkedIsHandled, Shifted
<1>9. provider = "graph" => f.msg \in begun'
  BY <1>1, <1>7 DEF Shifted, TypeOK
<1>10. BatchIsOldest'
  BY <1>2, <1>4, <1>9 DEF BatchIsOldest
<1>11. OldestFirst'
  <2> SUFFICES ASSUME provider = "graph", NEW i \in DOMAIN box, NEW j \in DOMAIN box,
                      i < j, box[j] \in begun'
               PROVE  box[i] \in begun'
    BY <1>2 DEF OldestFirst
  <2>1. CASE box[j] \in begun
    BY <1>4, <2>1 DEF OldestFirst
  <2>2. CASE box[j] = f.msg
    <3>1. ~(\E g \in batch : g.msg = box[i] /\ g.place < f.place)
      BY <1>2, <1>3 DEF Before
    <3>2. QED
      BY <1>4, <2>2, <3>1 DEF BatchIsOldest
  <2>3. QED
    BY <1>4, <2>1, <2>2
<1>12. QED
  BY <1>5, <1>6, <1>8, <1>10, <1>11

\* A message is handled to the end, and the ledger told under its key.
LEMMA FinalizeKeeps ==
  ASSUME IInv, Finalize PROVE IInv'
<1> USE DEF IInv
<1>1. /\ at = "handle" /\ at' = "mark" /\ handled' = handled \cup {on.msg}
      /\ ledger' = ledger \cup {Key(on)}
      /\ box' = box /\ arrived' = arrived /\ deletes' = deletes /\ provider' = provider
      /\ seen' = seen /\ batch' = batch /\ on' = on /\ begun' = begun
  BY DEF Finalize
<1>2. on \in Fetched /\ on.msg \in Messages /\ on.ref \in Messages \cup Nat
  BY DEF TypeOK, Fetched
<1>3. Key(on) \in Messages \cup Nat
  BY <1>2 DEF Key
<1>4. TypeOK' /\ OnlyArrived'
  BY <1>1, <1>3 DEF TypeOK, OnlyArrived, Label
<1>5. LedgerIsHandled'
  <2> SUFFICES ASSUME ~Shifted, NEW key \in ledger \cup {Key(on)}
               PROVE  /\ key \in Messages => key \in handled'
                      /\ key \in Nat => /\ provider = "imap" /\ key \in DOMAIN box
                                        /\ box[key] \in handled'
    BY <1>1 DEF LedgerIsHandled, Shifted
  <2>1. Named(on)
    BY <1>1 DEF NamesAreTrue
  <2>2. CASE key \in ledger
    BY <1>1, <2>2 DEF LedgerIsHandled
  <2>3. CASE key = Key(on)
    <3>1. \/ key = on.msg
          \/ provider = "imap" /\ key = on.ref /\ key \in DOMAIN box /\ box[key] = on.msg
      BY <2>1, <2>3 DEF Key, Named
    <3>2. \A m \in Messages : m \notin Nat
      BY MailboxAssumption
    <3>3. \A k \in DOMAIN box : k \in Nat
      BY Places
    <3>4. QED
      BY <1>1, <1>2, <3>1, <3>2, <3>3
  <2>4. QED
    BY <2>2, <2>3
<1>6. NamesAreTrue' /\ MarkedIsHandled' /\ BatchIsOldest' /\ SeenIsHandled' /\ OldestFirst'
  BY <1>1 DEF NamesAreTrue, Named, MarkedIsHandled, BatchIsOldest, SeenIsHandled, OldestFirst,
              Shifted
<1>7. QED
  BY <1>4, <1>5, <1>6

\* The message that is marked is the one that was handled.
LEMMA MarkKeeps ==
  ASSUME IInv, MarkProcessed PROVE IInv'
<1> USE DEF IInv
<1>1. /\ at = "mark" /\ at' = "idle"
      /\ seen' = seen \cup (IF provider = "imap" THEN {box[i] : i \in {on.ref} \cap DOMAIN box}
                            ELSE {on.ref} \cap ToSet(box))
      /\ box' = box /\ arrived' = arrived /\ deletes' = deletes /\ provider' = provider
      /\ batch' = batch /\ on' = on /\ begun' = begun /\ handled' = handled
      /\ ledger' = ledger
  BY DEF MarkProcessed
<1>2. \A i \in DOMAIN box : box[i] \in arrived
  BY Places
<1>3. seen' \subseteq arrived
  BY <1>1, <1>2 DEF TypeOK, ToSet
<1>4. TypeOK' /\ OnlyArrived'
  BY <1>1, <1>3 DEF TypeOK, OnlyArrived, Label
<1>5. SeenIsHandled'
  <2> SUFFICES ASSUME ~Shifted PROVE seen' \subseteq handled
    BY <1>1 DEF SeenIsHandled, Shifted
  <2>1. Named(on) /\ on.msg \in handled
    BY <1>1 DEF NamesAreTrue, MarkedIsHandled
  <2>2. seen' \subseteq seen \cup {on.msg}
    BY <1>1, <2>1 DEF Named
  <2>3. QED
    BY <2>1, <2>2 DEF SeenIsHandled
<1>6. NamesAreTrue' /\ LedgerIsHandled' /\ MarkedIsHandled' /\ BatchIsOldest' /\ OldestFirst'
  BY <1>1 DEF NamesAreTrue, Named, LedgerIsHandled, MarkedIsHandled, BatchIsOldest, OldestFirst,
              Shifted
<1>7. QED
  BY <1>4, <1>5, <1>6

\* An exception drops the message in hand, a crash the list as well.
LEMMA FaultKeeps ==
  ASSUME IInv, Raise \/ Crash PROVE IInv'
<1> USE DEF IInv
<1>1. /\ at' = "idle" /\ batch' \in {batch, {}}
      /\ box' = box /\ arrived' = arrived /\ deletes' = deletes /\ provider' = provider
      /\ seen' = seen /\ on' = on /\ begun' = begun /\ handled' = handled
      /\ ledger' = ledger
  BY DEF Raise, Crash
<1>2. TypeOK' /\ OnlyArrived'
  BY <1>1 DEF TypeOK, OnlyArrived, Label
<1>3. NamesAreTrue' /\ LedgerIsHandled' /\ MarkedIsHandled'
  BY <1>1 DEF NamesAreTrue, Named, LedgerIsHandled, MarkedIsHandled, Shifted
<1>4. BatchIsOldest' /\ SeenIsHandled' /\ OldestFirst'
  BY <1>1 DEF BatchIsOldest, SeenIsHandled, OldestFirst, Shifted
<1>5. QED
  BY <1>2, <1>3, <1>4

\* Every step preserves the invariant.
LEMMA StepKeepsIInv == IInv /\ [Next]_vars => IInv'
<1>1. ASSUME IInv, UNCHANGED vars PROVE IInv'
  BY <1>1 DEF vars, IInv, TypeOK, OnlyArrived, NamesAreTrue, Named, LedgerIsHandled,
              MarkedIsHandled, BatchIsOldest, SeenIsHandled, OldestFirst, Shifted
<1>2. QED
  BY <1>1, ArriveKeeps, DeleteKeeps, FetchKeeps, BeginKeeps, FinalizeKeeps, MarkKeeps,
     FaultKeeps DEF Next, PollOnce

-----------------------------------------------------------------------------
(* The theorems.                                                           *)

\* The invariant holds throughout.
THEOREM Invariance == Spec => []IInv
BY InitIInv, StepKeepsIInv, PTL DEF Spec

\* The mailbox holds each message that arrived and was not deleted once, in
\* order, and the agent knows no other.
THEOREM MailboxTyped == Spec => []TypeOK
<1>1. IInv => TypeOK
  BY DEF IInv
<1>2. QED
  BY <1>1, Invariance, PTL

\* No message is flagged as read that was not handled, with either provider,
\* as long as no deletion shifts the sequence numbers of IMAP.
THEOREM SeenHandled == Spec => []SeenIsHandled
<1>1. IInv => SeenIsHandled
  BY DEF IInv
<1>2. QED
  BY <1>1, Invariance, PTL

\* With Graph no message overtakes an older one, whatever is deleted meanwhile
\* and however many messages one fetch takes.
THEOREM GraphOldestFirst == Spec => []OldestFirst
<1>1. IInv => OldestFirst
  BY DEF IInv
<1>2. QED
  BY <1>1, Invariance, PTL
==============================================================================

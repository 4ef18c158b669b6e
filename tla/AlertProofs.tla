---------------------------- MODULE AlertProofs ----------------------------
(***************************************************************************)
(* What AdminAlerts guarantees for every cooldown, any categories, any     *)
(* number of actors and any number of calls that are cut short.            *)
(*                                                                         *)
(* The argument is a budget.  Look back x ticks.  A token is an actor who  *)
(* may queue a mail without another time being written first; a mail costs *)
(* its sender his token.  Tokens come back, to everyone at once, only when *)
(* someone writes a time that is x ticks old or older.  Whoever holds such *)
(* a time is not free.  Writing it frees him, and since times are taken    *)
(* from the clock he does not hold another one for the next x ticks: the   *)
(* more actors are free now, the more such writes there can have been, one *)
(* for each, and each has brought no more tokens than were free by then.   *)
(***************************************************************************)
EXTENDS AdminAlerts, FiniteSetTheorems, TLAPS

\* a is about to write a time that is x ticks old or older.
OldInHand(a, c, x) == at[a] = "record" /\ on[a] = c /\ held[a] >= x

Free(c, x) == {a \in Raisers(c) : ~OldInHand(a, c, x)}

\* a may queue a mail about c as things are: he has passed the check, or holds
\* an old time to check, or would read one.
MayMail(a, c, x) ==
  \/ on[a] = c /\ at[a] = "enqueue"
  \/ on[a] = c /\ at[a] = "compare" /\ held[a] >= x
  \/ lastSent[c] >= x /\ ~(on[a] = c /\ at[a] \in {"enqueue", "now", "record"})

Tokens(c, x) == {a \in Raisers(c) : MayMail(a, c, x)}

\* The mails of the last x ticks and those that may come now.
Within(c, x) ==
  recent[c][x] + Cardinality(Tokens(c, x)) <= Triangle(Cardinality(Free(c, x))) + stops

Budget == \A c \in Categories, x \in Age \ {0} : Within(c, x)

\* Nobody is about a category that is not his.
OnOwnCategory == \A a \in Actors : at[a] # "idle" => on[a] \in Raises[a]

NoneBefore == \A c \in Categories : recent[c][0] = 0

IInv == TypeOK /\ OnOwnCategory /\ NoneBefore /\ Budget
-----------------------------------------------------------------------------
(* Lemmas.                                                                 *)

\* Halves of numbers.
LEMMA Halves ==
  \A p, m \in Nat : /\ p \div 2 \in Nat /\ (p + 2 * m) \div 2 = (p \div 2) + m
                    /\ p <= m => p \div 2 <= m \div 2
                    /\ (2 * m) \div 2 = m
OBVIOUS

\* Triangle(n) is the sum of the numbers up to n, ...
LEMMA TriangleNext ==
  \A n \in Nat : Triangle(n) \in Nat /\ Triangle(n + 1) = Triangle(n) + (n + 1)
<1> SUFFICES ASSUME NEW n \in Nat
             PROVE  Triangle(n) \in Nat /\ Triangle(n + 1) = Triangle(n) + (n + 1)
  OBVIOUS
<1>1. n * (n + 1) \in Nat /\ n + 1 \in Nat
  OBVIOUS
<1>2. (n + 1) * (n + 1 + 1) = n * (n + 1) + 2 * (n + 1)
  OBVIOUS
<1>3. QED
  BY <1>1, <1>2, Halves DEF Triangle

\* ... it grows with n, ...
LEMMA TriangleGrows == \A m, n \in Nat : m <= n => Triangle(m) <= Triangle(n)
<1> SUFFICES ASSUME NEW m \in Nat, NEW n \in Nat, m <= n PROVE Triangle(m) <= Triangle(n)
  OBVIOUS
<1>1. m * (m + 1) \in Nat /\ n * (n + 1) \in Nat
  OBVIOUS
<1>2. m * (m + 1) <= n * (n + 1)
  OBVIOUS
<1>3. QED
  BY <1>1, <1>2, Halves DEF Triangle

\* ... and it is not less than n.
LEMMA TriangleCovers == \A n \in Nat : n <= Triangle(n)
<1> SUFFICES ASSUME NEW n \in Nat PROVE n <= Triangle(n)
  OBVIOUS
<1>1. n * (n + 1) \in Nat /\ 2 * n \in Nat /\ 2 * n <= n * (n + 1)
  OBVIOUS
<1>2. QED
  BY <1>1, Halves DEF Triangle

\* Ages and categories.
LEMMA Basics ==
  /\ Cooldown \in Nat /\ Cooldown > 0 /\ Age = 0..Cooldown /\ 0 \in Age /\ Cooldown \in Age
  /\ (CHOOSE c \in Categories : TRUE) \in Categories
  /\ MaxStops \in Nat
BY AlertsAssumption DEF Age

\* Actors can be counted.
LEMMA Counting ==
  ASSUME NEW S \in SUBSET Actors
  PROVE  /\ IsFiniteSet(S) /\ Cardinality(S) \in Nat
         /\ \A R \in SUBSET S : Cardinality(R) \in Nat /\ Cardinality(R) <= Cardinality(S)
<1>1. IsFiniteSet(S)
  BY AlertsAssumption, FS_Subset
<1>2. QED
  BY <1>1, FS_Subset, FS_CardinalityType

\* Those with a token are free.
LEMMA TokensFree ==
  ASSUME NEW c, NEW x
  PROVE  /\ Tokens(c, x) \in SUBSET Free(c, x)
         /\ Free(c, x) \in SUBSET Raisers(c) /\ Raisers(c) \in SUBSET Actors
<1>1. Tokens(c, x) \in SUBSET Free(c, x)
  BY DEF Tokens, Free, MayMail, OldInHand
<1>2. QED
  BY <1>1 DEF Free, Raisers

\* What the numbers in a budget are.
LEMMA Numbers ==
  ASSUME TypeOK, NEW c \in Categories, NEW x \in Age
  PROVE  /\ recent[c][x] \in Nat /\ stops \in Nat
         /\ Cardinality(Tokens(c, x)) \in Nat /\ Cardinality(Free(c, x)) \in Nat
         /\ Triangle(Cardinality(Free(c, x))) \in Nat
<1>1. Cardinality(Tokens(c, x)) \in Nat /\ Cardinality(Free(c, x)) \in Nat
  BY TokensFree, Counting
<1>2. recent[c][x] \in Nat /\ stops \in Nat
  BY Basics DEF TypeOK
<1>3. Triangle(Cardinality(Free(c, x))) \in Nat
  BY <1>1, TriangleNext
<1>4. QED
  BY <1>1, <1>2, <1>3

\* A budget is kept when no token is won, no mail comes and nobody gets less
\* free.
LEMMA Kept ==
  ASSUME TypeOK, TypeOK', NEW c \in Categories, NEW x \in Age, Within(c, x),
         recent'[c][x] = recent[c][x], stops <= stops',
         Tokens(c, x)' \subseteq Tokens(c, x), Free(c, x) \subseteq Free(c, x)'
  PROVE  Within(c, x)'
<1>1. Cardinality(Tokens(c, x)') <= Cardinality(Tokens(c, x))
  <2>1. Tokens(c, x) \in SUBSET Actors
    BY DEF Tokens, Raisers
  <2>2. QED
    BY <2>1, Counting
<1>2. Free(c, x)' \in SUBSET Actors
  BY DEF Free, Raisers
<1>3. /\ Cardinality(Free(c, x)) <= Cardinality(Free(c, x)')
      /\ Cardinality(Free(c, x)) \in Nat /\ Cardinality(Free(c, x)') \in Nat
  BY <1>2, Counting
<1>4. Triangle(Cardinality(Free(c, x))) <= Triangle(Cardinality(Free(c, x)'))
  BY <1>3, TriangleGrows
<1>5. Cardinality(Tokens(c, x)') \in Nat /\ Triangle(Cardinality(Free(c, x)')) \in Nat
  <2>1. Tokens(c, x)' \in SUBSET Actors
    BY DEF Tokens, Raisers
  <2>2. QED
    BY <1>3, <2>1, Counting, TriangleNext
<1>6. stops' \in Nat
  BY Basics DEF TypeOK
<1>7. /\ recent[c][x] \in Nat /\ stops \in Nat /\ Cardinality(Tokens(c, x)) \in Nat
      /\ Triangle(Cardinality(Free(c, x))) \in Nat
  BY Numbers
<1>8. recent[c][x] + Cardinality(Tokens(c, x)) <= Triangle(Cardinality(Free(c, x))) + stops
  BY DEF Within
<1>9. recent'[c][x] + Cardinality(Tokens(c, x)') <= Triangle(Cardinality(Free(c, x)')) + stops'
  BY <1>1, <1>4, <1>5, <1>6, <1>7, <1>8
<1>10. QED
  BY <1>9 DEF Within

\* A statement of a moves a alone.
LEMMA Moved ==
  ASSUME TypeOK, NEW a \in Actors, NEW l, at' = [at EXCEPT ![a] = l]
  PROVE  \A d \in Actors : at'[d] = IF d = a THEN l ELSE at[d]
BY DEF TypeOK
-----------------------------------------------------------------------------
(* The invariant is inductive.                                             *)

\* It holds at the start.
LEMMA InitIInv == Init => IInv
<1> SUFFICES ASSUME Init PROVE IInv
  OBVIOUS
<1>1. TypeOK
  BY Basics DEF Init, TypeOK, Label
<1>2. OnOwnCategory /\ NoneBefore
  BY Basics DEF Init, OnOwnCategory, NoneBefore
<1>3. ASSUME NEW c \in Categories, NEW x \in Age PROVE Within(c, x)
  <2>1. recent[c][x] = 0
    BY <1>3 DEF Init
  <2>2. Cardinality(Tokens(c, x)) <= Cardinality(Free(c, x))
    BY TokensFree, Counting
  <2>3. Cardinality(Free(c, x)) <= Triangle(Cardinality(Free(c, x)))
    BY <1>1, Numbers, TriangleCovers
  <2>4. QED
    BY <1>1, <2>1, <2>2, <2>3, Numbers DEF Within
<1>4. QED
  BY <1>1, <1>2, <1>3 DEF IInv, Budget

\* A call begins: what it has read is in the row.
LEMMA SelectKeeps ==
  ASSUME IInv, NEW a \in Actors, NEW c \in Categories, SelectLastSent(a, c)
  PROVE  IInv'
<1> USE DEF IInv
<1>1. /\ at[a] = "idle" /\ c \in Raises[a]
      /\ on' = [on EXCEPT ![a] = c] /\ held' = [held EXCEPT ![a] = lastSent[c]]
      /\ at' = [at EXCEPT ![a] = "compare"]
      /\ UNCHANGED <<lastSent, recent, stops>>
  BY DEF SelectLastSent, Goto
<1>2. /\ \A d \in Actors : at'[d] = IF d = a THEN "compare" ELSE at[d]
      /\ \A d \in Actors : on'[d] = IF d = a THEN c ELSE on[d]
      /\ \A d \in Actors : held'[d] = IF d = a THEN lastSent[c] ELSE held[d]
  BY <1>1 DEF TypeOK
<1>3. TypeOK'
  BY <1>1 DEF TypeOK, Label
<1>4. OnOwnCategory' /\ NoneBefore'
  BY <1>1, <1>2 DEF OnOwnCategory, NoneBefore
<1>5. ASSUME NEW k \in Categories, NEW x \in Age \ {0} PROVE Within(k, x)'
  <2>1. ASSUME NEW d \in Actors
        PROVE  /\ MayMail(d, k, x)' => MayMail(d, k, x)
               /\ OldInHand(d, k, x)' => OldInHand(d, k, x)
    BY <1>1, <1>2 DEF MayMail, OldInHand
  <2>2. Tokens(k, x)' \subseteq Tokens(k, x) /\ Free(k, x) \subseteq Free(k, x)'
    BY <2>1 DEF Tokens, Free, Raisers
  <2>3. stops <= stops' /\ recent'[k][x] = recent[k][x]
    BY <1>1, Basics DEF TypeOK
  <2>4. QED
    BY <1>3, <2>2, <2>3, Kept DEF Budget
<1>6. QED
  BY <1>3, <1>4, <1>5 DEF Budget

\* The check: those who pass it held a time that was old enough.
LEMMA CompareKeeps ==
  ASSUME IInv, NEW a \in Actors, Compare(a)
  PROVE  IInv'
<1> USE DEF IInv
<1>1. /\ at[a] = "compare"
      /\ at' = [at EXCEPT ![a] = IF held[a] >= Cooldown THEN "enqueue" ELSE "idle"]
      /\ UNCHANGED <<lastSent, recent, on, held, stops>>
  BY DEF Compare, Goto
<1>2. \A d \in Actors : at'[d] = IF d = a THEN IF held[a] >= Cooldown THEN "enqueue" ELSE "idle"
                                 ELSE at[d]
  BY <1>1, Moved
<1>3. TypeOK'
  BY <1>1 DEF TypeOK, Label
<1>4. OnOwnCategory' /\ NoneBefore'
  BY <1>1, <1>2 DEF OnOwnCategory, NoneBefore
<1>5. ASSUME NEW k \in Categories, NEW x \in Age \ {0} PROVE Within(k, x)'
  <2>1. held[a] >= Cooldown => held[a] >= x
    BY Basics DEF TypeOK
  <2>2. ASSUME NEW d \in Actors
        PROVE  /\ MayMail(d, k, x)' => MayMail(d, k, x)
               /\ OldInHand(d, k, x)' => OldInHand(d, k, x)
    BY <1>1, <1>2, <2>1 DEF MayMail, OldInHand
  <2>3. Tokens(k, x)' \subseteq Tokens(k, x) /\ Free(k, x) \subseteq Free(k, x)'
    BY <2>2 DEF Tokens, Free, Raisers
  <2>4. stops <= stops' /\ recent'[k][x] = recent[k][x]
    BY <1>1, Basics DEF TypeOK
  <2>5. QED
    BY <1>3, <2>3, <2>4, Kept DEF Budget
<1>6. QED
  BY <1>3, <1>4, <1>5 DEF Budget

\* A mail costs a token.
LEMMA EnqueueKeeps ==
  ASSUME IInv, NEW a \in Actors, Enqueue(a)
  PROVE  IInv'
<1> USE DEF IInv
<1>1. /\ at[a] = "enqueue" /\ at' = [at EXCEPT ![a] = "now"]
      /\ recent' = [recent EXCEPT ![on[a]] = [n \in Age |-> IF n = 0 THEN 0 ELSE @[n] + 1]]
      /\ UNCHANGED <<lastSent, on, held, stops>>
  BY DEF Enqueue, Goto
<1>2. \A d \in Actors : at'[d] = IF d = a THEN "now" ELSE at[d]
  BY <1>1, Moved
<1>3. \A k \in Categories, x \in Age :
        recent'[k][x] = IF k = on[a] THEN IF x = 0 THEN 0 ELSE recent[k][x] + 1
                        ELSE recent[k][x]
  BY <1>1 DEF TypeOK
<1>4. TypeOK'
  <2>1. [n \in Age |-> IF n = 0 THEN 0 ELSE recent[on[a]][n] + 1] \in [Age -> Nat]
    BY DEF TypeOK
  <2>2. recent' \in [Categories -> [Age -> Nat]]
    BY <1>1, <2>1 DEF TypeOK
  <2>3. QED
    BY <1>1, <2>2 DEF TypeOK, Label
<1>5. OnOwnCategory' /\ NoneBefore'
  BY <1>1, <1>2, <1>3, Basics DEF OnOwnCategory, NoneBefore
<1>6. ASSUME NEW k \in Categories, NEW x \in Age \ {0} PROVE Within(k, x)'
  <2>1. ASSUME NEW d \in Actors
        PROVE  /\ d # a => (MayMail(d, k, x)' <=> MayMail(d, k, x))
               /\ OldInHand(d, k, x)' <=> OldInHand(d, k, x)
    BY <1>1, <1>2 DEF MayMail, OldInHand
  <2>2. Free(k, x)' = Free(k, x)
    BY <2>1 DEF Free, Raisers
  <2>3. stops' = stops /\ Within(k, x)
    BY <1>1 DEF Budget
  <2>4. CASE k = on[a]
    <3>1. MayMail(a, k, x) /\ ~MayMail(a, k, x)'
      BY <1>1, <1>2, <2>4 DEF MayMail
    <3>2. a \in Raisers(k)
      BY <1>1, <2>4 DEF OnOwnCategory, Raisers
    <3>3. a \in Tokens(k, x)
      BY <3>1, <3>2 DEF Tokens
    <3>4. Tokens(k, x)' = Tokens(k, x) \ {a}
      BY <2>1, <3>1 DEF Tokens, Raisers
    <3>5. IsFiniteSet(Tokens(k, x))
      BY TokensFree, Counting
    <3>6. Cardinality(Tokens(k, x)') = Cardinality(Tokens(k, x)) - 1
      BY <3>3, <3>4, <3>5, FS_RemoveElement
    <3>7. recent'[k][x] = recent[k][x] + 1
      BY <1>3, <2>4
    <3>8. QED
      BY <2>2, <2>3, <3>6, <3>7, Numbers DEF Within
  <2>5. CASE k # on[a]
    <3>1. MayMail(a, k, x)' => MayMail(a, k, x)
      BY <1>1, <1>2, <2>5 DEF MayMail
    <3>2. Tokens(k, x)' \subseteq Tokens(k, x)
      BY <2>1, <3>1 DEF Tokens, Raisers
    <3>3. stops <= stops' /\ recent'[k][x] = recent[k][x]
      BY <1>3, <2>3, <2>5, Basics DEF TypeOK
    <3>4. QED
      BY <1>4, <2>2, <2>3, <3>2, <3>3, Kept
  <2>6. QED
    BY <2>4, <2>5
<1>7. QED
  BY <1>4, <1>5, <1>6 DEF Budget

\* The time taken is that of now.
LEMMA TakeKeeps ==
  ASSUME IInv, NEW a \in Actors, TakeTime(a)
  PROVE  IInv'
<1> USE DEF IInv
<1>1. /\ at[a] = "now" /\ at' = [at EXCEPT ![a] = "record"]
      /\ held' = [held EXCEPT ![a] = 0]
      /\ UNCHANGED <<lastSent, recent, on, stops>>
  BY DEF TakeTime, Goto
<1>2. /\ \A d \in Actors : at'[d] = IF d = a THEN "record" ELSE at[d]
      /\ \A d \in Actors : held'[d] = IF d = a THEN 0 ELSE held[d]
  BY <1>1 DEF TypeOK
<1>3. TypeOK'
  BY <1>1, Basics DEF TypeOK, Label
<1>4. OnOwnCategory' /\ NoneBefore'
  BY <1>1, <1>2 DEF OnOwnCategory, NoneBefore
<1>5. ASSUME NEW k \in Categories, NEW x \in Age \ {0} PROVE Within(k, x)'
  <2>1. ~(0 >= x)
    BY Basics
  <2>2. ASSUME NEW d \in Actors
        PROVE  /\ MayMail(d, k, x)' => MayMail(d, k, x)
               /\ OldInHand(d, k, x)' => OldInHand(d, k, x)
    BY <1>1, <1>2, <2>1 DEF MayMail, OldInHand
  <2>3. Tokens(k, x)' \subseteq Tokens(k, x) /\ Free(k, x) \subseteq Free(k, x)'
    BY <2>2 DEF Tokens, Free, Raisers
  <2>4. stops <= stops' /\ recent'[k][x] = recent[k][x]
    BY <1>1, Basics DEF TypeOK
  <2>5. QED
    BY <1>3, <2>3, <2>4, Kept DEF Budget
<1>6. QED
  BY <1>3, <1>4, <1>5 DEF Budget

\* A time is written: an old one may give tokens to all, and its writer is free
\* from now on.
LEMMA RecordKeeps ==
  ASSUME IInv, NEW a \in Actors, RecordSent(a)
  PROVE  IInv'
<1> USE DEF IInv
<1>1. /\ at[a] = "record" /\ at' = [at EXCEPT ![a] = "idle"]
      /\ lastSent' = [lastSent EXCEPT ![on[a]] = held[a]]
      /\ UNCHANGED <<recent, on, held, stops>>
  BY DEF RecordSent, Goto
<1>2. /\ \A d \in Actors : at'[d] = IF d = a THEN "idle" ELSE at[d]
      /\ \A k \in Categories : lastSent'[k] = IF k = on[a] THEN held[a] ELSE lastSent[k]
  BY <1>1 DEF TypeOK
<1>3. TypeOK'
  BY <1>1 DEF TypeOK, Label
<1>4. OnOwnCategory' /\ NoneBefore'
  BY <1>1, <1>2 DEF OnOwnCategory, NoneBefore
<1>5. ASSUME NEW k \in Categories, NEW x \in Age \ {0} PROVE Within(k, x)'
  <2>1. ASSUME NEW d \in Actors
        PROVE  /\ OldInHand(d, k, x)' => OldInHand(d, k, x)
               /\ d # a => (OldInHand(d, k, x)' <=> OldInHand(d, k, x))
               /\ ~OldInHand(a, k, x)'
    BY <1>1, <1>2 DEF OldInHand
  <2>2. stops <= stops' /\ stops' = stops /\ recent'[k][x] = recent[k][x] /\ Within(k, x)
    BY <1>1, Basics DEF TypeOK, Budget
  <2>3. CASE k = on[a] /\ held[a] >= x
    <3>1. a \in Raisers(k) /\ OldInHand(a, k, x)
      BY <1>1, <2>3 DEF OnOwnCategory, Raisers, OldInHand
    <3>2. Free(k, x)' = Free(k, x) \cup {a} /\ a \notin Free(k, x)
      BY <2>1, <3>1 DEF Free, Raisers
    <3>3. Cardinality(Free(k, x)') = Cardinality(Free(k, x)) + 1
      <4>1. IsFiniteSet(Free(k, x))
        BY TokensFree, Counting
      <4>2. QED
        BY <3>2, <4>1, FS_AddElement
    <3>4. /\ Cardinality(Tokens(k, x)') <= Cardinality(Free(k, x)')
          /\ Cardinality(Tokens(k, x)') \in Nat
      <4>1. Tokens(k, x)' \in SUBSET Free(k, x)'
        BY DEF Tokens, Free, MayMail, OldInHand
      <4>2. Free(k, x)' \in SUBSET Actors
        BY DEF Free, Raisers
      <4>3. QED
        BY <4>1, <4>2, Counting
    <3>5. Triangle(Cardinality(Free(k, x)'))
            = Triangle(Cardinality(Free(k, x))) + (Cardinality(Free(k, x)) + 1)
      BY <3>3, Numbers, TriangleNext
    <3>6. /\ recent[k][x] \in Nat /\ stops \in Nat
          /\ Cardinality(Tokens(k, x)) \in Nat /\ Cardinality(Free(k, x)) \in Nat
          /\ Triangle(Cardinality(Free(k, x))) \in Nat
      BY Numbers
    <3>7. recent[k][x] + Cardinality(Tokens(k, x)) <= Triangle(Cardinality(Free(k, x))) + stops
      BY <2>2 DEF Within
    <3>8. recent'[k][x] + Cardinality(Tokens(k, x)')
            <= Triangle(Cardinality(Free(k, x)')) + stops'
      BY <2>2, <3>3, <3>4, <3>5, <3>6, <3>7
    <3>9. QED
      BY <3>8 DEF Within
  <2>4. CASE ~(k = on[a] /\ held[a] >= x)
    <3>1. ASSUME NEW d \in Actors PROVE MayMail(d, k, x)' => MayMail(d, k, x)
      BY <1>1, <1>2, <2>4 DEF MayMail
    <3>2. Tokens(k, x)' \subseteq Tokens(k, x) /\ Free(k, x) \subseteq Free(k, x)'
      BY <2>1, <3>1 DEF Tokens, Free, Raisers
    <3>3. QED
      BY <1>3, <2>2, <3>2, Kept
  <2>5. QED
    BY <2>3, <2>4
<1>6. QED
  BY <1>3, <1>4, <1>5 DEF Budget

\* A call that is cut short may leave a token, and is counted.
LEMMA StopKeeps ==
  ASSUME IInv, NEW a \in Actors, Stop(a)
  PROVE  IInv'
<1> USE DEF IInv
<1>1. /\ at[a] # "idle" /\ at' = [at EXCEPT ![a] = "idle"]
      /\ stops < MaxStops /\ stops' = stops + 1
      /\ UNCHANGED <<lastSent, recent, on, held>>
  BY DEF Stop, Goto
<1>2. \A d \in Actors : at'[d] = IF d = a THEN "idle" ELSE at[d]
  BY <1>1, Moved
<1>3. TypeOK'
  <2>1. stops' \in 0..MaxStops
    BY <1>1, Basics DEF TypeOK
  <2>2. QED
    BY <1>1, <2>1 DEF TypeOK, Label
<1>4. OnOwnCategory' /\ NoneBefore'
  BY <1>1, <1>2 DEF OnOwnCategory, NoneBefore
<1>5. ASSUME NEW k \in Categories, NEW x \in Age \ {0} PROVE Within(k, x)'
  <2>1. ASSUME NEW d \in Actors
        PROVE  /\ d # a /\ MayMail(d, k, x)' => MayMail(d, k, x)
               /\ OldInHand(d, k, x)' => OldInHand(d, k, x)
    BY <1>1, <1>2 DEF MayMail, OldInHand
  <2>2. Tokens(k, x)' \subseteq Tokens(k, x) \cup {a} /\ Free(k, x) \subseteq Free(k, x)'
    BY <2>1 DEF Tokens, Free, Raisers
  <2>3. /\ Cardinality(Tokens(k, x)') <= Cardinality(Tokens(k, x)) + 1
        /\ Cardinality(Tokens(k, x)') \in Nat
    <3>1. IsFiniteSet(Tokens(k, x)) /\ Cardinality(Tokens(k, x)) \in Nat
      BY TokensFree, Counting
    <3>2. Cardinality(Tokens(k, x) \cup {a}) <= Cardinality(Tokens(k, x)) + 1
      <4>1. Cardinality(Tokens(k, x) \cup {a}) =
              IF a \in Tokens(k, x) THEN Cardinality(Tokens(k, x))
              ELSE Cardinality(Tokens(k, x)) + 1
        BY <3>1, FS_AddElement
      <4>2. QED
        BY <3>1, <4>1
    <3>3. Tokens(k, x) \cup {a} \in SUBSET Actors
      BY DEF Tokens, Raisers
    <3>4. /\ Cardinality(Tokens(k, x)') \in Nat
          /\ Cardinality(Tokens(k, x)') <= Cardinality(Tokens(k, x) \cup {a})
          /\ Cardinality(Tokens(k, x) \cup {a}) \in Nat
      BY <2>2, <3>3, Counting
    <3>5. QED
      BY <3>1, <3>2, <3>4
  <2>4. /\ Triangle(Cardinality(Free(k, x))) <= Triangle(Cardinality(Free(k, x)'))
        /\ Triangle(Cardinality(Free(k, x)')) \in Nat
    <3>1. Free(k, x)' \in SUBSET Actors
      BY DEF Free, Raisers
    <3>2. /\ Cardinality(Free(k, x)) <= Cardinality(Free(k, x)')
          /\ Cardinality(Free(k, x)) \in Nat /\ Cardinality(Free(k, x)') \in Nat
      BY <2>2, <3>1, Counting
    <3>3. QED
      BY <3>2, TriangleGrows, TriangleNext
  <2>5. /\ recent[k][x] \in Nat /\ stops \in Nat /\ Cardinality(Tokens(k, x)) \in Nat
        /\ Triangle(Cardinality(Free(k, x))) \in Nat
    BY Numbers
  <2>6. recent[k][x] + Cardinality(Tokens(k, x)) <= Triangle(Cardinality(Free(k, x))) + stops
    BY DEF Budget, Within
  <2>7. recent'[k][x] = recent[k][x] /\ stops' = stops + 1
    BY <1>1
  <2>8. recent'[k][x] + Cardinality(Tokens(k, x)') <= Triangle(Cardinality(Free(k, x)')) + stops'
    BY <2>3, <2>4, <2>5, <2>6, <2>7
  <2>9. QED
    BY <2>8 DEF Within
<1>6. QED
  BY <1>3, <1>4, <1>5 DEF Budget

\* The clock moves on: what is x ticks old was x - 1 ticks old, and in the last
\* tick there is no mail yet.
LEMMA TickKeeps == ASSUME IInv, Tick PROVE IInv'
<1> USE DEF IInv
<1>1. /\ \A c \in Categories : lastSent'[c] = Older(lastSent[c])
      /\ \A d \in Actors : held'[d] = Older(held[d])
      /\ \A c \in Categories, n \in Age :
           recent'[c][n] = IF n = 0 THEN 0 ELSE recent[c][n - 1]
      /\ UNCHANGED <<at, on, stops>>
  BY DEF Tick
<1>2. /\ \A c \in Categories : lastSent[c] \in Age
      /\ \A d \in Actors : held[d] \in Age
  BY DEF TypeOK
<1>3. \A n \in Age : /\ Older(n) \in Age
                     /\ \A x \in Age \ {0} : x - 1 \in Age /\ (Older(n) >= x <=> n >= x - 1)
  BY Basics DEF Older
<1>4. TypeOK'
  <2>1. \A c \in Categories : \A n \in Age : (IF n = 0 THEN 0 ELSE recent[c][n - 1]) \in Nat
    BY <1>3, Basics DEF TypeOK
  <2>2. recent' \in [Categories -> [Age -> Nat]]
    BY <2>1 DEF Tick
  <2>3. lastSent' \in [Categories -> Age] /\ held' \in [Actors -> Age]
    BY <1>2, <1>3 DEF Tick
  <2>4. QED
    BY <1>1, <2>2, <2>3 DEF TypeOK
<1>5. OnOwnCategory' /\ NoneBefore'
  BY <1>1, Basics DEF OnOwnCategory, NoneBefore
<1>6. ASSUME NEW k \in Categories, NEW x \in Age \ {0} PROVE Within(k, x)'
  <2>1. recent'[k][x] = recent[k][x - 1] /\ stops' = stops
    BY <1>1
  <2>2. CASE x = 1
    <3>1. recent'[k][x] = 0
      BY <2>1, <2>2 DEF NoneBefore
    <3>2. /\ Tokens(k, x)' \in SUBSET Free(k, x)' /\ Free(k, x)' \in SUBSET Actors
      BY DEF Tokens, Free, Raisers, MayMail, OldInHand
    <3>3. /\ Cardinality(Tokens(k, x)') <= Cardinality(Free(k, x)')
          /\ Cardinality(Tokens(k, x)') \in Nat /\ Cardinality(Free(k, x)') \in Nat
      BY <3>2, Counting
    <3>4. /\ Cardinality(Free(k, x)') <= Triangle(Cardinality(Free(k, x)'))
          /\ Triangle(Cardinality(Free(k, x)')) \in Nat
      BY <3>3, TriangleCovers, TriangleNext
    <3>5. stops \in Nat
      BY Basics DEF TypeOK
    <3>6. recent'[k][x] + Cardinality(Tokens(k, x)')
            <= Triangle(Cardinality(Free(k, x)')) + stops'
      BY <2>1, <3>1, <3>3, <3>4, <3>5
    <3>7. QED
      BY <3>6 DEF Within
  <2>3. CASE x # 1
    <3>1. x - 1 \in Age \ {0}
      BY <2>3, Basics
    <3>2. ASSUME NEW d \in Actors
          PROVE  /\ MayMail(d, k, x)' <=> MayMail(d, k, x - 1)
                 /\ OldInHand(d, k, x)' <=> OldInHand(d, k, x - 1)
      <4>1. held'[d] >= x <=> held[d] >= x - 1
        BY <1>1, <1>2, <1>3
      <4>2. lastSent'[k] >= x <=> lastSent[k] >= x - 1
        BY <1>1, <1>2, <1>3
      <4>3. QED
        BY <1>1, <4>1, <4>2 DEF MayMail, OldInHand
    <3>3. Tokens(k, x)' = Tokens(k, x - 1) /\ Free(k, x)' = Free(k, x - 1)
      BY <3>2 DEF Tokens, Free, Raisers
    <3>4. Within(k, x - 1)
      BY <3>1 DEF Budget
    <3>5. QED
      BY <2>1, <3>3, <3>4 DEF Within
  <2>4. QED
    BY <2>2, <2>3
<1>7. QED
  BY <1>4, <1>5, <1>6 DEF Budget

\* Every step keeps it.
LEMMA StepIInv == IInv /\ [Next]_vars => IInv'
<1> SUFFICES ASSUME IInv, [Next]_vars PROVE IInv'
  OBVIOUS
<1>1. CASE Next
  BY <1>1, SelectKeeps, CompareKeeps, EnqueueKeeps, TakeKeeps, RecordKeeps, StopKeeps, TickKeeps
     DEF Next, CallStep
<1>2. CASE UNCHANGED vars
  BY <1>2 DEF vars, IInv, TypeOK, OnOwnCategory, NoneBefore, Budget, Within,
              Tokens, Free, MayMail, OldInHand
<1>3. QED
  BY <1>1, <1>2

\* The invariant holds throughout.
THEOREM AlertsAgree == Spec => []IInv
<1>1. QED
  BY InitIInv, StepIInv, PTL DEF Spec

\* The shape of the state is kept.
THEOREM AlertsTyped == Spec => []TypeOK
<1>1. IInv => TypeOK
  BY DEF IInv
<1>2. QED
  BY <1>1, AlertsAgree, PTL

\* However many raise a category, however their calls pass each other and
\* wherever they are cut short, the admin is not flooded (NoFlood).
THEOREM AdminIsNotFlooded == Spec => []NoFlood
<1>1. IInv => NoFlood
  <2> SUFFICES ASSUME IInv, NEW c \in Categories
               PROVE  recent[c][Cooldown] <= Triangle(Cardinality(Raisers(c))) + stops
    BY DEF NoFlood
  <2>1. Cooldown \in Age \ {0} /\ TypeOK
    BY Basics DEF IInv
  <2>2. recent[c][Cooldown] + Cardinality(Tokens(c, Cooldown))
          <= Triangle(Cardinality(Free(c, Cooldown))) + stops
    BY <2>1 DEF IInv, Budget, Within
  <2>3. /\ Cardinality(Free(c, Cooldown)) <= Cardinality(Raisers(c))
        /\ Cardinality(Raisers(c)) \in Nat
    BY TokensFree, Counting
  <2>4. /\ Triangle(Cardinality(Free(c, Cooldown))) <= Triangle(Cardinality(Raisers(c)))
        /\ Triangle(Cardinality(Raisers(c))) \in Nat
    BY <2>1, <2>3, Numbers, TriangleGrows, TriangleNext
  <2>5. QED
    BY <2>1, <2>2, <2>4, Numbers
<1>2. QED
  BY <1>1, AlertsAgree, PTL
=============================================================================

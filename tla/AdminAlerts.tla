---------------------------- MODULE AdminAlerts ----------------------------
(***************************************************************************)
(* The cooldown of alerts to the admin (AdminNotifier, app/admin/          *)
(* notifier.py): an alert is mailed only if the last recorded one of its   *)
(* category is at least a cooldown old.  The row of admin_alerts is read,  *)
(* the clock is read, the mail queued, the clock read again and the row    *)
(* written, one step each, and the callers do not wait for each other: the *)
(* mail thread (pipeline.py), the worker (handlers) and each process of    *)
(* the weekly update (workflow.py:85) have a notifier of their own over    *)
(* the same table.  Nothing keeps two weekly processes apart, so that any  *)
(* number of callers may raise INFRASTRUCTURE.  There is an admin here;    *)
(* without his address alert() does nothing (notifier.py:46).              *)
(*                                                                         *)
(* Times are kept as ages, the time that has passed since, and an age      *)
(* stops at Cooldown, beyond which nothing tells ages apart; a category    *)
(* without a row is one whose last alert is that old.                      *)
(***************************************************************************)
EXTENDS Naturals, FiniteSets

AdminCategory ==
  {"UNAUTHORISED_SENDER", "LLM_PARSE_FAILURE", "BACKEND_SUBMISSION_FAILURE",
   "ASSESS_QUERY_FAILURE", "INFRASTRUCTURE"}

CONSTANTS
  Actors,      \* who raises alerts: "mail", "worker", and weekly processes
  Categories,  \* members of AdminCategory
  Cooldown,    \* alert_cooldown_minutes, in ticks of the clock
  MaxStops     \* bound on the calls that are cut short

ASSUME AlertsAssumption ==
  /\ Actors # {} /\ IsFiniteSet(Actors)
  /\ Categories # {} /\ Categories \subseteq AdminCategory
  /\ Cooldown \in Nat \ {0} /\ MaxStops \in Nat

VARIABLES
  lastSent,  \* lastSent[c]: the age of last_sent_at in row c of admin_alerts
  recent,    \* recent[c][n]: mails about c queued in the last n ticks, now included
  at, on,    \* at[a]: the next statement of a's call; on[a]: its category
  held,      \* held[a]: the age of the time that the call holds
  stops

vars == <<lastSent, recent, at, on, held, stops>>

Age   == 0..Cooldown
Label == {"idle", "compare", "enqueue", "now", "record"}

\* The calls of alert() in the code of each actor.
Raises ==
  [a \in Actors |->
    CASE a = "mail"   -> {"UNAUTHORISED_SENDER", "LLM_PARSE_FAILURE", "INFRASTRUCTURE"}
      [] a = "worker" -> {"BACKEND_SUBMISSION_FAILURE", "ASSESS_QUERY_FAILURE"}
      [] OTHER        -> {"INFRASTRUCTURE"}]

Init ==
  /\ lastSent = [c \in Categories |-> Cooldown]
  /\ recent = [c \in Categories |-> [n \in Age |-> 0]]
  /\ at = [a \in Actors |-> "idle"]
  /\ on = [a \in Actors |-> CHOOSE c \in Categories : TRUE]
  /\ held = [a \in Actors |-> Cooldown]
  /\ stops = 0

Goto(a, l) == at' = [at EXCEPT ![a] = l]

(* alert() is called, and _should_send selects the row ...                 *)
SelectLastSent(a, c) ==
  /\ at[a] = "idle" /\ c \in Raises[a]
  /\ on' = [on EXCEPT ![a] = c]
  /\ held' = [held EXCEPT ![a] = lastSent[c]]
  /\ Goto(a, "compare")
  /\ UNCHANGED <<lastSent, recent, stops>>

\* (Slip: the time is recorded for suppressed alerts too.  The definitions
\* marked like this are no part of the model: each is the operator after it
\* with a plausible mistake, which the properties must be able to notice.)
CompareAndTouch(a) ==
  /\ at[a] = "compare"
  /\ Goto(a, IF held[a] >= Cooldown THEN "enqueue" ELSE "now")
  /\ UNCHANGED <<lastSent, recent, on, held, stops>>

(* ... and compares it with the time: within the cooldown alert() is done. *)
Compare(a) ==
  /\ at[a] = "compare"
  /\ Goto(a, IF held[a] >= Cooldown THEN "enqueue" ELSE "idle")
  /\ UNCHANGED <<lastSent, recent, on, held, stops>>

(* The mail is put into the outbox.                                        *)
Enqueue(a) ==
  /\ at[a] = "enqueue"
  /\ recent' = [recent EXCEPT ![on[a]] = [n \in Age |-> IF n = 0 THEN 0 ELSE @[n] + 1]]
  /\ Goto(a, "now")
  /\ UNCHANGED <<lastSent, on, held, stops>>

(* _record_sent takes the time ...                                         *)
TakeTime(a) ==
  /\ at[a] = "now"
  /\ held' = [held EXCEPT ![a] = 0]
  /\ Goto(a, "record")
  /\ UNCHANGED <<lastSent, recent, on, stops>>

\* (Slip: the row is not written.)
RecordSentForgotten(a) ==
  /\ at[a] = "record"
  /\ Goto(a, "idle")
  /\ UNCHANGED <<lastSent, recent, on, held, stops>>

(* ... and writes it, over whatever is there by now.                       *)
RecordSent(a) ==
  /\ at[a] = "record"
  /\ lastSent' = [lastSent EXCEPT ![on[a]] = held[a]]
  /\ Goto(a, "idle")
  /\ UNCHANGED <<recent, on, held, stops>>

(* A statement raises, or the process is stopped.                          *)
Stop(a) ==
  /\ at[a] # "idle"
  /\ stops < MaxStops /\ stops' = stops + 1
  /\ Goto(a, "idle")
  /\ UNCHANGED <<lastSent, recent, on, held>>

Older(n) == IF n < Cooldown THEN n + 1 ELSE n

\* The clock moves on.
Tick ==
  /\ lastSent' = [c \in Categories |-> Older(lastSent[c])]
  /\ held' = [a \in Actors |-> Older(held[a])]
  /\ recent' = [c \in Categories |->
                  [n \in Age |-> IF n = 0 THEN 0 ELSE recent[c][n - 1]]]
  /\ UNCHANGED <<at, on, stops>>

CallStep(a) == Compare(a) \/ Enqueue(a) \/ TakeTime(a) \/ RecordSent(a)

Next ==
  \/ \E a \in Actors : \/ \E c \in Categories : SelectLastSent(a, c)
                       \/ CallStep(a) \/ Stop(a)
  \/ Tick

Spec == Init /\ [][Next]_vars

(* A call goes on until it returns, and time passes.  Nobody has to raise  *)
(* an alert.                                                               *)
FairSpec == Spec /\ WF_vars(Tick) /\ \A a \in Actors : WF_vars(CallStep(a))

-----------------------------------------------------------------------------
(* Properties.                                                             *)

\* The shape of the state.
TypeOK ==
  /\ lastSent \in [Categories -> Age]
  /\ recent \in [Categories -> [Age -> Nat]]
  /\ at \in [Actors -> Label] /\ on \in [Actors -> Categories]
  /\ held \in [Actors -> Age]
  /\ stops \in 0..MaxStops

Raisers(c) == {a \in Actors : c \in Raises[a]}

\* 1 + 2 + ... + n.
Triangle(n) == (n * (n + 1)) \div 2

\* Within any cooldown the admin gets one mail about a category that one actor
\* raises (notifier.py:3-4), and one more for each call that was cut short
\* before it could record its mail.  Where n raise the category it may be
\* 1 + 2 + ... + n: all but one have been about to write a time from before the
\* cooldown, and whenever one of them does so, he and all who have written
\* before him pass the check again.  It is never more.
NoFlood ==
  \A c \in Categories : recent[c][Cooldown] <= Triangle(Cardinality(Raisers(c))) + stops

\* An alert that is raised over and over is mailed over and over: the cooldown
\* delays, it never silences.
TellsAgain ==
  \A c \in Categories :
    []<>(\E a \in Actors : at[a] = "compare" /\ on[a] = c) => []<>(recent[c][1] > 0)
=============================================================================

------------------------------ MODULE Mailbox ------------------------------
(***************************************************************************)
(* How the agent finds its mail at the provider: fetch_new_messages and    *)
(* mark_processed of the IMAP client (app/mail/imap_client.py; the Gmail   *)
(* client is the same) and of the Graph client, under Pipeline.poll_once.  *)
(* Inbox models what is done with a message; here a message is only begun  *)
(* and finalised, and the question is which message each step reaches.     *)
(* The IMAP client opens a connection for each call and names messages by  *)
(* sequence number, which the next deletion by another mail program        *)
(* shifts; Graph names them by a lasting id.                               *)
(***************************************************************************)
EXTENDS Naturals, FiniteSets, SequencesExt

CONSTANTS
  Messages,    \* what arrives
  Anonymous,   \* those without a Message-ID
  Unreadable,  \* those that cannot be converted: an unknown charset
               \* (imap_client.py:136), attachments that cannot be had
               \* (graph_client.py:194)
  Providers,   \* some of "imap" and "graph"
  Limit,       \* messages per fetch (25 in the code)
  MaxDeletes,  \* bound on deletions by another mail program
  MaxFaults    \* bound on exceptions and crashes

\* Three attempts are the budget of a message (Inbox); no message is to
\* exhaust it here.
ASSUME MailboxAssumption ==
  /\ Messages # {} /\ Messages \cap Nat = {} /\ Anonymous \subseteq Messages
  /\ Unreadable \subseteq Messages
  /\ Providers \subseteq {"imap", "graph"} /\ Providers # {}
  /\ Limit \in Nat \ {0} /\ MaxDeletes \in Nat /\ MaxFaults \in 0..2

VARIABLES
  provider, \* the one that is configured
  arrived,  \* messages ever delivered
  box,      \* the messages in the mailbox, in the order of their arrival
  seen,     \* those flagged \Seen, or isRead
  batch,    \* what is left of what fetch_new_messages() returned
  at, on,   \* the next statement of the mail thread, and its message
  ledger,   \* keys of processed_messages with a final outcome
  begun,    \* messages that have been looked at
  handled,  \* messages that were handled to the end
  deletes, faults

vars == <<provider, arrived, box, seen, batch, at, on, ledger, begun, handled, deletes, faults>>

\* A fetched message: itself, its provider_ref, and where it was in the box.
Fetched == [msg : Messages, ref : Messages \cup Nat, place : Nat]

Label == {"idle", "handle", "mark"}

\* message_id: the ledger knows a message without one by its provider_ref.
Key(f) == IF f.msg \in Anonymous THEN f.ref ELSE f.msg

Init ==
  /\ provider \in Providers
  /\ arrived = {} /\ box = <<>> /\ seen = {}
  /\ batch = {} /\ at = "idle"
  /\ on = LET m == CHOOSE m \in Messages : TRUE IN [msg |-> m, ref |-> m, place |-> 0]
  /\ ledger = {} /\ begun = {} /\ handled = {}
  /\ deletes = 0 /\ faults = 0

Fault == faults < MaxFaults /\ faults' = faults + 1

(* The outside world: a message arrives at the end of the mailbox; ...     *)
Arrive(m) ==
  /\ m \notin arrived
  /\ arrived' = arrived \cup {m}
  /\ box' = Append(box, m)
  /\ UNCHANGED <<provider, seen, batch, at, on, ledger, begun, handled, deletes, faults>>

(* ... another mail program deletes one.                                   *)
Delete(i) ==
  /\ deletes < MaxDeletes
  /\ deletes' = deletes + 1
  /\ box' = RemoveAt(box, i)
  /\ UNCHANGED <<provider, arrived, seen, batch, at, on, ledger, begun, handled, faults>>

\* The places of the unread messages.
Unread == {i \in DOMAIN box : box[i] \notin seen}

\* (Slip: newest first from either provider.  The definitions marked like this
\* are no part of the model: each is the operator after it with a plausible
\* mistake, which the properties must be able to notice.)
NewestBefore(i, j) == i > j

\* Which of two messages a fetch lists first: IMAP the newer one, Graph the
\* older one.
Before(i, j) == IF provider = "imap" THEN i > j ELSE i < j

(* The first Limit of the list, each with the name the provider has for it *)
Listed ==
  {[msg |-> box[i], ref |-> IF provider = "imap" THEN i ELSE box[i], place |-> i] :
     i \in {i \in Unread : Cardinality({k \in Unread : Before(k, i)}) < Limit}}

\* One of the messages of the list makes fetch_new_messages raise.
Blocked == \E f \in Listed : f.msg \in Unreadable

(* If it raises there is no list at all, and as this is outside of the try *)
(* statement of poll_once (app/pipeline.py:91) the whole poll comes to     *)
(* nothing, this time and the next.                                        *)
FetchNewMessages ==
  /\ at = "idle" /\ batch = {}
  /\ Listed # {} /\ ~Blocked
  /\ batch' = Listed
  /\ UNCHANGED <<provider, arrived, box, seen, at, on, ledger, begun, handled, deletes, faults>>

\* f is the next message of the list.
Take(f) ==
  /\ at = "idle"
  /\ \A g \in batch \ {f} : Before(f.place, g.place)
  /\ on' = f /\ batch' = batch \ {f}

\* (Slip: a message is struck off once it has been looked at.)
BeginSettles ==
  /\ \E f \in batch :
       /\ Take(f)
       /\ ledger' = ledger \cup {Key(f)}
       /\ IF Key(f) \in ledger THEN at' = "mark" /\ UNCHANGED begun
          ELSE at' = "handle" /\ begun' = begun \cup {f.msg}
  /\ UNCHANGED <<provider, arrived, box, seen, handled, deletes, faults>>

(* begin(): a message that the ledger has under its key is only marked.    *)
Begin ==
  /\ \E f \in batch :
       /\ Take(f)
       /\ IF Key(f) \in ledger THEN at' = "mark" /\ UNCHANGED begun
          ELSE at' = "handle" /\ begun' = begun \cup {f.msg}
  /\ UNCHANGED <<provider, arrived, box, seen, ledger, handled, deletes, faults>>

(* Whatever _process_message does, up to and with finalize().              *)
Finalize ==
  /\ at = "handle"
  /\ at' = "mark"
  /\ handled' = handled \cup {on.msg}
  /\ ledger' = ledger \cup {Key(on)}
  /\ UNCHANGED <<provider, arrived, box, seen, batch, on, begun, deletes, faults>>

\* (Slip: the flag is not written.)
MarkForgotten ==
  /\ at = "mark"
  /\ at' = "idle"
  /\ UNCHANGED <<provider, arrived, box, seen, batch, on, ledger, begun, handled, deletes, faults>>

(* mark_processed: the flag of the message that now goes by that name.  If *)
(* there is none the call raises, which changes nothing either.            *)
MarkProcessed ==
  /\ at = "mark"
  /\ at' = "idle"
  /\ seen' = seen \cup
       IF provider = "imap" THEN {box[i] : i \in {on.ref} \cap DOMAIN box}
       ELSE {on.ref} \cap ToSet(box)
  /\ UNCHANGED <<provider, arrived, box, batch, on, ledger, begun, handled, deletes, faults>>

(* poll_once goes on with the next message after an exception.             *)
Raise ==
  /\ at # "idle"
  /\ Fault
  /\ at' = "idle"
  /\ UNCHANGED <<provider, arrived, box, seen, batch, on, ledger, begun, handled, deletes>>

(* The agent is stopped and started again.                                 *)
Crash ==
  /\ Fault
  /\ batch' = {} /\ at' = "idle"
  /\ UNCHANGED <<provider, arrived, box, seen, on, ledger, begun, handled, deletes>>

PollOnce == FetchNewMessages \/ Begin \/ Finalize \/ MarkProcessed

Next ==
  \/ \E m \in Messages : Arrive(m)
  \/ \E i \in DOMAIN box : Delete(i)
  \/ PollOnce \/ Raise \/ Crash

Spec == Init /\ [][Next]_vars

(* _mail_loop polls for ever (app/main.py 166-175).                        *)
FairSpec == Spec /\ WF_vars(PollOnce)

-----------------------------------------------------------------------------
(* Properties.                                                             *)

\* The shape of the state; the mailbox holds what arrived and was not
\* deleted, each message once.
TypeOK ==
  /\ provider \in Providers
  /\ arrived \subseteq Messages /\ seen \subseteq arrived
  /\ box \in Seq(arrived) /\ IsInjective(box)
  /\ Len(box) + deletes = Cardinality(arrived)
  /\ batch \subseteq Fetched /\ at \in Label /\ on \in Fetched
  /\ ledger \subseteq Messages \cup Nat
  /\ handled \subseteq begun /\ begun \subseteq arrived

\* Sequence numbers that another mail program has shifted since.
Shifted == provider = "imap" /\ deletes > 0

\* What is flagged as read has been handled: no message disappears from the
\* list of unread ones before its turn (imap_client.py:72-75), unless another
\* mail program has shifted the sequence numbers.
SeenIsHandled == Shifted \/ seen \subseteq handled

\* With Graph, no message is begun before an older one that is waiting
\* (base.py:46, "oldest first").
OldestFirst ==
  provider = "graph" =>
    \A i, j \in DOMAIN box : i < j /\ box[j] \in begun => box[i] \in begun

\* Every message that stays in the mailbox is handled at last, although a
\* fetch returns no more than Limit of them, and others are deleted.  That is
\* unless an unreadable message keeps coming up in the list: only when such a
\* message is gone, or has fallen behind the limit for good, does the mail
\* around it go on.
EveryMessageHandled ==
  \/ []<>Blocked
  \/ \A m \in Messages : m \in arrived ~> m \in handled \/ m \notin ToSet(box) \/ Shifted
=============================================================================

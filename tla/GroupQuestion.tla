---------------------------- MODULE GroupQuestion ----------------------------
(***************************************************************************)
(* Which group a job is for: match_group (app/diarisation/group_matching)  *)
(* compares the hint of the job with the names of the sender's groups; if  *)
(* that does not settle it the sender is asked, and Pipeline.              *)
(* _continue_clarification compares the answer with the names as they were *)
(* when the question was put.  The two comparisons do not see the same     *)
(* differences, and the groups belong to the backend, where they change    *)
(* meanwhile.  One job is followed; its other troubles are JobLifecycle's, *)
(* together with which this module is proved about: hence the names.       *)
(***************************************************************************)
EXTENDS Naturals

CONSTANTS
  Groups,      \* groups of the backend that the sender may belong to
  Words,       \* what their names say
  NoHint,      \* no group_hint
  MaxChanges   \* bound on the groups that are added, renamed or removed

VARIABLES
  name,     \* name[g]: the name of group g, for each group of the sender
  state,    \* "queued", "asking" (NEEDS_CLARIFICATION) or "filed"
  hint,     \* jobs.group_hint
  options,  \* the names offered by the last question, by their groups
  picked,   \* the group whose option the answer to it named, or {}
  refused,  \* the last answer, if it was not accepted
  filed,    \* the group the transcript was filed under, or {}
  changes

question == <<name, state, hint, options, picked, refused, filed, changes>>

\* A name as it is written: the words, in one letter case or another, with
\* one blank between them or more.
Name == [word : Words, case : {"listed", "other"}, blanks : {1, 2}]

ASSUME GroupAssumption == NoHint \notin Name /\ MaxChanges \in Nat

\* What name.strip().lower() still tells apart ...
Lower(n) == <<n.word, n.blanks>>

\* (Slip: answers are compared letter by letter.  The definitions marked like
\* this are no part of the model: each is the operator after it with a
\* plausible mistake, which the properties must be able to notice.)
NormaliseNothing(n) == n

\* ... and what _normalise does, which also folds runs of blanks into one.
Normalise(n) == n.word

\* What the backend may list for the sender: no group, some, or several whose
\* names are hardly different or not at all.
Listings == UNION {[S -> Name] : S \in SUBSET Groups}

QuestionInit ==
  /\ name \in Listings
  /\ state = "queued"
  /\ hint \in Name \cup {NoHint}
  /\ options = [g \in {} |-> NoHint]
  /\ picked = {} /\ refused = NoHint /\ filed = {} /\ changes = 0

(* On the backend a group is added, renamed or removed.                    *)
Change(g) ==
  /\ state # "filed"
  /\ changes < MaxChanges
  /\ changes' = changes + 1
  /\ name' \in {f \in Listings \ {name} : \A h \in Groups \ {g} :
                  /\ h \in DOMAIN f <=> h \in DOMAIN name
                  /\ h \in DOMAIN f => f[h] = name[h]}
  /\ UNCHANGED <<state, hint, options, picked, refused, filed>>

-----------------------------------------------------------------------------
(* The worker: list_groups, match_group and what follows.                  *)

\* (Slip: a hint that fits two groups is settled by the first.)
CandidatesFirst ==
  LET fit == {g \in DOMAIN name : hint = NoHint \/ Lower(name[g]) = Lower(hint)}
  IN  IF hint # NoHint /\ fit # {} THEN {CHOOSE g \in fit : TRUE} ELSE fit

\* The groups that fit the hint; all of them if there is none.
Candidates == {g \in DOMAIN name : hint = NoHint \/ Lower(name[g]) = Lower(hint)}

(* Matched: the transcript is filed, or the question answered.             *)
File ==
  /\ state = "queued"
  /\ \E g \in Groups : Candidates = {g}
  /\ state' = "filed"
  /\ filed' = Candidates
  /\ UNCHANGED <<name, hint, options, picked, refused, changes>>

\* (Slip: only the first question is stored.)
AskOnce ==
  /\ state = "queued"
  /\ ~\E g \in Groups : Candidates = {g}
  /\ state' = "asking"
  /\ options' = IF options = [g \in {} |-> NoHint] THEN name ELSE options
  /\ picked' = {} /\ refused' = NoHint
  /\ UNCHANGED <<name, hint, filed, changes>>

(* Ambiguous or NoMatch: the sender is offered the names of his groups.    *)
Ask ==
  /\ state = "queued"
  /\ ~\E g \in Groups : Candidates = {g}
  /\ state' = "asking"
  /\ options' = name
  /\ picked' = {} /\ refused' = NoHint
  /\ UNCHANGED <<name, hint, filed, changes>>

-----------------------------------------------------------------------------
(* The mail thread: _continue_clarification.                               *)

\* The options an answer of n means.
Meant(n) == {g \in DOMAIN options : Normalise(options[g]) = Normalise(n)}

(* An answer that means one option becomes the hint, and the job is queued *)
(* again.                                                                  *)
Answer(n) ==
  /\ state = "asking"
  /\ \E g \in Groups :
       /\ Meant(n) = {g}
       /\ hint' = options[g]
  /\ state' = "queued"
  /\ picked' = Meant(n) /\ refused' = NoHint
  /\ UNCHANGED <<name, options, filed, changes>>

(* After any other the same question is mailed again.                      *)
AskAgain(n) ==
  /\ state = "asking"
  /\ ~\E g \in Groups : Meant(n) = {g}
  /\ refused' = n
  /\ UNCHANGED <<name, state, hint, options, picked, filed, changes>>

MatchStep == File \/ Ask

QuestionNext ==
  \/ MatchStep
  \/ \E n \in Name : Answer(n) \/ AskAgain(n)
  \/ \E g \in Groups : Change(g)

QuestionSpec == QuestionInit /\ [][QuestionNext]_question

(* The worker polls (worker.py:80-86).  The sender is assumed to hit upon  *)
(* an answer that is accepted, sooner or later, as long as there is one.   *)
FairQuestion ==
  /\ QuestionSpec
  /\ WF_question(MatchStep) /\ WF_question(\E n \in Name : Answer(n))

-----------------------------------------------------------------------------
(* Properties.                                                             *)

\* The shape of the state.
QuestionTypeOK ==
  /\ name \in Listings /\ options \in Listings \cup {[g \in {} |-> NoHint]}
  /\ state \in {"queued", "asking", "filed"}
  /\ hint \in Name \cup {NoHint} /\ refused \in Name \cup {NoHint}
  /\ picked \in SUBSET Groups /\ filed \in SUBSET Groups
  /\ changes \in 0..MaxChanges

\* An answer that is accepted settles the question: unless the groups have
\* changed since they were offered, the worker finds the group it named and
\* does not ask again, although it compares names in another way
\* (group_matching.py:32-38, pipeline.py:284, 380-381).
AnswerSettles ==
  state = "queued" /\ picked # {} /\ name = options => Candidates = picked

\* Whatever else has been added, removed or renamed since: as long as the
\* group the sender named keeps its name, no other one gets the transcript.
NeverAnotherGroup ==
  \A g \in picked :
    state = "filed" /\ g \in DOMAIN name /\ name[g] = options[g] => filed = {g}

\* The sender has something to choose from, and _normalise can tell it apart.
Clear ==
  /\ DOMAIN name # {}
  /\ \A g, h \in DOMAIN name : Normalise(name[g]) = Normalise(name[h]) => g = h

\* A question comes to an end once the groups no longer change, provided that
\* the sender could choose at all times.
QuestionEnds == []Clear => (state = "asking" ~> state = "filed")

-----------------------------------------------------------------------------
\* The inductive invariant behind AnswerSettles and NeverAnotherGroup: the
\* hint is the option that was picked, which was like no other; and a job is
\* filed where its hint pointed at that time.
AnswerInv ==
  /\ picked # {} => \E g \in Groups :
       /\ g \in DOMAIN options /\ hint = options[g]
       /\ picked = {g} /\ Meant(hint) = {g}
  /\ state = "filed" => filed = Candidates /\ \E g \in Groups : filed = {g}
=============================================================================

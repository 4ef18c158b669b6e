\* Two groups, either or both of which may be missing; two names in all
\* spellings; two changes while the job is under way.
CONSTANTS
  Groups = {g1, g2}
  Words = {red, blue}
  NoHint = NoHint
  MaxChanges = 2
SPECIFICATION FairQuestion
CHECK_DEADLOCK FALSE
INVARIANTS AnswerSettles NeverAnotherGroup
PROPERTIES QuestionEnds

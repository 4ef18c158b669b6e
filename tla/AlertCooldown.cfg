\* The mail thread with two of its categories, one of which two overlapping
\* weekly processes raise too; a call that is cut short.
CONSTANTS
  Actors = {"mail", w1, w2}
  Categories = {"UNAUTHORISED_SENDER", "INFRASTRUCTURE"}
  Cooldown = 2
  MaxStops = 1
SPECIFICATION FairSpec
INVARIANTS NoFlood
PROPERTIES TellsAgain

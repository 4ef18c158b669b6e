\* One message, nothing fails: the code as it stands.
CONSTANTS
  Ids = {m1}
  Copies = 1
  Redelivered = {}
  RaisesFor = {m1}
  Outside = {}
  Unreadable = {}
  Admins = {TRUE}
  MaxOutages = 0
  MaxFaults = 0
SPECIFICATION FairSpec
PROPERTIES AuthorisedIsAnswered

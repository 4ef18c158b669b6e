\* One mail of up to two attachments; each request is made up to three times.
CONSTANTS
  Stems = {a, b}
  MaxSize = 2
  Owners = {owner}
  Domains = {inside}
  Speakers = {s1, s2, s3}
  Members = {m1, m2}
  Sizes = {1, 3}
  MaxFiles = 2
  MaxRetries = 2
  MaxAttempts = 3
SPECIFICATION Spec
INVARIANTS StoredIsSound CompletedIsWhole OrphansAreEmpty
PROPERTIES ConflictIsItsOwn OneSourceIsEnough ImplementsLifecycle
CHECK_DEADLOCK FALSE

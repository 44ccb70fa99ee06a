SPECIFICATION Spec
CONSTANTS
  v1 = v1
  v2 = v2
  alice = alice
  Versions = {v1, v2}
  Ratified = v1
  TextsCover = {}
  Scheduler = scheduler
  Nothing = Nothing
  NoTable = NoTable
  Operators = {}
INVARIANTS TypeOK PublishedAsValidated ScoredUnderOneVersion
PROPERTIES GreenRunIsCurrent

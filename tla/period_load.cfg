SPECIFICATION FairSpec
CONSTANTS
  june = june
  doubled = doubled
  alice = alice
  Slices = {june, doubled}
  Members = 2
  Counted = {june, doubled}
  Unique = {june}
  SameListens <- MCSameListens
  Scheduled = june
  Operators = {alice}
  Scheduler = scheduler
  Missing = Missing
  NoTable = NoTable
  MaxMishaps = 2
INVARIANTS TypeOK OneSliceInForce
PROPERTIES LoadsAreAtomic LoadedInTheEnd

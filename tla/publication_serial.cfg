SPECIFICATION Spec
CONSTANTS
  m1 = m1
  m2 = m2
  r0 = r0
  r1 = r1
  r3 = r3
  AmountOfR3 = 5
  v1 = v1
  v2 = v2
  v3 = v3
  v4 = v4
  rehearsal = rehearsal
  legacy = legacy
  successor = successor
  n11 = n11
  n12 = n12
  Universes = {m1, m2, r1, r3}
  MatchUniverses = {m1, m2}
  RestatedUniverses = {r1, r3}
  PolicyUniverse = m1
  Barren = {}
  Complete = {m1, m2, r1, r3}
  Amount <- MCAmount
  Covers <- MCCovers
  NormOf <- MCNormOf
  Runs = {v1, v2, v3, v4, rehearsal}
  PriorRun = v1
  PriorPaid = 1
  RehearsalRun = rehearsal
  PublishedRestatement = v2
  RestatementIds = {legacy, successor}
  LegacyId = legacy
  RecordedDelta <- MCRecordedDelta
  RestateArgs <- MCRestateArgs
  NewRun <- MCNewRun
  PublicationIds = {"pub:v1", "pub:v2"}
  PriorPublication = "pub:v1"
  NewPublication = "pub:v2"
  FreezeIds = {"pub:v1"}
  Sessions = {"operator"}
  NoTable = NoTable
  Unexplained = Unexplained
  NotGiven = NotGiven
  NoEntry = NoEntry
  NoRow = NoRow
  Parked = Parked
  SumOfNothingIsNull = TRUE
INVARIANTS TypeOK RegisteredRestatementReconciles PricedUnderItsVersion
PROPERTIES PublishedRowsAreImmutable

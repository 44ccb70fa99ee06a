SPECIFICATION Spec
CONSTANTS
  m1 = m1
  m2 = m2
  r0 = r0
  r1 = r1
  r3 = r3
  AmountOfR3 = 5
  v1 = v1
  v2 = v2
  v3 = v3
  v4 = v4
  rehearsal = rehearsal
  legacy = legacy
  successor = successor
  n11 = n11
  n12 = n12
  Universes = {m1, r0, r1}
  MatchUniverses = {m1}
  RestatedUniverses = {r0, r1}
  PolicyUniverse = m1
  Barren = {r0}
  Complete = {m1, r1}
  Amount <- MCAmount
  Covers <- MCCovers
  NormOf <- MCNormOf
  Runs = {v1, v2, v3, v4, rehearsal}
  PriorRun = v1
  PriorPaid = 1
  RehearsalRun = rehearsal
  PublishedRestatement = v2
  RestatementIds = {legacy, successor}
  LegacyId = legacy
  RecordedDelta <- MCRecordedDelta
  RestateArgs <- MCRestateArgs
  NewRun <- MCNewRun
  PublicationIds = {"pub:v1", "pub:v2"}
  PriorPublication = "pub:v1"
  NewPublication = "pub:v2"
  FreezeIds = {"pub:v1", "pub:v2"}
  Sessions = {"operator"}
  NoTable = NoTable
  Unexplained = Unexplained
  NotGiven = NotGiven
  NoEntry = NoEntry
  NoRow = NoRow
  Parked = Parked
  SumOfNothingIsNull = FALSE
INVARIANTS CurrentHasRows FrozenEntriesMatchTheFact
PROPERTIES RepublishingOnlyValidates RegistryIsAppendOnly ReportedPromotionIsInForce Ledger

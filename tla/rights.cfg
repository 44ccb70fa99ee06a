SPECIFICATION Spec
CONSTANTS
  june = june
  revised = revised
  requoted = requoted
  gapless = gapless
  Null = Null
  NoTable = NoTable
  Idle = Idle
  Versions <- MCVersions
  RightsVersion <- MCRightsVersion
  Universe <- MCUniverse
  Orphans <- MCOrphans
  HolderCount = 4
  Reserved = 1
  Quota <- MCQuota
  DefectRank <- MCDefectRank
  IsChanging <- MCIsChanging
  Count <- MCCount
  Draw <- MCDraw
  Weight <- MCWeight
  PendingPayees <- MCPendingPayees
  RateCard <- MCRateCard
  ExpectedGapDays = 1
  Listens <- MCListens
  Streams <- MCStreams
  MatchRuns <- MCMatchRuns
  FrozenRun = "frozen"
  MatchedAs <- MCMatchedAs
  PolicyVersion = june
  Revised = 1
  MaxMishaps = 2
INVARIANTS TypeOK LandedAsGenerated DefectsAreFound GatesAgree PaidAsOwned ClosesInCents
PROPERTIES ClearedIsAsInjected

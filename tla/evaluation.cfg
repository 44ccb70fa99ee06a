SPECIFICATION Spec
INVARIANTS TypeOK ShippedAsCalibrated ReportedAsDecided
PROPERTIES ChosenByTheRule
CONSTANTS
  e0 = e0
  e1 = e1
  e2 = e2
  e3 = e3
  f1 = f1
  f2 = f2
  f3 = f3
  f4 = f4
  f5 = f5
  g1 = g1
  g2 = g2
  a = a
  b = b
  c = c
  z = z
  Listens = {e0, e1, e2, e3, f1, f2, f3, f4, f5, g1, g2}
  Recordings = {a, b, c, z}
  Snapshot = {a, b, c}
  Unlabelled = Unlabelled
  Modulus = 100
  Hash <- MCHash
  DevUpper = 80
  CalibrationUpper = 75
  Names <- MCNames
  Version = Version
  ExactOf <- MCExactOf
  FallbackOf <- MCFallbackOf
  FeaturesOf <- MCFeaturesOf
  ScoredFeatures <- MCScoredFeatures
  WeightSets <- MCWeightSets
  ExactThresholds = {55, 95}
  FallbackThresholds = {65, 85}
  Margins = {2, 10}
  Epsilons = {1, 5}
  Bound = 40
  Floor = 1
  References <- MCReferences
  LiveRules <- MCLiveRules
  Blank = {""}
  Lettered = {"a", "b"}
  Folding <- MCFolding
  KeyOf = KeyOf
  Absent = Absent
  NoTable = NoTable
  NoReport = NoReport
  MaxCalibrations = 1

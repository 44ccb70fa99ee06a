SPECIFICATION Spec
INVARIANTS TypeOK IdsTellCohortsApart NoTieIsBroken
PROPERTIES AcceptedIsExact
SYMMETRY Colleagues
CONSTANTS
  l1 = l1
  l2 = l2
  l3 = l3
  l4 = l4
  l5 = l5
  l6 = l6
  l7 = l7
  l8 = l8
  x = x
  y = y
  Reasons <- MCReasons
  KnownScripts = {"hangul", "kana"}
  Predicates <- MCPredicates
  Versions <- MCVersions
  LegacyRuns = {"restate:pending"}
  NoDigest = NoDigest
  NoRun = NoRun
  Listens = {l1, l2, l3, l4, l5, l6, l7, l8}
  Recordings = {x, y}
  Keys <- MCKeys
  Strings <- MCStrings
  Names <- MCNames
  ScriptsOf <- MCScriptsOf
  FallbackOf <- MCFallbackOf
  FeaturesOf <- MCFeaturesOf
  ScoredFeatures <- MCScoredFeatures
  LiveScoring <- MCLiveScoring
  ScoringRules <- MCScoringRules
  KeyOf <- MCKeyOf
  Blank = {""}
  Lettered <- MCLettered
  Folding <- MCFolding
  BlockingIndex <- MCBlockingIndex
  Transliterated <- MCTransliterated
  Frozen <- MCFrozen
  Rejected <- MCRejected
  Absent = Absent
  Empty = ""
  NoTable = NoTable
  Operators = {alice, bob}
  MaxEdits = 2
  MaxMishaps = 1

---------------------------- MODULE MCReprocess ----------------------------
(***************************************************************************)
(* Eight listens: one in mixed script that pub:v1 matched by its Latin part, *)
(* a Korean one with one candidate under the new rules, a Japanese one     *)
(* with two, a Latin one, and two Korean ones of one recording without     *)
(* an artist, NULL in one and empty in the other, and two that are         *)
(* scored: one whose two candidates are too near each other, and one whose *)
(* fallback key has two of which one cannot be compared.                   *)
(***************************************************************************)
EXTENDS Reprocess, TLC

CONSTANTS l1, l2, l3, l4, l5, l6, l7, l8, x, y

\* The operators run the same programs.
Colleagues == Permutations(Operators)

MCReasons == ReprocessReasons \cup {"BELOW_THRESHOLD"}
MCFrozen == [reasons |-> {"NO_LOOKUP_KEY_PARTIAL", "NO_LOOKUP_KEY_EMPTY"},
             scripts |-> {"hangul", "kana"}]
MCRejected == [MCFrozen EXCEPT !.reasons = {}]
MCCyrillic == [MCFrozen EXCEPT !.scripts = {"cyrillic"}]
MCPredicates == {MCFrozen, MCRejected, MCCyrillic}
MCVersions == {PriorRules, LiveRules}

MCNames ==
  [l \in Listens |->
     CASE l = l1 -> [artist |-> "a", recording |-> "mixed"]
       [] l = l2 -> [artist |-> "a", recording |-> "korean"]
       [] l = l3 -> [artist |-> "japanese", recording |-> "japanese"]
       [] l = l4 -> [artist |-> "b", recording |-> "latin"]
       [] l = l5 -> [artist |-> Absent, recording |-> "korean"]
       [] l = l6 -> [artist |-> Empty, recording |-> "korean"]
       [] l = l7 -> [artist |-> "b", recording |-> "remix"]
       [] l = l8 -> [artist |-> "b", recording |-> "live"]]
MCStrings == {"a", "b", "mixed", "korean", "japanese", "latin", "remix", "live"}

MCScriptsOf ==
  [name \in Pairs |->
     CASE name.recording \in {"mixed", "korean"} -> {"hangul"}
       [] name.recording = "japanese" -> {"kana"}
       [] OTHER -> {}]

MCLettered == MCStrings
MCFolding ==
  [v \in Versions |-> MCLettered \ IF v = PriorRules THEN {"korean", "japanese"} ELSE {}]
MCKeyOf ==
  [v \in Versions |-> [pair \in HashedPairs |->
     IF pair.recording = "mixed" /\ v = PriorRules THEN "latin" ELSE pair.recording]]
MCKeys == MCStrings

MCBlockingIndex == {<<x, "latin">>, <<y, "japanese">>, <<x, "remix">>, <<y, "remix">>}
MCFallbackOf ==
  [pair \in HashedPairs |-> IF pair.recording = "live" THEN {x, y} ELSE {}]

MCScoredFeatures == {"recording_string_similarity", "release_lower_exact"}
Weighed(margin, epsilon) ==
  [weights |-> [f \in MCScoredFeatures |-> IF f = "release_lower_exact" THEN 5 ELSE 10],
   exact |-> 55, fallback |-> 85, margin |-> margin, epsilon |-> epsilon]
MCLiveScoring == Weighed(2, 1)
MCScoringRules == {MCLiveScoring, Weighed(4, 1), Weighed(2, 3)}

\* Of "remix" x has 97.3 % and y 96; of "live" x has 86 % and y nothing to compare.
MCFeaturesOf ==
  [pair \in HashedPairs |-> [r \in Recordings |-> [f \in MCScoredFeatures |->
     CASE pair.recording = "live" /\ r = y -> Absent
       [] f = "release_lower_exact" -> IF pair.recording = "remix" THEN 100 ELSE Absent
       [] pair.recording = "remix" -> IF r = x THEN 96 ELSE 94
       [] OTHER -> 86]]]

MCTransliterated ==
  [v \in Versions |-> IF v = LiveRules THEN {<<y, "korean">>, <<x, "japanese">>} ELSE {}]

=============================================================================

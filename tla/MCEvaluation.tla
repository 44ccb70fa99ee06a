---------------------------- MODULE MCEvaluation ----------------------------
(***************************************************************************)
(* Eleven listens: by the exact key, one that is decided without a score   *)
(* and three with two candidates; by the fallback key, five with one       *)
(* candidate and two with two.  Recording a is of the calibration          *)
(* partition, b of the validation one, c of the holdout; z is of           *)
(* calibration as well, and is not in the snapshot.  Listens of the same   *)
(* stage differ in how near their candidates are and in whether they       *)
(* carry a release.                                                        *)
(***************************************************************************)
EXTENDS Evaluation, TLC

CONSTANTS e0, e1, e2, e3, f1, f2, f3, f4, f5, g1, g2, a, b, c, z

MCHash ==
  [salt \in {"split", "calibration"} |-> [r \in Recordings |->
     IF salt = "split" THEN IF r = c THEN 80 ELSE 79
     ELSE IF r = b THEN 75 ELSE 74]]

MCNames == [l \in Listens |-> [artist |-> "a", recording |-> "b"]]
MCFolding == [v \in {Version} |-> {"a", "b"}]

MCExactOf == [l \in Listens |->
  CASE l = e0 -> {a} [] l \in {e1, e2, e3} -> {a, b} [] OTHER -> {}]
MCFallbackOf == [l \in Listens |->
  CASE l \in {f1, f2, f3} -> {a} [] l \in {f4, f5} -> {b} [] l \in {g1, g2} -> {a, b} [] OTHER -> {}]

\* The similarity of the recording, then whether the release is the same.
MCScoredFeatures == {"recording_string_similarity", "release_lower_exact"}
Likeness(first, second) ==
  [f \in MCScoredFeatures |-> IF f = "release_lower_exact" THEN second ELSE first]

MCFeaturesOf == [l \in Listens |-> [r \in Recordings |->
  CASE l = e1 -> Likeness(IF r = a THEN 98 ELSE 70, Absent)
    [] l = e2 -> Likeness(IF r = a THEN 90 ELSE 87, IF r = a THEN 0 ELSE 100)
    [] l = e3 -> Likeness(IF r = a THEN 80 ELSE 99, Absent)
    [] l = f1 -> Likeness(96, Absent)
    [] l = f2 -> Likeness(88, 100)
    [] l = f3 -> Likeness(70, Absent)
    [] l = f5 -> Likeness(90, Absent)
    [] l = g1 -> Likeness(IF r = a THEN 97 ELSE 90, Absent)
    [] l = g2 -> Likeness(IF r = a THEN 86 ELSE 91, IF r = a THEN 100 ELSE 0)
    [] OTHER -> Likeness(92, 100)]]

Weights(first, second) == [f \in MCScoredFeatures |-> IF f = "release_lower_exact" THEN second ELSE first]
MCWeightSets == {Weights(10, 0), Weights(10, 5)}

MCLiveRules == [weights |-> Weights(10, 5), exact |-> 55, fallback |-> 85, margin |-> 2, epsilon |-> 1]

\* Some labels agree with a candidate whatever happens, one can never be retrieved (f5), and
\* of the others some name another candidate, another partition, no recording of the
\* snapshot, or nothing. The holdout is empty under a third of them.
MCReferences ==
  {[l \in Listens |->
      CASE l \in {e1, f1, f5, g1} -> a
        [] l = e0 -> IF unique = a THEN a ELSE c
        [] l \in {e3, f4} -> b
        [] l = e2 -> second [] l = f2 -> unique [] l = g2 -> multiple
        [] l = f3 -> IF unique = z THEN z ELSE Absent] :
     second \in {a, b}, unique \in {a, c, z}, multiple \in {a, b, z}}

=============================================================================

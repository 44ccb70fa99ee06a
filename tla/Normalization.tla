--------------------------- MODULE Normalization ---------------------------
(***************************************************************************)
(* What normalize makes of the two names of a listen                       *)
(* (src/normalization/normalizer.py): whether its content is valid, and    *)
(* whether it has an exact key, which are told apart.                      *)
(*                                                                         *)
(* The rewriting of the names, character by character, is a constant.      *)
(***************************************************************************)
EXTENDS FiniteSets

CONSTANTS
  Blank,     \* the names that are empty or white
  Lettered,  \* the names with a letter or a digit of any script
  Folding,   \* Folding[version]: the names of which something is left in ASCII
  KeyOf      \* KeyOf[version][pair]: the two folded names of a pair, concatenated

\* Judged on the names, never on the key.
NormalizationStatus(pair) ==
  IF pair.artist \in Blank THEN "MISSING_ARTIST"
  ELSE IF pair.recording \in Blank THEN "MISSING_RECORDING"
  ELSE IF ~({pair.artist, pair.recording} \subseteq Lettered) THEN "NO_ALPHANUMERIC_CONTENT"
  ELSE "VALID"

KeyStatus(version, pair) ==
  LET halves == {half \in {"artist", "recording"} : pair[half] \in Folding[version]} IN
  CASE Cardinality(halves) = 2 -> "AVAILABLE"
    [] Cardinality(halves) = 1 -> "PARTIAL"
    [] OTHER -> "EMPTY"

\* Only ever emitted when both halves exist: the recordings of an index under the key.
WithKey(version, pair, index) ==
  IF KeyStatus(version, pair) = "AVAILABLE"
  THEN {row[1] : row \in {row \in index : row[2] = KeyOf[version][pair]}} ELSE {}

\* Why a listen is not matched: what its names or its key are missing comes first.
FailureReason(version, pair, outcome) ==
  LET status == NormalizationStatus(pair)
      key == KeyStatus(version, pair) IN
  CASE status # "VALID" -> status
    [] status = "VALID" /\ key = "PARTIAL" -> "NO_LOOKUP_KEY_PARTIAL"
    [] status = "VALID" /\ key = "EMPTY" -> "NO_LOOKUP_KEY_EMPTY"
    [] OTHER -> outcome

=============================================================================

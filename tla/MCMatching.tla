----------------------------- MODULE MCMatching -----------------------------
(***************************************************************************)
(* Constants for model-checking Matching: v1 is the version of the         *)
(* published match run and of the EXPECTED_* counts, v2 the next one.      *)
(***************************************************************************)
EXTENDS Matching, TLC

CONSTANTS v1, v2, alice
=============================================================================

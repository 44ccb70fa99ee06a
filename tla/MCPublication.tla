--------------------------- MODULE MCPublication ---------------------------
(***************************************************************************)
(* Constants for model-checking Publication.  m1 is the match run the      *)
(* policy names and m2 a later one; r1 is the cohort restated as intended, *)
(* r3 one under the next normalization version, r0 one that matched        *)
(* nothing, and so lost the recordings that were paid.  The run ids stand  *)
(* for what the identity module hashes from the arguments of the restater. *)
(***************************************************************************)
EXTENDS Publication, TLC

CONSTANTS m1, m2, r0, r1, r3, v1, v2, v3, v4, rehearsal, legacy, successor, n11, n12,
          AmountOfR3

MCAmount == [u \in Universes |->
  CASE u = r0 -> 0 [] u = r1 -> 3 [] u = r3 -> AmountOfR3 [] OTHER -> 1]

MCCovers ==
  {c \in Universes \X Universes : c[1] = c[2] \/ c[1] \in {r1, r3}}

\* restate:6b39... is recorded with the difference between v1 and r1.
MCRecordedDelta == (legacy :> 2) @@ (successor :> Unexplained)

MCNormOf == [u \in Universes |-> CASE u = m1 -> NotGiven
                                   [] u \in {m2, r3} -> n12
                                   [] OTHER -> n11]

\* The default id under two versions, and an id the registry does not explain.
MCRestateArgs == {[rid |-> legacy, norm |-> n11], [rid |-> legacy, norm |-> n12],
                  [rid |-> successor, norm |-> n11]}

MCNewRun == [a \in MCRestateArgs |-> IF a.rid = successor THEN v3
                                     ELSE IF a.norm = n11 THEN v2 ELSE v4]
=============================================================================

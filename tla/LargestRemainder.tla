-------------------------- MODULE LargestRemainder --------------------------
(***************************************************************************)
(* One amount among the holders of a set: allocate of src/payout/          *)
(* rounding.py, and the same rule as fct_royalty_attribution states it in  *)
(* SQL. A rate is counted in 0.0001 $ and a share in 0.0001 %.             *)
(***************************************************************************)
EXTENDS Naturals, FiniteSets, Functions

\* The one rounding point: gross royalty in cents, half up.
TargetCents(streams, rate) == (streams * rate + 50) \div 100

\* The order of the leftover cents: the largest fraction first, then the lowest holder.
Rank(fraction, h) ==
  1 + Cardinality({k \in DOMAIN fraction :
                     fraction[k] > fraction[h] \/ (fraction[k] = fraction[h] /\ k < h)})

Leftover(amount, cent, target) == target - SumFunction([h \in DOMAIN amount |-> amount[h] \div cent])

\* Mutant: the last of the leftover cents is not given.
OneCentShort(amount, cent, target) ==
  [h \in DOMAIN amount |->
     amount[h] \div cent
       + IF Rank([k \in DOMAIN amount |-> amount[k] % cent], h) < Leftover(amount, cent, target)
         THEN 1 ELSE 0]

\* What each holder is paid in cents, of unrounded amounts of which `cent` make one.
Allocate(amount, cent, target) ==
  [h \in DOMAIN amount |->
     amount[h] \div cent
       + IF Rank([k \in DOMAIN amount |-> amount[k] % cent], h) <= Leftover(amount, cent, target)
         THEN 1 ELSE 0]

\* gross * share / 100, exactly: in 1e-10 $.
Unrounded(streams, rate, share) == [h \in DOMAIN share |-> streams * rate * share[h]]

\* NUMERIC has nine decimals, and rounds half away from zero.
Numeric(amount) == [h \in DOMAIN amount |-> (amount[h] + 5) \div 10]

PythonCents(streams, rate, share) ==
  Allocate(Unrounded(streams, rate, share), 100000000, TargetCents(streams, rate))

SqlCents(streams, rate, share) ==
  Allocate(Numeric(Unrounded(streams, rate, share)), 10000000, TargetCents(streams, rate))

ClosesIn(cents, target) == SumFunction(cents) = target

=============================================================================

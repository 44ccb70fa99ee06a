---------------------------- MODULE RightsModel ----------------------------
(***************************************************************************)
(* What the generator makes of a rights model: src/rights/generator.py.    *)
(*                                                                         *)
(* A version of config/rights_model.yml fixes a seed, and every choice is  *)
(* hashed from the seed and the thing it is about: the choices are the     *)
(* constant operators below, and arbitrary. Dates are numbered by what     *)
(* they bound, since nothing happens between two of those.                 *)
(***************************************************************************)
EXTENDS Naturals, Sequences, FiniteSets, Functions

CONSTANTS
  Versions,             \* of config/rights_model.yml
  RightsVersion(_),     \* the seed and the rights_version written in it
  Universe,             \* the recordings the frozen match run matched
  Orphans,              \* recordings that are in no catalogue, the same for each version
  HolderCount,          \* rights_holders
  Reserved,             \* of which these many, the last, own nothing
  Quota,                \* Quota[v][kind]: how many recordings are to have the defect
  DefectRank(_, _),     \* of a version and a recording
  IsChanging(_, _),     \* ... whether its ownership changes in mid-period
  Count(_, _, _),       \* ... and of a salt: how many holders
  Draw(_, _, _, _),     \*     the index drawn for each slot
  Weight(_, _, _, _),   \*     the weight of each share
  PendingPayees(_),     \* the holders with payee_status PENDING_VERIFICATION
  RateCard(_),          \* the rate intervals: a set of [card, from, to, rate]
  ExpectedGapDays

\* The dates that bound something, in the order of the calendar.
Base == 0
InvalidTo == 1       \* 06-01
GapStart == 2        \* 06-05
OverlapStart == 3    \* 06-10
RateChange == 4      \* 06-13
ChangeDate == 5      \* 06-15, InvalidFrom too
OverlapEnd == 6      \* 06-20, GapEnd too
OpenEnd == 7
Days == InvalidTo .. OverlapEnd

Holders == 0 .. HolderCount - 1
NoSuchHolder == 999999
Assignable == HolderCount - Reserved

\* DEFECT_ORDER; orphans are not selected but made up.
DefectOrder == <<"shares_do_not_sum_to_100", "temporal_overlap", "temporal_gap",
                 "invalid_interval", "missing_rights_holder">>
Kinds == {DefectOrder[i] : i \in DOMAIN DefectOrder}
Healthy == "healthy"

\* A share is counted in units of 0.0001 %.
Hundred == 1000000
MinimumShare == 10000
MostHolders == 4     \* the last of holders_per_recording

ASSUME RightsModelAssumption ==
  /\ HolderCount \in Nat /\ Reserved \in Nat /\ Reserved < HolderCount
  /\ HolderCount <= NoSuchHolder
  /\ Quota \in [Versions -> [Kinds -> Nat]]
  /\ Universe \cap Orphans = {}
  /\ IsFiniteSet(Universe) /\ IsFiniteSet(Orphans)
  /\ \A v \in Versions, r \in Universe \cup Orphans, salt \in {"a", "b"} :
       /\ Count(v, r, salt) \in 1 .. Assignable /\ Count(v, r, salt) <= MostHolders
       /\ \A n \in 1 .. Count(v, r, salt) :
            Draw(v, r, salt, n) \in 0 .. Assignable - 1 /\ Weight(v, r, salt, n) \in Nat \ {0}
  /\ \A v \in Versions :
       /\ IsFiniteSet(RateCard(v)) /\ \A card \in RateCard(v) : card.rate \in Nat
       /\ \A a, b \in RateCard(v) : a.card = b.card => a = b

-----------------------------------------------------------------------------
(* Holders and shares *)

\* assign_holder_index draws below Assignable; a collision walks forward.
FirstFree(index, taken) ==
  LET steps == CHOOSE k \in 0 .. Assignable - 1 :
                 /\ (index + k) % Assignable \notin taken
                 /\ \A j \in 0 .. k - 1 : (index + j) % Assignable \in taken
  IN  (index + steps) % Assignable

HoldersFor(v, recording, salt) ==
  LET chosen[n \in 0 .. Count(v, recording, salt)] ==
        IF n = 0 THEN <<>>
        ELSE Append(chosen[n - 1],
                    FirstFree(Draw(v, recording, salt, n),
                              {chosen[n - 1][i] : i \in 1 .. n - 1}))
  IN  chosen[Count(v, recording, salt)]

\* Decimal.quantize rounds half to even.
Quantized(numerator, denominator) ==
  LET floor == numerator \div denominator
      twice == 2 * (numerator % denominator)
  IN  IF twice > denominator \/ (twice = denominator /\ floor % 2 = 1)
      THEN floor + 1 ELSE floor

AtLeast(minimum, x) == IF x < minimum THEN minimum ELSE x

\* The last share is what the others leave of 100; where that is below the minimum the
\* shortfall is taken off the largest.
SharesFor(v, recording, salt) ==
  LET n == Count(v, recording, salt)
      total == SumFunction([i \in 1 .. n |-> Weight(v, recording, salt, i)])
      parts == [i \in 1 .. n - 1 |->
                  AtLeast(MinimumShare,
                          Quantized(Hundred * Weight(v, recording, salt, i), total))]
      last == Hundred - SumFunction(parts)
      biggest == CHOOSE i \in 1 .. n - 1 :
                   \A j \in 1 .. n - 1 : parts[j] < parts[i] \/ (parts[j] = parts[i] /\ i <= j)
  IN  [i \in 1 .. n |->
         IF i = n THEN AtLeast(MinimumShare, last)
         ELSE IF last < MinimumShare /\ i = biggest THEN parts[i] - (MinimumShare - last)
         ELSE parts[i]]

-----------------------------------------------------------------------------
(* Ownership *)

\* Mutant: only the recording and the date are hashed.
UnversionedId(v, recording, from) == <<recording, from>>

\* The digest of the rules is not hashed: the seed and the rights_version are.
SplitVersionId(v, recording, from) == <<RightsVersion(v), recording, from>>

\* A defect is 7.5 % taken off the first share, or a holder that does not exist.
SetRows(v, recording, from, to, salt, defect) ==
  LET holders == HoldersFor(v, recording, salt)
      shares == SharesFor(v, recording, salt)
  IN  {[recording |-> recording, from |-> from, to |-> to,
        split |-> SplitVersionId(v, recording, from),
        holder |-> IF i = 1 /\ defect = "missing_rights_holder"
                   THEN NoSuchHolder ELSE holders[i],
        share |-> IF i = 1 /\ defect = "shares_do_not_sum_to_100"
                  THEN IF shares[1] < 80000 THEN 5000 ELSE shares[1] - 75000
                  ELSE shares[i]] : i \in DOMAIN shares}

OwnershipRows(v, recording, defect) ==
  CASE defect = "temporal_overlap" ->
         SetRows(v, recording, Base, OverlapEnd, "a", Healthy)
         \cup SetRows(v, recording, OverlapStart, OpenEnd, "b", Healthy)
    [] defect = "temporal_gap" ->
         SetRows(v, recording, Base, GapStart, "a", Healthy)
         \cup SetRows(v, recording, OverlapEnd, OpenEnd, "b", Healthy)
    [] defect = "invalid_interval" ->
         SetRows(v, recording, ChangeDate, InvalidTo, "a", Healthy)
    [] defect = Healthy /\ IsChanging(v, recording) ->
         SetRows(v, recording, Base, ChangeDate, "a", Healthy)
         \cup SetRows(v, recording, ChangeDate, OpenEnd, "b", Healthy)
    [] OTHER -> SetRows(v, recording, Base, OpenEnd, "a", defect)

\* select_defects: each kind takes its quota of the recordings in the order of their rank.
DefectOf(v, recording, universe) ==
  LET rank == Cardinality({r \in universe : DefectRank(v, r) <= DefectRank(v, recording)})
      before(i) == SumFunction([j \in 1 .. i - 1 |-> Quota[v][DefectOrder[j]]])
      takers == {i \in DOMAIN DefectOrder :
                   before(i) < rank /\ rank <= before(i) + Quota[v][DefectOrder[i]]}
  IN  IF recording \in universe /\ takers # {}
      THEN DefectOrder[CHOOSE i \in takers : TRUE] ELSE Healthy

OwnershipSplits(v, universe) ==
  UNION {OwnershipRows(v, r, DefectOf(v, r, universe)) : r \in universe \cup Orphans}

-----------------------------------------------------------------------------
(* The rate card, and what loading a model checks *)

\* Half-open: the end of an interval is outside it.
Covers(from, to, day) == from <= day /\ day < to

\* rate_gap_days: between a card and the next one by their first days.
RateGapDays(v) ==
  LET next(r, q) == /\ r.from < q.from
                    /\ \A o \in RateCard(v) : o.from <= r.from \/ q.from <= o.from
  IN  {day \in Days : \E r, q \in RateCard(v) : next(r, q) /\ r.to <= day /\ day < q.from}

\* A config is the version it holds and the one its digest was recorded of.
Loads(config) ==
  /\ config.recorded = config.version
  /\ Cardinality(RateGapDays(config.version)) = ExpectedGapDays

=============================================================================

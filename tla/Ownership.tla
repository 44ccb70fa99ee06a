----------------------------- MODULE Ownership -----------------------------
(***************************************************************************)
(* The dbt models between the landed rights and the money, as functions of *)
(* the tables they read: which ownership sets are usable, which one is in  *)
(* force on a recording's day, which listens are paid and under which set, *)
(* and what each holder gets; and the payout policy's gates in Python.     *)
(*                                                                         *)
(* A listen of the model stands for Streams[l] listens of one recording on *)
(* one day with one outcome.                                               *)
(***************************************************************************)
EXTENDS LargestRemainder, FiniteSetsExt

CONSTANTS
  Listens,
  Streams,   \* Streams[l]: how many listens
  Null

HeldMethod == "SCORED_FALLBACK_UNIQUE"

InForce(row, day) == row.from <= day /\ day < row.to

-----------------------------------------------------------------------------
(* int_ownership_validity *)

\* The sets of the splits, each with its first interval.
SetOf(splits, recording, split) ==
  LET rows == {r \in splits : r.recording = recording /\ r.split = split} IN
  [recording |-> recording, split |-> split,
   from |-> Min({r.from : r \in rows}), to |-> Min({r.to : r \in rows}), rows |-> rows]

SetsOf(splits) == {SetOf(splits, r.recording, r.split) : r \in splits}

\* Mutant: the end of an interval belongs to it.
Touch(a, b) ==
  /\ a.recording = b.recording /\ a.split # b.split
  /\ a.from <= b.to /\ b.from <= a.to
  /\ a.from < a.to /\ b.from < b.to

\* Half-open intersection. An invalid interval intersects nothing.
Overlap(a, b) ==
  /\ a.recording = b.recording /\ a.split # b.split
  /\ a.from < b.to /\ b.from < a.to
  /\ a.from < a.to /\ b.from < b.to

\* The set before this one, by valid_from and valid_to, ended before this one begins.
Precedes(a, b) == a.from < b.from \/ (a.from = b.from /\ a.to < b.to)
GapIn(sets) ==
  \E a, b \in {s \in sets : s.from < s.to} :
    /\ Precedes(a, b) /\ b.from > a.to
    /\ ~\E c \in {s \in sets : s.from < s.to} : Precedes(a, c) /\ Precedes(c, b)

Flags(s, sets, holders, catalogue) ==
  {kind \in {"shares_do_not_sum_to_100", "invalid_interval", "missing_rights_holder",
             "orphan_recording_mbid", "temporal_overlap", "temporal_gap",
             "share_out_of_range", "two_intervals"} :
     CASE kind = "shares_do_not_sum_to_100" -> SumFunction([r \in s.rows |-> r.share]) # 1000000
       [] kind = "invalid_interval"         -> s.to <= s.from
       [] kind = "missing_rights_holder"    -> \E r \in s.rows : r.holder \notin holders
       [] kind = "orphan_recording_mbid"    -> s.recording \notin catalogue
       [] kind = "temporal_overlap"         -> \E other \in sets : Overlap(s, other)
       [] kind = "temporal_gap" -> GapIn({other \in sets : other.recording = s.recording})
       [] kind = "share_out_of_range"       -> \E r \in s.rows : r.share < 0 \/ r.share > 1000000
       [] kind = "two_intervals"            -> Cardinality({<<r.from, r.to>> : r \in s.rows}) > 1}

\* A set is usable only if nothing is wrong with it.
Validity(splits, holders, catalogue) ==
  LET sets == SetsOf(splits) IN
  {[recording |-> s.recording, split |-> s.split, from |-> s.from, to |-> s.to,
    flags |-> Flags(s, sets, holders, catalogue)] : s \in sets}

IsValid(set) == set.flags = {}

-----------------------------------------------------------------------------
(* int_payout_eligibility, int_eligible_recording_days, int_ownership_resolution *)

Eligible(row) == row.matched /\ row.method # HeldMethod

RecordingDays(eligibility) ==
  {<<eligibility[l].recording, eligibility[l].day>> : l \in {k \in Listens : Eligible(eligibility[k])}}

ResolutionStatus(sets, covering, claimed, rateRows) ==
  CASE covering > 1                     -> "MULTIPLE_VALID_SETS"
    [] covering = 1 /\ rateRows = 0     -> "RATE_CARD_GAP"
    [] covering = 1 /\ rateRows > 1     -> "RATE_CARD_OVERLAP"
    [] covering = 1 /\ rateRows = 1     -> "RESOLVED"
    [] covering = 0 /\ sets = {}        -> "NO_OWNERSHIP_RECORD"
    [] covering = 0 /\ sets # {} /\ (\A s \in sets : ~IsValid(s)) -> "DEFECTIVE_OWNERSHIP"
    [] covering = 0 /\ (\E s \in sets : IsValid(s)) /\ claimed    -> "COVERED_ONLY_BY_INVALID_SET"
    [] OTHER                            -> "OWNERSHIP_GAP_FOR_DATE"

\* A day with one covering set has that one, and no other day has any.
ResolvedDay(recording, day, validity, rates) ==
  LET sets == {s \in validity : s.recording = recording}
      covering == {s \in sets : IsValid(s) /\ InForce(s, day)}
      priced == {r \in rates : InForce(r, day)}
  IN  [recording |-> recording, day |-> day, rateRows |-> Cardinality(priced),
       split |-> IF Cardinality(covering) = 1
                 THEN (CHOOSE s \in covering : TRUE).split ELSE Null,
       rate |-> IF Cardinality(priced) = 1 THEN (CHOOSE r \in priced : TRUE).rate ELSE Null,
       status |-> ResolutionStatus(sets, Cardinality(covering),
                                   \E s \in sets : InForce(s, day), Cardinality(priced))]

Resolution(days, validity, rates) == {ResolvedDay(d[1], d[2], validity, rates) : d \in days}

-----------------------------------------------------------------------------
(* The gates: int_financial_disposition, and PayoutPolicy *)

OwnershipStatus ==
  [RESOLVED |-> "OWNERSHIP_RESOLVED", RATE_CARD_GAP |-> "OWNERSHIP_RESOLVED",
   RATE_CARD_OVERLAP |-> "OWNERSHIP_RESOLVED", DEFECTIVE_OWNERSHIP |-> "OWNERSHIP_DEFECTIVE",
   COVERED_ONLY_BY_INVALID_SET |-> "OWNERSHIP_COVERED_ONLY_BY_INVALID_SET",
   NO_OWNERSHIP_RECORD |-> "OWNERSHIP_MISSING",
   OWNERSHIP_GAP_FOR_DATE |-> "OWNERSHIP_GAP_FOR_DATE",
   MULTIPLE_VALID_SETS |-> "OWNERSHIP_AMBIGUOUS"]

RateStatus(rateRows) ==
  IF rateRows = Null THEN "NOT_APPLICABLE"
  ELSE IF rateRows = 1 THEN "RATE_RESOLVED"
  ELSE IF rateRows = 0 THEN "RATE_GAP" ELSE "RATE_AMBIGUOUS"

\* PayoutPolicy.disposition: the first gate that stops the listen. What is left is payable.
PythonDisposition(matched, method, status, rateRows) ==
  LET owned == IF status = Null THEN "NOT_APPLICABLE" ELSE OwnershipStatus[status] IN
  IF ~matched THEN "UNMATCHED"
  ELSE IF method = HeldMethod THEN "MATCH_RISK_POLICY"
  ELSE IF owned # "OWNERSHIP_RESOLVED" THEN "DEFECTIVE_OWNERSHIP"
  ELSE IF RateStatus(rateRows) = "RATE_GAP" THEN "RATE_CARD_GAP"
  ELSE IF RateStatus(rateRows) = "RATE_AMBIGUOUS" THEN "RATE_CARD_AMBIGUOUS"
  ELSE "ATTRIBUTABLE"

\* The SQL gates end in NULL, not in a payment.
SqlDisposition(matched, method, status, rateRows) ==
  LET owned == IF status = Null THEN "NOT_APPLICABLE"
               ELSE IF status \in DOMAIN OwnershipStatus THEN OwnershipStatus[status] ELSE Null
  IN
  IF ~matched THEN "UNMATCHED"
  ELSE IF method = HeldMethod THEN "MATCH_RISK_POLICY"
  ELSE IF owned \notin {"OWNERSHIP_RESOLVED", Null} THEN "DEFECTIVE_OWNERSHIP"
  ELSE IF RateStatus(rateRows) = "RATE_GAP" THEN "RATE_CARD_GAP"
  ELSE IF RateStatus(rateRows) = "RATE_AMBIGUOUS" THEN "RATE_CARD_AMBIGUOUS"
  ELSE IF RateStatus(rateRows) = "RATE_RESOLVED" THEN "ATTRIBUTABLE" ELSE Null

\* Mutant: a held listen keeps the set and the rate its recording's day resolved to.
CarriedByAll(status, value) == value

\* The payable columns of a listen that is not attributable are NULL.
IfAttributable(status, value) == IF status = "ATTRIBUTABLE" THEN value ELSE Null

\* A listen joins the day of its recording, where the day was resolved.
Disposed(row, resolution) ==
  LET days == {d \in resolution : d.recording = row.recording /\ d.day = row.day}
      joined(field) == IF days = {} THEN Null ELSE (CHOOSE d \in days : TRUE)[field]
      status == SqlDisposition(row.matched, row.method, joined("status"), joined("rateRows"))
  IN  [recording |-> row.recording, day |-> row.day, matched |-> row.matched,
       method |-> row.method, resolved |-> joined("status"), rateRows |-> joined("rateRows"),
       status |-> status, split |-> IfAttributable(status, joined("split")),
       rate |-> IfAttributable(status, joined("rate"))]

Disposition(eligibility, resolution) ==
  [l \in Listens |-> Disposed(eligibility[l], resolution)]

-----------------------------------------------------------------------------
(* int_attributable_streams, fct_royalty_attribution *)

AttributableStreams(disposition, rates) ==
  LET attributable == {l \in Listens : disposition[l].status = "ATTRIBUTABLE"}
      pays(l, r) == InForce(r, disposition[l].day)
      group(l, r) == [recording |-> disposition[l].recording, split |-> disposition[l].split,
                      card |-> r.card, rate |-> r.rate]
      groups == {group(p[1], p[2]) : p \in {p \in attributable \X rates : pays(p[1], p[2])}}
      paying(g) == {p \in attributable \X rates : pays(p[1], p[2]) /\ group(p[1], p[2]) = g}
      streams(g) == SumFunction([p \in paying(g) |-> Streams[p[1]]])
  IN  {[group |-> g, streams |-> streams(g)] : g \in groups}

\* The rows of the set the group was resolved to, in the splits as they are landed now.
RowsOf(group, splits) == {q \in splits : q.recording = group.recording /\ q.split = group.split}

Shares(rows) == [h \in {r.holder : r \in rows} |-> (CHOOSE r \in rows : r.holder = h).share]

\* An inner join: a group whose set is no longer landed has no holders, and no amount.
Attribution(streams, splits) ==
  {[group |-> b.group, streams |-> b.streams, share |-> Shares(RowsOf(b.group, splits)),
    cents |-> SqlCents(b.streams, b.group.rate, Shares(RowsOf(b.group, splits)))] :
     b \in {c \in streams : RowsOf(c.group, splits) # {}}}

=============================================================================

------------------------------ MODULE MCRights ------------------------------
(* Seven recordings: one with each defect, one whose ownership changes in    *)
(* mid-period, one with nothing special. The second version deals the same   *)
(* cards in another order; the third deals two of one kind and none of       *)
(* another; the last closes the gap of the rate card, which its              *)
(* configuration does not expect, and never loads.                           *)
EXTENDS Rights

CONSTANTS june, revised, requoted, gapless

MCVersions == {june, revised, requoted, gapless}
MCRightsVersion(v) == v

MCUniverse == 1 .. 7
MCOrphans == {8}
LateRecording == 9

MCQuota == [v \in MCVersions |-> [kind \in Kinds |->
  IF v # requoted THEN 1 ELSE CASE kind = "missing_rights_holder" -> 2
                                [] kind = "temporal_gap" -> 0 [] OTHER -> 1]]
\* Recording 6 changes hands and 7 is plain; the second version makes 7 the one that changes
\* and gives 6 what 5 had.
MCDefectRank(v, r) == IF v = revised THEN 1 + ((r + 5) % 7) ELSE r
MCIsChanging(v, r) == IF v = revised THEN r \in {7, 8} ELSE r = 6

MCCount(v, r, salt) == IF r = 7 /\ salt = "a" THEN 3 ELSE 2
MCDraw(v, r, salt, slot) ==
  (1 + r + slot + (IF salt = "b" THEN 1 ELSE 0) + (IF v = revised THEN 1 ELSE 0)) % 3
MCWeight(v, r, salt, slot) ==
  IF r = 7 /\ salt = "a" THEN <<1061, 221, 139>>[slot] ELSE IF r = 4 THEN <<300, 1>>[slot] ELSE slot
MCPendingPayees(v) == {0}
MCRateCard(v) ==
  {[card |-> "first", from |-> Base, to |-> IF v = gapless THEN RateChange ELSE OverlapStart, rate |-> 35],
   [card |-> "second", from |-> RateChange, to |-> OpenEnd, rate |-> 37]}

MCListens == 1 .. 12
\* The recording and the day of each listen; 10 is held, 11 unmatched.
Played == <<<<1, 4>>, <<2, 4>>, <<3, 2>>, <<4, 4>>, <<5, 4>>, <<6, 4>>, <<6, 5>>, <<7, 2>>,
            <<7, 3>>, <<7, 6>>, <<7, 2>>, <<7, 6>>>>
MCStreams == <<3, 3, 3, 3, 3, 5, 7, 29, 2, 4, 2, 11>>
MCMatchedAs(run, l) ==
  [recording |-> IF l = 11 THEN Null
                 ELSE IF run = "rematched" /\ l = 1 THEN LateRecording ELSE Played[l][1],
   day |-> Played[l][2],
   matched |-> l # 11,
   method |-> IF l = 11 THEN Null ELSE IF l = 10 THEN HeldMethod ELSE "EXACT_UNIQUE"]
MCMatchRuns == {"frozen", "rematched"}

=============================================================================

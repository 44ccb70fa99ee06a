---------------------------- MODULE RightsProofs ----------------------------
(***************************************************************************)
(* Type correctness of Rights; what is landed under a label; that the      *)
(* gates of the warehouse decide as the payout policy does; that what is   *)
(* paid closes to the cent, and is owned as one generation says; that the  *)
(* quality layer finds the defects that were injected, and what clearing   *)
(* it means: whatever lands or is rematched between the tables they read.  *)
(***************************************************************************)
EXTENDS Rights, FiniteSums

Assumptions == RightsModelAssumption /\ RightsAssumption /\ NullAssumption

LandingSteps == {"load", "insert", "drop", "report"}

\* A landing is at one of the tables it lands.
LanderTyped ==
  lander # Idle =>
    /\ lander \in [at : LandingSteps, version : Versions, revised : BOOLEAN, target : 1 .. 3]
    /\ lander.revised => lander.target = 1

BuilderTyped ==
  builder # Idle => /\ "at" \in DOMAIN builder
                    /\ builder.at \in Models \cup {"detect", "holders"}

\* What each table is labelled with.
Labels == {NoRun} \cup (Versions \X BOOLEAN)
LandedTyped ==
  \A t \in Tables : /\ landed[t].run \in Labels
                    /\ t # "rights_holders" => \A v \in Versions : landed[t].run # RunOf(v, TRUE)

Typed ==
  /\ config \in [version : Versions, recorded : Versions] /\ matches \in MatchRuns
  /\ DOMAIN landed = Tables /\ DOMAIN staged = Tables
  /\ LandedTyped
  /\ report \in Versions \cup {Null}
  /\ LanderTyped /\ BuilderTyped
  /\ verdict \in {"none", "cleared", "refused"}

LEMMA ThreeTables == Cardinality(Tables) = 3
<1>1. /\ IsFiniteSet({}) /\ Cardinality({}) = 0
  BY FS_EmptySet
<1>2. /\ IsFiniteSet({} \cup {"rights_holders"})
      /\ Cardinality({} \cup {"rights_holders"}) = 1
  BY <1>1, FS_AddElement
<1>3. /\ IsFiniteSet(({} \cup {"rights_holders"}) \cup {"ownership_splits"})
      /\ Cardinality(({} \cup {"rights_holders"}) \cup {"ownership_splits"}) = 2
  BY <1>2, FS_AddElement
<1>4. Cardinality((({} \cup {"rights_holders"}) \cup {"ownership_splits"}) \cup {"rate_card"}) = 3
  BY <1>3, FS_AddElement
<1>5. Tables = (({} \cup {"rights_holders"}) \cup {"ownership_splits"}) \cup {"rate_card"}
  BY DEF Tables
<1>6. QED
  BY <1>4, <1>5

LEMMA TypedIsTypeOK == Typed => TypeOK
<1>1. SUFFICES ASSUME Typed PROVE TypeOK
  OBVIOUS
<1>2. lander # Idle => lander.target \in 1 .. Cardinality(Tables)
  BY <1>1, ThreeTables DEF Typed, LanderTyped
<1>3. /\ config.version \in Versions /\ config.recorded \in Versions
      /\ matches \in MatchRuns /\ report \in Versions \cup {Null}
      /\ verdict \in {"none", "cleared", "refused"}
  BY <1>1 DEF Typed
<1>4. \A t \in Tables :
       /\ landed[t].run \in {NoRun} \cup (Versions \X BOOLEAN)
       /\ t # "rights_holders" => \A v \in Versions : landed[t].run # RunOf(v, TRUE)
  BY <1>1 DEF Typed, LandedTyped, Labels
<1>5. lander # Idle => /\ lander.at \in {"load", "insert", "drop", "report"}
                       /\ lander.version \in Versions /\ lander.revised \in BOOLEAN
  BY <1>1 DEF Typed, LanderTyped, LandingSteps
<1>6. builder # Idle => builder.at \in Models \cup {"detect", "holders"}
  BY <1>1 DEF Typed, BuilderTyped
<1>7. QED
  BY <1>2, <1>3, <1>4, <1>5, <1>6, Zenon DEF TypeOK

\* The table a landing is at; a revision is at the holders.
LEMMA TargetTyped ==
  ASSUME Typed, lander # Idle
  PROVE  /\ Target \in Tables
         /\ lander.revised => Target = "rights_holders"
<1>1. /\ lander.target \in {1, 2, 3} /\ lander.revised \in BOOLEAN
      /\ lander.revised => lander.target = 1
  BY DEF Typed, LanderTyped
<1>2. CASE lander.revised
  BY <1>1, <1>2 DEF Target, Targets, Tables
<1>3. CASE ~lander.revised
  BY <1>1, <1>3 DEF Target, Targets, Tables
<1>4. QED
  BY <1>2, <1>3

LEMMA InitTyped ==
  ASSUME Assumptions, Init
  PROVE  Typed
<1>1. NoRun \in Labels /\ \A v \in Versions : NoRun # RunOf(v, TRUE)
  <2>1. ASSUME NEW v \in Versions
        PROVE  NoRun # RunOf(v, TRUE)
    <3>1. RunOf(v, TRUE) \in Versions \X BOOLEAN
      BY DEF RunOf
    <3>2. QED
      BY <3>1 DEF Assumptions, NullAssumption, NoRun
  <2>2. QED
    BY <2>1 DEF Labels
<1>2. LandedTyped
  BY <1>1 DEF Init, LandedTyped
<1>3. LanderTyped /\ BuilderTyped
  BY DEF Init, LanderTyped, BuilderTyped
<1>4. QED
  BY <1>2, <1>3 DEF Init, Typed, Assumptions, RightsAssumption

LEMMA LandTyped ==
  ASSUME Typed, Land
  PROVE  Typed'
<1>1. CASE StartLanding
  <2>1. PICK r \in BOOLEAN :
          lander' = [at |-> "load", version |-> config.version, revised |-> r, target |-> 1]
    BY <1>1 DEF StartLanding
  <2>2. LanderTyped'
    BY <2>1 DEF Typed, LanderTyped, LandingSteps
  <2>3. QED
    BY <1>1, <2>2
       DEF StartLanding, inputs, rights, Typed, LandedTyped, BuilderTyped
<1>2. CASE LoadStaging
  <2>1. LanderTyped'
    BY <1>2 DEF LoadStaging, Typed, LanderTyped, LandingSteps
  <2>2. DOMAIN staged' = Tables
    BY <1>2 DEF LoadStaging, Typed
  <2>3. QED
    BY <1>2, <2>1, <2>2 DEF LoadStaging, inputs, Typed, LandedTyped, BuilderTyped
<1>3. CASE InsertFromStaging
  <2>1. LanderTyped'
    BY <1>3 DEF InsertFromStaging, Typed, LanderTyped, LandingSteps
  <2>2. DOMAIN landed' = Tables
    BY <1>3 DEF InsertFromStaging, Typed
  <2>3. lander # Idle /\ lander.version \in Versions /\ lander.revised \in BOOLEAN
    BY <1>3 DEF InsertFromStaging, Typed, LanderTyped
  <2>4. ASSUME NEW t \in Tables
        PROVE  /\ landed'[t].run \in Labels
               /\ t # "rights_holders" => \A v \in Versions : landed'[t].run # RunOf(v, TRUE)
    <3>1. CASE t # Target
      BY <1>3, <3>1 DEF InsertFromStaging, Typed, LandedTyped
    <3>2. CASE t = Target
      <4>1. landed'[t].run = RunOf(lander.version, lander.revised)
        BY <1>3, <3>2 DEF InsertFromStaging, Typed
      <4>2. t # "rights_holders" => lander.revised = FALSE
        BY <2>3, <3>2, TargetTyped
      <4>3. \A v \in Versions : RunOf(lander.version, FALSE) # RunOf(v, TRUE)
        BY DEF RunOf
      <4>4. QED
        <5>1. RunOf(lander.version, lander.revised) \in Versions \X BOOLEAN
          BY <2>3 DEF RunOf
        <5>2. CASE t # "rights_holders"
          BY <4>1, <4>2, <4>3, <5>1, <5>2 DEF Labels
        <5>3. QED
          BY <4>1, <5>1, <5>2 DEF Labels
    <3>3. QED
      BY <3>1, <3>2
  <2>5. LandedTyped'
    BY <2>4 DEF LandedTyped
  <2>6. QED
    BY <1>3, <2>1, <2>2, <2>5 DEF InsertFromStaging, inputs, Typed, BuilderTyped
<1>4. CASE DropStaging
  <2>1. LanderTyped'
    <3>1. CASE lander.target < Len(Targets(lander.revised))
      <4>1. /\ lander' = [lander EXCEPT !.at = "load", !.target = @ + 1]
            /\ lander \in [at : LandingSteps, version : Versions, revised : BOOLEAN,
                           target : 1 .. 3]
        BY <1>4, <3>1 DEF DropStaging, Typed, LanderTyped
      <4>2. Len(Targets(lander.revised)) = IF lander.revised THEN 1 ELSE 3
        BY DEF Targets
      <4>3. ~lander.revised /\ lander.target + 1 \in 1 .. 3
        BY <3>1, <4>1, <4>2
      <4>4. QED
        BY <4>1, <4>3 DEF LanderTyped, LandingSteps
    <3>2. CASE ~(lander.target < Len(Targets(lander.revised)))
      BY <1>4, <3>2 DEF DropStaging, Typed, LanderTyped, LandingSteps
    <3>3. QED
      BY <3>1, <3>2
  <2>2. DOMAIN staged' = Tables
    BY <1>4 DEF DropStaging, Typed
  <2>3. QED
    BY <1>4, <2>1, <2>2 DEF DropStaging, inputs, Typed, LandedTyped, BuilderTyped
<1>5. CASE WriteReport
  <2>1. report' \in Versions \cup {Null}
    BY <1>5 DEF WriteReport, Typed, LanderTyped
  <2>2. QED
    BY <1>5, <2>1
       DEF WriteReport, inputs, Typed, LandedTyped, LanderTyped, BuilderTyped
<1>6. QED
  BY <1>1, <1>2, <1>3, <1>4, <1>5 DEF Land

\* The steps of dbt and of the verification move the builder, and the verdict with it.
LEMMA BuilderMovesTyped ==
  ASSUME Typed, UNCHANGED <<inputs, rights, lander>>, BuilderTyped',
         verdict' \in {"none", "cleared", "refused"}
  PROVE  Typed'
BY DEF inputs, rights, Typed, LandedTyped, LanderTyped

LEMMA ThenTyped ==
  ASSUME Typed, NEW model \in Models, builder # Idle, Then(model)
  PROVE  BuilderTyped'
BY DEF Typed, BuilderTyped, Then

LEMMA DbtTyped ==
  ASSUME Typed, Dbt
  PROVE  Typed'
<1>1. UNCHANGED <<inputs, rights, lander, verdict>>
  BY DEF Dbt, StartBuild, BuildValidity, BuildEligibility, BuildResolution,
     BuildDisposition, BuildStreams, BuildFact, UntouchedByDbt
<1>2. CASE StartBuild
  BY <1>1, <1>2, BuilderMovesTyped DEF StartBuild, BuilderTyped, Models, Typed
<1>3. CASE \E model \in Models : builder # Idle /\ Then(model)
  BY <1>1, <1>3, ThenTyped, BuilderMovesTyped DEF Typed
<1>4. CASE BuildFact
  BY <1>1, <1>4, BuilderMovesTyped DEF BuildFact, BuilderTyped, Typed
<1>5. QED
  BY <1>2, <1>3, <1>4
     DEF Dbt, BuildValidity, BuildEligibility, BuildResolution, BuildDisposition,
         BuildStreams, Building, Models

LEMMA ClearTyped ==
  ASSUME Typed, StartPublish \/ Clear
  PROVE  Typed'
<1>1. UNCHANGED <<inputs, rights, lander>>
  BY DEF Clear, StartPublish, StartVerify, Detect, Reconcile
<1>2. BuilderTyped'
  <2>1. CASE StartPublish
    BY <2>1 DEF StartPublish, BuilderTyped, Models
  <2>2. CASE StartVerify
    <3>1. PICK agrees : builder' = [at |-> "detect", version |-> report, agrees |-> agrees]
      BY <2>2 DEF StartVerify
    <3>2. QED
      BY <3>1 DEF BuilderTyped
  <2>3. CASE Detect
    <3>1. PICK agrees : builder' = [builder EXCEPT !.at = "holders", !.agrees = agrees]
      BY <2>3 DEF Detect
    <3>2. "at" \in DOMAIN builder
      BY <2>3 DEF Detect, Building, Typed, BuilderTyped
    <3>3. "at" \in DOMAIN builder' /\ builder'.at = "holders"
      BY <3>1, <3>2
    <3>4. QED
      BY <3>3 DEF BuilderTyped
  <2>4. CASE Reconcile
    BY <2>4 DEF Reconcile, BuilderTyped
  <2>5. QED
    BY <2>1, <2>2, <2>3, <2>4 DEF Clear
<1>3. verdict' \in {"none", "cleared", "refused"}
  BY DEF Clear, StartPublish, StartVerify, Detect, Reconcile, Typed
<1>4. QED
  BY <1>1, <1>2, <1>3, BuilderMovesTyped

LEMMA HappenTyped ==
  ASSUME Typed, Happen \/ UNCHANGED vars
  PROVE  Typed'
<1>1. UNCHANGED <<landed, staged, report, verdict>>
  BY DEF Happen, EditConfig, Rematch, KillLander, KillBuilder, rights, vars
<1>2. config' \in [version : Versions, recorded : Versions] /\ matches' \in MatchRuns
  BY DEF Happen, EditConfig, Rematch, KillLander, KillBuilder, inputs, vars, Typed
<1>3. lander' \in {lander, Idle} /\ builder' \in {builder, Idle}
  BY DEF Happen, EditConfig, Rematch, KillLander, KillBuilder, vars
<1>4. QED
  BY <1>1, <1>2, <1>3 DEF Typed, LandedTyped, LanderTyped, BuilderTyped

LEMMA NextTyped ==
  ASSUME Typed, [Next]_vars
  PROVE  Typed'
BY LandTyped, DbtTyped, ClearTyped, HappenTyped DEF Next

\* However landings, builds, verifications, edits and kills interleave, the tables and the
\* two sessions keep their shape; a revision labels the holders and no other table.
THEOREM RightsTypeCorrect == Spec => []TypeOK
<1>1. Init => Typed
  BY InitTyped, RightsModelAssumption, RightsAssumption, NullAssumption DEF Assumptions
<1>2. Typed /\ [Next]_vars => Typed'
  BY NextTyped
<1>3. QED
  BY <1>1, <1>2, TypedIsTypeOK, PTL DEF Spec

-----------------------------------------------------------------------------
(* What is landed                                                              *)

\* What an insert copies is what its landing staged, whatever an earlier one left.
StagedForInsert ==
  lander # Idle /\ lander.at = "insert" => staged[Target] = GeneratedNow

LandingInvariant == Typed /\ StagedForInsert /\ LandedAsGenerated

LEMMA LandStep ==
  ASSUME LandingInvariant, Land
  PROVE  StagedForInsert' /\ LandedAsGenerated'
<1> USE DEF LandingInvariant
<1>1. CASE LoadStaging
  <2>1. /\ lander # Idle /\ lander \in [at : LandingSteps, version : Versions,
                                        revised : BOOLEAN, target : 1 .. 3]
        /\ lander' = [lander EXCEPT !.at = "insert"]
    BY <1>1 DEF LoadStaging, Typed, LanderTyped
  <2>2. /\ lander'.version = lander.version /\ lander'.revised = lander.revised
        /\ lander'.target = lander.target
    BY <2>1
  <2>3. Target' = Target /\ GeneratedNow' = GeneratedNow
    BY <2>2 DEF Target, GeneratedNow
  <2>4. staged'[Target] = GeneratedNow
    BY <1>1, <2>1, TargetTyped DEF LoadStaging, Truncated, Typed
  <2>5. LandedAsGenerated'
    BY <1>1 DEF LoadStaging, LandedAsGenerated
  <2>6. QED
    BY <2>3, <2>4, <2>5 DEF StagedForInsert
<1>2. CASE InsertFromStaging
  <2>1. /\ lander # Idle /\ lander.version \in Versions /\ lander.revised \in BOOLEAN
        /\ lander'.at = "drop"
    BY <1>2 DEF InsertFromStaging, Typed, LanderTyped
  <2>2. /\ landed'[Target].run = RunOf(lander.version, lander.revised)
        /\ landed'[Target].rows = Generated(Target, lander.version, lander.revised)
    BY <1>2, <2>1, TargetTyped DEF InsertFromStaging, StagedForInsert, GeneratedNow, Typed
  <2>3. \A t \in Tables \ {Target} : landed'[t] = landed[t]
    BY <1>2 DEF InsertFromStaging, Typed
  <2>4. LandedAsGenerated'
    <3>1. ASSUME NEW t \in Tables, landed'[t].run # NoRun
          PROVE  \E v \in Versions, r \in BOOLEAN :
                   landed'[t].run = RunOf(v, r) /\ landed'[t].rows = Generated(t, v, r)
      <4>1. CASE t = Target
        BY <2>1, <2>2, <4>1
      <4>2. CASE t # Target
        BY <2>3, <3>1, <4>2 DEF LandedAsGenerated
      <4>3. QED
        BY <4>1, <4>2
    <3>2. QED
      BY <3>1 DEF LandedAsGenerated
  <2>5. QED
    BY <2>1, <2>4 DEF StagedForInsert
<1>3. CASE StartLanding \/ DropStaging \/ WriteReport
  <2>1. UNCHANGED landed
    BY <1>3 DEF StartLanding, DropStaging, WriteReport, rights
  <2>2. lander' = Idle \/ lander'.at # "insert"
    <3>1. CASE StartLanding
      <4>1. PICK r \in BOOLEAN :
              lander' = [at |-> "load", version |-> config.version, revised |-> r, target |-> 1]
        BY <3>1 DEF StartLanding
      <4>2. QED
        BY <4>1
    <3>2. CASE DropStaging
      BY <3>2 DEF DropStaging, Typed, LanderTyped
    <3>3. CASE WriteReport
      BY <3>3 DEF WriteReport
    <3>4. QED
      BY <1>3, <3>1, <3>2, <3>3
  <2>3. QED
    BY <2>1, <2>2 DEF StagedForInsert, LandedAsGenerated
<1>4. QED
  BY <1>1, <1>2, <1>3 DEF Land

LEMMA LandingStep ==
  ASSUME LandingInvariant, [Next]_vars
  PROVE  LandingInvariant'
<1>1. Typed'
  BY NextTyped DEF LandingInvariant
<1>2. CASE Land
  BY <1>1, <1>2, LandStep DEF LandingInvariant
<1>3. CASE ~Land
  <2>1. UNCHANGED <<landed, staged>> /\ lander' \in {lander, Idle}
    BY <1>3 DEF Next, Dbt, StartBuild, BuildValidity, BuildEligibility, BuildResolution,
       BuildDisposition, BuildStreams, BuildFact, UntouchedByDbt, StartPublish, Clear,
       StartVerify, Detect, Reconcile, Happen, EditConfig, Rematch, KillLander,
       KillBuilder, rights, vars
  <2>2. StagedForInsert'
    BY <2>1 DEF LandingInvariant, StagedForInsert, Target, GeneratedNow
  <2>3. LandedAsGenerated'
    BY <2>1 DEF LandingInvariant, LandedAsGenerated
  <2>4. QED
    BY <1>1, <2>2, <2>3 DEF LandingInvariant
<1>4. QED
  BY <1>2, <1>3

LEMMA LandingInit ==
  ASSUME Assumptions, Init
  PROVE  LandingInvariant
<1>1. StagedForInsert /\ LandedAsGenerated
  BY DEF Init, StagedForInsert, LandedAsGenerated
<1>2. QED
  BY <1>1, InitTyped DEF LandingInvariant

\* The rows of a landed table are the ones the run on its label generates, whatever edits
\* of the configuration, killed landings and staging tables left behind came before.
THEOREM LandingsAreAsGenerated == Spec => []LandedAsGenerated
<1>1. Init => LandingInvariant
  BY LandingInit, RightsModelAssumption, RightsAssumption, NullAssumption DEF Assumptions
<1>2. LandingInvariant /\ [Next]_vars => LandingInvariant'
  BY LandingStep
<1>3. LandingInvariant => LandedAsGenerated
  BY DEF LandingInvariant
<1>4. QED
  BY <1>1, <1>2, <1>3, PTL DEF Spec

-----------------------------------------------------------------------------
(* The gates                                                                   *)

\* What the derived tables ask of the landed ones.
SplitsSound(splits) == IsFiniteSet(splits) /\ \A q \in splits : q.split # Null
RatesSound(rates) == IsFiniteSet(rates) /\ \A card \in rates : card.rate \in Nat
SetsSound(sets) == IsFiniteSet(sets) /\ \A s \in sets : s.split # Null

\* A resolved day: its status is one the policy knows; it has a set where it has one
\* covering set, and a rate where it has one rate.
DaySound(d) ==
  /\ d.status \in DOMAIN OwnershipStatus
  /\ d.rateRows \in Nat
  /\ d.status \in {"RESOLVED", "RATE_CARD_GAP", "RATE_CARD_OVERLAP"} => d.split # Null
  /\ d.rateRows = 1 => d.rate # Null

DaysSound(days) == \A d \in days : DaySound(d)

LEMMA FiniteImage ==
  ASSUME NEW S, IsFiniteSet(S), NEW f, NEW T, DOMAIN f = S, f = [x \in S |-> f[x]],
         \A x \in S : f[x] \in T, \A y \in T : \E x \in S : f[x] = y
  PROVE  IsFiniteSet(T)
<1>1. f \in Surjection(S, T)
  BY DEF Surjection
<1>2. QED
  BY <1>1, FS_Surjection

LEMMA SetRowsSound ==
  ASSUME Assumptions, NEW v \in Versions, NEW r \in Universe \cup Orphans,
         NEW from \in Base .. OpenEnd, NEW to, NEW salt \in {"a", "b"}, NEW defect
  PROVE  SplitsSound(SetRows(v, r, from, to, salt, defect))
<1> DEFINE n == Count(v, r, salt)
           shares == SharesFor(v, r, salt)
           holders == HoldersFor(v, r, salt)
           row(i) == [recording |-> r, from |-> from, to |-> to,
                      split |-> SplitVersionId(v, r, from),
                      holder |-> IF i = 1 /\ defect = "missing_rights_holder"
                                 THEN NoSuchHolder ELSE holders[i],
                      share |-> IF i = 1 /\ defect = "shares_do_not_sum_to_100"
                                THEN IF shares[1] < 80000 THEN 5000 ELSE shares[1] - 75000
                                ELSE shares[i]]
           slots == 1 .. n
           f == [i \in slots |-> row(i)]
           T == SetRows(v, r, from, to, salt, defect)
<1>1. n \in Nat
  BY DEF Assumptions, RightsModelAssumption
<1>2. DOMAIN shares = 1 .. n
  BY DEF SharesFor
<1>3. T = {row(i) : i \in slots}
  BY <1>2 DEF SetRows
<1>4. IsFiniteSet(slots)
  BY <1>1, FS_Interval
<1>5. \A i \in slots : row(i).split # Null
  BY DEF Assumptions, NullAssumption
<1> HIDE DEF n, slots, shares, holders, row, T
<1>6. IsFiniteSet(T)
  <2>1. /\ DOMAIN f = slots /\ f = [i \in slots |-> f[i]]
        /\ \A i \in slots : f[i] \in T
        /\ \A y \in T : \E i \in slots : f[i] = y
    BY <1>3
  <2> HIDE DEF f
  <2>2. QED
    BY <1>4, <2>1, FiniteImage
<1>7. \A q \in T : q.split # Null
  BY <1>3, <1>5
<1>8. QED
  BY <1>6, <1>7 DEF SplitsSound, T

LEMMA UnionSound ==
  ASSUME NEW a, NEW b, SplitsSound(a), SplitsSound(b)
  PROVE  SplitsSound(a \cup b)
BY FS_Union DEF SplitsSound

LEMMA OwnershipRowsSound ==
  ASSUME Assumptions, NEW v \in Versions, NEW r \in Universe \cup Orphans, NEW defect
  PROVE  SplitsSound(OwnershipRows(v, r, defect))
<1>1. /\ Base \in Base .. OpenEnd /\ OverlapStart \in Base .. OpenEnd
      /\ OverlapEnd \in Base .. OpenEnd /\ ChangeDate \in Base .. OpenEnd
  BY DEF Base, OpenEnd, OverlapStart, OverlapEnd, ChangeDate
<1>2. \A from \in {Base, OverlapStart, OverlapEnd, ChangeDate}, salt \in {"a", "b"} :
        \A to, d : SplitsSound(SetRows(v, r, from, to, salt, d))
  BY <1>1, SetRowsSound
<1>3. QED
  BY <1>2, UnionSound DEF OwnershipRows

LEMMA OwnershipSplitsSound ==
  ASSUME Assumptions, NEW v \in Versions
  PROVE  SplitsSound(OwnershipSplits(v, Universe))
<1> DEFINE U == Universe \cup Orphans
           rows(r) == OwnershipRows(v, r, DefectOf(v, r, Universe))
           f == [r \in U |-> rows(r)]
           T == {rows(r) : r \in U}
<1>1. \A r \in U : SplitsSound(rows(r))
  BY OwnershipRowsSound
<1>2. IsFiniteSet(U)
  BY FS_Union DEF Assumptions, RightsModelAssumption
<1>3. OwnershipSplits(v, Universe) = UNION T
  BY DEF OwnershipSplits
<1> HIDE DEF rows, U
<1>4. IsFiniteSet(T)
  <2>1. /\ DOMAIN f = U /\ f = [r \in U |-> f[r]]
        /\ \A r \in U : f[r] \in T
        /\ \A y \in T : \E r \in U : f[r] = y
    OBVIOUS
  <2>2. QED
    BY <1>2, <2>1, FiniteImage
<1>5. \A S \in T : SplitsSound(S)
  BY <1>1
<1>6. IsFiniteSet(UNION T)
  BY <1>4, <1>5, FS_UNION DEF SplitsSound
<1>7. \A q \in UNION T : q.split # Null
  BY <1>5 DEF SplitsSound
<1>8. QED
  BY <1>3, <1>6, <1>7 DEF SplitsSound

\* Whatever a version generates is sound.
LEMMA GeneratedSound ==
  ASSUME Assumptions, NEW v \in Versions, NEW revised \in BOOLEAN
  PROVE  /\ SplitsSound(Generated("ownership_splits", v, revised))
         /\ RatesSound(Generated("rate_card", v, revised))
<1>1. SplitsSound(Generated("ownership_splits", v, revised))
  BY OwnershipSplitsSound DEF Generated, SplitsOf
<1>2. RatesSound(RateCard(v))
  BY DEF RatesSound, Assumptions, RightsModelAssumption, NullAssumption
<1>3. QED
  BY <1>1, <1>2 DEF Generated

\* The validity of sound splits is sound.
LEMMA ValiditySound ==
  ASSUME NEW splits, SplitsSound(splits), NEW holders, NEW catalogue
  PROVE  SetsSound(Validity(splits, holders, catalogue))
<1> DEFINE sets == SetsOf(splits)
           f == [q \in splits |-> SetOf(splits, q.recording, q.split)]
           entry(s) == [recording |-> s.recording, split |-> s.split, from |-> s.from,
                        to |-> s.to, flags |-> Flags(s, sets, holders, catalogue)]
           g == [s \in sets |-> entry(s)]
           T == Validity(splits, holders, catalogue)
<1>1. IsFiniteSet(sets)
  <2>1. /\ DOMAIN f = splits /\ f = [q \in splits |-> f[q]]
        /\ \A q \in splits : f[q] \in sets
        /\ \A y \in sets : \E q \in splits : f[q] = y
    BY DEF SetsOf
  <2>2. QED
    BY <2>1, FiniteImage DEF SplitsSound
<1>2. \A s \in sets : s.split # Null
  <2>1. ASSUME NEW q \in splits
        PROVE  SetOf(splits, q.recording, q.split).split # Null
    BY DEF SetOf, SplitsSound
  <2>2. QED
    BY <2>1 DEF SetsOf
<1>3. T = {entry(s) : s \in sets}
  BY DEF Validity
<1>4. \A s \in sets : entry(s).split = s.split
  OBVIOUS
<1> HIDE DEF entry, sets, T
<1>5. IsFiniteSet(T)
  <2>1. /\ DOMAIN g = sets /\ g = [s \in sets |-> g[s]]
        /\ \A s \in sets : g[s] \in T
        /\ \A y \in T : \E s \in sets : g[s] = y
    BY <1>3
  <2> HIDE DEF g
  <2>2. QED
    BY <1>1, <2>1, FiniteImage
<1>6. \A y \in T : y.split # Null
  BY <1>2, <1>3, <1>4
<1>7. QED
  BY <1>5, <1>6 DEF SetsSound, T

\* So is the resolution of any day against it.
LEMMA ResolvedDaySound ==
  ASSUME Assumptions, NEW sets, SetsSound(sets), NEW rates, RatesSound(rates),
         NEW recording, NEW day
  PROVE  DaySound(ResolvedDay(recording, day, sets, rates))
<1> DEFINE own == {s \in sets : s.recording = recording}
           covering == {s \in own : IsValid(s) /\ InForce(s, day)}
           priced == {r \in rates : InForce(r, day)}
           d == ResolvedDay(recording, day, sets, rates)
           claimed == \E s \in own : InForce(s, day)
           status == ResolutionStatus(own, Cardinality(covering), claimed, Cardinality(priced))
<1>1. IsFiniteSet(covering) /\ IsFiniteSet(priced)
  BY FS_Subset DEF SetsSound, RatesSound
<1>2. Cardinality(covering) \in Nat /\ Cardinality(priced) \in Nat
  BY <1>1, FS_CardinalityType
<1>3. Cardinality(covering) = 1 => (CHOOSE s \in covering : TRUE).split # Null
  <2>1. SUFFICES ASSUME Cardinality(covering) = 1
                 PROVE  (CHOOSE s \in covering : TRUE) \in covering
    BY DEF SetsSound
  <2>2. PICK x : covering = {x}
    BY <1>1, <2>1, FS_Singleton
  <2>3. QED
    BY <2>2
<1>4. Cardinality(priced) = 1 => (CHOOSE r \in priced : TRUE).rate # Null
  <2>1. SUFFICES ASSUME Cardinality(priced) = 1
                 PROVE  (CHOOSE r \in priced : TRUE) \in priced
    BY DEF RatesSound, Assumptions, NullAssumption
  <2>2. PICK x : priced = {x}
    BY <1>1, <2>1, FS_Singleton
  <2>3. QED
    BY <2>2
<1>5. /\ d.status = status /\ d.rateRows = Cardinality(priced)
      /\ d.split = IF Cardinality(covering) = 1
                   THEN (CHOOSE s \in covering : TRUE).split ELSE Null
      /\ d.rate = IF Cardinality(priced) = 1
                  THEN (CHOOSE r \in priced : TRUE).rate ELSE Null
  BY DEF ResolvedDay
<1>6. ASSUME NEW c \in Nat, NEW p \in Nat, NEW own_, NEW claimed_
      PROVE  /\ ResolutionStatus(own_, c, claimed_, p) \in DOMAIN OwnershipStatus
             /\ ResolutionStatus(own_, c, claimed_, p)
                  \in {"RESOLVED", "RATE_CARD_GAP", "RATE_CARD_OVERLAP"} => c = 1
  BY DEF ResolutionStatus, OwnershipStatus
<1> HIDE DEF own, covering, priced, d, claimed
<1>7. /\ status \in DOMAIN OwnershipStatus
      /\ status \in {"RESOLVED", "RATE_CARD_GAP", "RATE_CARD_OVERLAP"}
           => Cardinality(covering) = 1
  BY <1>2, <1>6
<1> HIDE DEF status
<1>8. DaySound(d)
  BY <1>2, <1>3, <1>4, <1>5, <1>7 DEF DaySound
<1>9. QED
  BY <1>8 DEF d

LEMMA ResolutionSound ==
  ASSUME Assumptions, NEW sets, SetsSound(sets), NEW rates, RatesSound(rates), NEW days
  PROVE  DaysSound(Resolution(days, sets, rates))
BY ResolvedDaySound DEF DaysSound, Resolution

\* A listen joined to a sound resolution: the gates of the warehouse decide as the
\* policy, and carry the payable columns of the listens that are paid and of no other.
LEMMA DisposedAgrees ==
  ASSUME Assumptions, NEW days, DaysSound(days), NEW row
  PROVE  LET d == Disposed(row, days) IN
         /\ d.status = PythonDisposition(d.matched, d.method, d.resolved, d.rateRows)
         /\ (d.split # Null) = (d.status = "ATTRIBUTABLE")
         /\ (d.rate # Null) = (d.status = "ATTRIBUTABLE")
<1> DEFINE own == {d \in days : d.recording = row.recording /\ d.day = row.day}
           day == CHOOSE d \in own : TRUE
           resolved == IF own = {} THEN Null ELSE day.status
           rateRows == IF own = {} THEN Null ELSE day.rateRows
           split == IF own = {} THEN Null ELSE day.split
           rate == IF own = {} THEN Null ELSE day.rate
           sql == SqlDisposition(row.matched, row.method, resolved, rateRows)
           python == PythonDisposition(row.matched, row.method, resolved, rateRows)
           d == Disposed(row, days)
<1>1. /\ d.matched = row.matched /\ d.method = row.method
      /\ d.resolved = resolved /\ d.rateRows = rateRows /\ d.status = sql
      /\ d.split = IfAttributable(sql, split) /\ d.rate = IfAttributable(sql, rate)
  BY DEF Disposed
<1>2. /\ Null \notin Nat /\ Null # "NOT_APPLICABLE"
      /\ \A status \in DOMAIN OwnershipStatus : status # Null /\ OwnershipStatus[status] # Null
  BY DEF Assumptions, NullAssumption
<1>3. own # {} => DaySound(day)
  BY DEF DaysSound
<1> HIDE DEF own, day, d
<1>4. sql = python
  <2>1. CASE own = {}
    <3>1. resolved = Null /\ rateRows = Null /\ "NOT_APPLICABLE" # Null
      BY <1>2, <2>1
    <3> HIDE DEF resolved, rateRows
    <3>2. QED
      BY <3>1 DEF SqlDisposition, PythonDisposition
  <2>2. CASE own # {}
    <3>1. resolved \in DOMAIN OwnershipStatus /\ rateRows \in Nat
      BY <1>3, <2>2 DEF DaySound
    <3>2. resolved # Null /\ rateRows # Null /\ OwnershipStatus[resolved] # Null
      BY <1>2, <3>1
    <3> HIDE DEF resolved, rateRows
    <3>3. QED
      BY <3>1, <3>2 DEF SqlDisposition, PythonDisposition, RateStatus
  <2>3. QED
    BY <2>1, <2>2
<1>5. python = "ATTRIBUTABLE" => split # Null /\ rate # Null
  <2>1. SUFFICES ASSUME python = "ATTRIBUTABLE"
                 PROVE  split # Null /\ rate # Null
    OBVIOUS
  <2>2. own # {}
    BY <2>1 DEF PythonDisposition
  <2>3. /\ resolved \in DOMAIN OwnershipStatus /\ rateRows \in Nat
        /\ resolved = day.status /\ rateRows = day.rateRows
    BY <1>3, <2>2 DEF DaySound
  <2>4. resolved # Null /\ rateRows # Null
    BY <1>2, <2>3
  <2> HIDE DEF resolved, rateRows
  <2>5. OwnershipStatus[resolved] = "OWNERSHIP_RESOLVED" /\ rateRows = 1
    BY <2>1, <2>3, <2>4 DEF PythonDisposition, RateStatus
  <2>6. resolved \in {"RESOLVED", "RATE_CARD_GAP", "RATE_CARD_OVERLAP"}
    BY <2>3, <2>5 DEF OwnershipStatus
  <2>7. QED
    BY <1>3, <2>2, <2>3, <2>5, <2>6 DEF DaySound
<1> HIDE DEF resolved, rateRows, split, rate, sql
<1>6. QED
  BY <1>1, <1>4, <1>5 DEF IfAttributable, d

\* What is landed is sound whoever landed it; a build that has passed the validity, or
\* that starts at the disposition, has a sound table to read; so has any publication.
BuiltSound ==
  /\ SplitsSound(Splits) /\ RatesSound(Rates)
  /\ builder # Idle /\ builder.at \in {"eligibility", "resolution"} => SetsSound(validity)
  /\ builder # Idle /\ builder.at = "disposition" => DaysSound(resolution)
  /\ resolution # NoTable => DaysSound(resolution)

GatesInvariant == LandingInvariant /\ BuiltSound /\ GatesAgree

\* An insert lands what a version generates.
LEMMA InsertSound ==
  ASSUME Assumptions, LandingInvariant, BuiltSound, InsertFromStaging
  PROVE  SplitsSound(Splits') /\ RatesSound(Rates')
<1>1. lander # Idle /\ lander.version \in Versions /\ lander.revised \in BOOLEAN
  BY DEF InsertFromStaging, LandingInvariant, Typed, LanderTyped
<1>2. /\ landed'[Target].rows = Generated(Target, lander.version, lander.revised)
      /\ \A t \in Tables \ {Target} : landed'[t] = landed[t]
      /\ Target \in Tables
  BY <1>1, TargetTyped
     DEF InsertFromStaging, LandingInvariant, StagedForInsert, GeneratedNow, Typed
<1>3. /\ Splits' = Splits \/ Splits' = Generated("ownership_splits", lander.version, lander.revised)
      /\ Rates' = Rates \/ Rates' = Generated("rate_card", lander.version, lander.revised)
  BY <1>2 DEF Splits, Rates, Tables
<1>4. QED
  BY <1>1, <1>3, GeneratedSound DEF BuiltSound

\* Every other step leaves the landed tables, and what a step of dbt does not build.
LEMMA LandedStays ==
  ASSUME [Next]_vars, ~InsertFromStaging
  PROVE  UNCHANGED landed
BY DEF Next, Land, StartLanding, LoadStaging, DropStaging, WriteReport, Dbt, StartBuild,
   BuildValidity, BuildEligibility, BuildResolution, BuildDisposition, BuildStreams,
   BuildFact, UntouchedByDbt, StartPublish, Clear, StartVerify, Detect, Reconcile, Happen,
   EditConfig, Rematch, KillLander, KillBuilder, rights, vars

LEMMA DerivedStay ==
  ASSUME [Next]_vars, ~Dbt
  PROVE  UNCHANGED <<validity, resolution, disposition>>
BY DEF Next, Land, StartLanding, LoadStaging, InsertFromStaging, DropStaging, WriteReport,
   StartPublish, Clear, StartVerify, Detect, Reconcile, Happen, EditConfig, Rematch,
   KillLander, KillBuilder, derived, vars

\* Where a step takes the builder.
BuilderAt(at) == builder # Idle /\ builder.at = at

LEMMA BuilderWalks ==
  ASSUME Typed, [Next]_vars, ~Dbt
  PROVE  /\ BuilderAt("eligibility")' => BuilderAt("eligibility")
         /\ BuilderAt("resolution")' => BuilderAt("resolution")
         /\ BuilderAt("disposition")' => BuilderAt("disposition") \/ resolution # NoTable
<1>1. CASE StartPublish
  BY <1>1 DEF StartPublish, BuilderAt
<1>2. CASE StartVerify
  <2>1. PICK agrees : builder' = [at |-> "detect", version |-> report, agrees |-> agrees]
    BY <1>2 DEF StartVerify
  <2>2. QED
    BY <2>1 DEF BuilderAt
<1>3. CASE Detect
  <2>1. PICK agrees : builder' = [builder EXCEPT !.at = "holders", !.agrees = agrees]
    BY <1>3 DEF Detect
  <2>2. "at" \in DOMAIN builder
    BY <1>3 DEF Detect, Building, Typed, BuilderTyped
  <2>3. builder'.at = "holders"
    BY <2>1, <2>2
  <2>4. QED
    BY <2>3 DEF BuilderAt
<1>4. CASE Reconcile
  BY <1>4 DEF Reconcile, BuilderAt
<1>5. CASE Land \/ Happen \/ UNCHANGED vars
  <2>1. builder' \in {builder, Idle}
    BY <1>5 DEF Land, StartLanding, LoadStaging, InsertFromStaging, DropStaging, WriteReport,
       Happen, EditConfig, Rematch, KillLander, KillBuilder, vars
  <2>2. QED
    BY <2>1 DEF BuilderAt
<1>6. QED
  BY <1>1, <1>2, <1>3, <1>4, <1>5 DEF Next, Clear

LEMMA ThenWalks ==
  ASSUME Typed, NEW at, builder # Idle, Then(at)
  PROVE  \A other : BuilderAt(other)' => other = at
<1>1. "at" \in DOMAIN builder
  BY DEF Typed, BuilderTyped
<1>2. builder'.at = at
  BY <1>1 DEF Then
<1>3. QED
  BY <1>2 DEF BuilderAt

LEMMA DbtGates ==
  ASSUME Assumptions, GatesInvariant, Dbt
  PROVE  BuiltSound' /\ GatesAgree'
<1> USE DEF GatesInvariant, LandingInvariant
<1>1. /\ SplitsSound(Splits) /\ RatesSound(Rates)
      /\ UNCHANGED landed
      /\ BuilderAt("eligibility") \/ BuilderAt("resolution") => SetsSound(validity)
      /\ BuilderAt("disposition") => DaysSound(resolution)
      /\ resolution # NoTable => DaysSound(resolution)
  BY DEF BuiltSound, BuilderAt, Dbt, StartBuild, BuildValidity, BuildEligibility,
     BuildResolution, BuildDisposition, BuildStreams, BuildFact, UntouchedByDbt, rights
<1>2. ASSUME BuilderAt("eligibility")' \/ BuilderAt("resolution")' => SetsSound(validity'),
             BuilderAt("disposition")' => DaysSound(resolution'),
             resolution' # NoTable => DaysSound(resolution')
      PROVE  BuiltSound'
  BY <1>1, <1>2 DEF BuiltSound, BuilderAt, Splits, Rates
<1>3. CASE StartBuild
  <2>1. UNCHANGED <<validity, resolution, disposition>>
        /\ \A at : BuilderAt(at)' => at = "validity"
    BY <1>3 DEF StartBuild, derived, BuilderAt
  <2>2. QED
    BY <1>1, <1>2, <2>1 DEF GatesAgree
<1>4. CASE BuildValidity
  <2>1. /\ validity' = Validity(Splits, HolderIds, Catalogue(matches))
        /\ UNCHANGED <<resolution, disposition>>
        /\ builder # Idle /\ Then("eligibility")
    BY <1>4 DEF BuildValidity, Building
  <2>2. SetsSound(validity')
    BY <1>1, <2>1, ValiditySound
  <2>3. QED
    BY <1>1, <1>2, <2>1, <2>2, ThenWalks DEF GatesAgree
<1>5. CASE BuildEligibility
  <2>1. /\ BuilderAt("eligibility") /\ Then("resolution")
        /\ UNCHANGED <<validity, resolution, disposition>>
    BY <1>5 DEF BuildEligibility, Building, BuilderAt
  <2>2. QED
    BY <1>1, <1>2, <2>1, ThenWalks DEF GatesAgree, BuilderAt
<1>6. CASE BuildResolution
  <2>1. /\ BuilderAt("resolution") /\ Then("disposition")
        /\ resolution' = Resolution(RecordingDays(eligibility), validity, Rates)
        /\ UNCHANGED <<validity, disposition>>
    BY <1>6 DEF BuildResolution, Building, BuilderAt
  <2>2. DaysSound(resolution')
    BY <1>1, <2>1, ResolutionSound
  <2>3. QED
    BY <1>1, <1>2, <2>1, <2>2, ThenWalks DEF GatesAgree, BuilderAt
<1>7. CASE BuildDisposition
  <2>1. /\ BuilderAt("disposition") /\ Then("streams")
        /\ disposition' = Disposition(eligibility, resolution)
        /\ UNCHANGED <<validity, resolution>>
    BY <1>7 DEF BuildDisposition, Building, BuilderAt
  <2>2. BuiltSound'
    BY <1>1, <1>2, <2>1, ThenWalks DEF BuilderAt
  <2>3. ASSUME NEW l \in Listens, NEW d, d = disposition'[l]
        PROVE  /\ d.status = PythonDisposition(d.matched, d.method, d.resolved, d.rateRows)
               /\ (d.split # Null) = (d.status = "ATTRIBUTABLE")
               /\ (d.rate # Null) = (d.status = "ATTRIBUTABLE")
    <3>1. d = Disposed(eligibility[l], resolution)
      BY <2>1, <2>3 DEF Disposition
    <3>2. DaysSound(resolution)
      BY <1>1, <2>1
    <3>3. QED
      BY <3>1, <3>2, DisposedAgrees
  <2>4. GatesAgree'
    BY <2>3 DEF GatesAgree
  <2>5. QED
    BY <2>2, <2>4
<1>8. CASE BuildStreams
  <2>1. /\ builder # Idle /\ Then("fact")
        /\ UNCHANGED <<validity, resolution, disposition>>
    BY <1>8 DEF BuildStreams, Building
  <2>2. QED
    BY <1>1, <1>2, <2>1, ThenWalks DEF GatesAgree
<1>9. CASE BuildFact
  <2>1. builder' = Idle /\ UNCHANGED <<validity, resolution, disposition>>
    BY <1>9 DEF BuildFact
  <2>2. QED
    BY <1>1, <1>2, <2>1 DEF GatesAgree, BuilderAt
<1>10. QED
  BY <1>3, <1>4, <1>5, <1>6, <1>7, <1>8, <1>9 DEF Dbt

LEMMA GatesStep ==
  ASSUME Assumptions, GatesInvariant, [Next]_vars
  PROVE  GatesInvariant'
<1>1. LandingInvariant'
  BY LandingStep DEF GatesInvariant
<1>2. CASE Dbt
  BY <1>1, <1>2, DbtGates DEF GatesInvariant
<1>3. CASE ~Dbt
  <2>1. UNCHANGED <<validity, resolution, disposition>>
    BY <1>3, DerivedStay
  <2>2. GatesAgree'
    BY <2>1 DEF GatesInvariant, GatesAgree
  <2>3. SplitsSound(Splits') /\ RatesSound(Rates')
    <3>1. CASE InsertFromStaging
      BY <3>1, InsertSound DEF GatesInvariant
    <3>2. CASE ~InsertFromStaging
      BY <3>2, LandedStays DEF GatesInvariant, BuiltSound, Splits, Rates
    <3>3. QED
      BY <3>1, <3>2
  <2>4. /\ BuilderAt("eligibility")' \/ BuilderAt("resolution")' => SetsSound(validity)
        /\ BuilderAt("disposition")' => DaysSound(resolution)
        /\ resolution # NoTable => DaysSound(resolution)
    BY <1>3, BuilderWalks DEF GatesInvariant, LandingInvariant, BuiltSound, BuilderAt
  <2>5. BuiltSound'
    BY <2>1, <2>3, <2>4 DEF BuiltSound, BuilderAt
  <2>6. QED
    BY <1>1, <2>2, <2>5 DEF GatesInvariant
<1>4. QED
  BY <1>2, <1>3

LEMMA GatesInit ==
  ASSUME Assumptions, Init
  PROVE  GatesInvariant
<1>1. Splits = {} /\ Rates = {}
  BY DEF Init, Splits, Rates, Tables
<1>2. SplitsSound(Splits) /\ RatesSound(Rates)
  BY <1>1, FS_EmptySet DEF SplitsSound, RatesSound
<1>3. BuiltSound /\ GatesAgree
  BY <1>2 DEF Init, BuiltSound, GatesAgree
<1>4. QED
  BY <1>3, LandingInit DEF GatesInvariant

\* The gates in SQL decide each listen as PayoutPolicy.disposition does, and the columns that
\* can be multiplied are there exactly where the listen is attributable: whatever was landed,
\* rematched or killed between the eligibility, the validity and the resolution they read,
\* for every model of the rights and every match run.
THEOREM TheGatesAgree == Spec => []GatesAgree
<1>1. Init => GatesInvariant
  BY GatesInit, RightsModelAssumption, RightsAssumption, NullAssumption DEF Assumptions
<1>2. GatesInvariant /\ [Next]_vars => GatesInvariant'
  BY GatesStep, RightsModelAssumption, RightsAssumption, NullAssumption DEF Assumptions
<1>3. GatesInvariant => GatesAgree
  BY DEF GatesInvariant
<1>4. QED
  BY <1>1, <1>2, <1>3, PTL DEF Spec

-----------------------------------------------------------------------------
(* The cents of a group                                                        *)

\* Who is given a leftover cent before h.
Ahead(fraction, h) ==
  {k \in DOMAIN fraction : fraction[k] > fraction[h] \/ (fraction[k] = fraction[h] /\ k < h)}

\* The order of the leftover cents has a first, a second and so on, and no ties.
LEMMA RanksCount ==
  ASSUME NEW D \in SUBSET Nat, IsFiniteSet(D), NEW fraction \in [D -> Int],
         NEW m \in 0 .. Cardinality(D)
  PROVE  Cardinality({h \in D : Rank(fraction, h) <= m}) = m
<1> DEFINE n == Cardinality(D)
           rank == [h \in D |-> Rank(fraction, h)]
<1>1. n \in Nat
  BY FS_CardinalityType
<1>2. \A h \in D : /\ Ahead(fraction, h) \in SUBSET D
                   /\ IsFiniteSet(Ahead(fraction, h))
                   /\ Cardinality(Ahead(fraction, h)) \in Nat
                   /\ rank[h] = 1 + Cardinality(Ahead(fraction, h))
  <2>1. \A h \in D : Ahead(fraction, h) \in SUBSET D
    BY DEF Ahead
  <2>2. \A h \in D : IsFiniteSet(Ahead(fraction, h)) /\ Cardinality(Ahead(fraction, h)) \in Nat
    BY <2>1, FS_Subset, FS_CardinalityType
  <2>3. \A h \in D : rank[h] = 1 + Cardinality(Ahead(fraction, h))
    BY DEF Rank, Ahead
  <2>4. QED
    BY <2>1, <2>2, <2>3
<1>3. ASSUME NEW h \in D, NEW k \in Ahead(fraction, h)
      PROVE  k \in D /\ rank[k] < rank[h]
  <2>1. k \in D /\ \A i \in D : fraction[i] \in Int /\ i \in Int
    BY DEF Ahead
  <2>2. Ahead(fraction, k) \subseteq Ahead(fraction, h)
    <3>1. ASSUME NEW j \in Ahead(fraction, k)
          PROVE  j \in Ahead(fraction, h)
      <4>1. /\ j \in D /\ (fraction[j] > fraction[k] \/ (fraction[j] = fraction[k] /\ j < k))
            /\ fraction[k] > fraction[h] \/ (fraction[k] = fraction[h] /\ k < h)
        BY DEF Ahead
      <4>2. fraction[j] > fraction[h] \/ (fraction[j] = fraction[h] /\ j < h)
        BY <2>1, <4>1
      <4>3. QED
        BY <4>1, <4>2 DEF Ahead
    <3>2. QED
      BY <3>1
  <2>3. k \notin Ahead(fraction, k)
    BY <2>1 DEF Ahead
  <2>4. Cardinality(Ahead(fraction, k)) <= Cardinality(Ahead(fraction, h))
        /\ Cardinality(Ahead(fraction, k)) # Cardinality(Ahead(fraction, h))
    BY <1>2, <2>2, <2>3, FS_Subset
  <2>5. QED
    BY <1>2, <2>1, <2>4
<1>4. \A h, k \in D : h # k => rank[h] # rank[k]
  <2>1. ASSUME NEW h \in D, NEW k \in D, h # k
        PROVE  h \in Ahead(fraction, k) \/ k \in Ahead(fraction, h)
    <3>1. fraction[h] \in Int /\ fraction[k] \in Int /\ h \in Int /\ k \in Int
      OBVIOUS
    <3>2. QED
      BY <2>1, <3>1 DEF Ahead
  <2>2. \A h \in D : rank[h] \in Int
    BY <1>2
  <2> HIDE DEF rank
  <2>3. QED
    BY <1>3, <2>1, <2>2
<1>5. \A h \in D : rank[h] \in 1 .. n
  <2>1. ASSUME NEW h \in D
        PROVE  Cardinality(Ahead(fraction, h)) < n
    <3>1. h \notin Ahead(fraction, h)
      BY DEF Ahead
    <3>2. QED
      BY <1>1, <1>2, <3>1, FS_Subset
  <2>2. QED
    BY <1>1, <1>2, <2>1
<1> HIDE DEF n
<1>6. rank \in Injection(D, 1 .. n)
  <2>1. rank \in [D -> 1 .. n]
    <3>1. rank = [h \in D |-> rank[h]]
      OBVIOUS
    <3> HIDE DEF rank
    <3>2. QED
      BY <1>5, <3>1
  <2> HIDE DEF rank
  <2>2. QED
    BY <1>4, <2>1 DEF Injection, IsInjective
<1>7. \A i \in 1 .. n : \E h \in D : rank[h] = i
  <2>1. IsFiniteSet(1 .. n) /\ Cardinality(1 .. n) = n
    <3>1. 1 \in Int /\ n \in Int
      BY <1>1
    <3>2. QED
      BY <1>1, <3>1, FS_Interval
  <2> HIDE DEF rank
  <2>2. rank \in Surjection(D, 1 .. n)
    BY <1>6, <2>1, FS_Injection DEF n
  <2>3. QED
    BY <2>2 DEF Surjection
<1>8. {h \in D : Rank(fraction, h) <= m} = {h \in D : rank[h] <= m}
  OBVIOUS
<1>9. m \in Nat /\ m <= n
  BY <1>1 DEF n
<1> HIDE DEF rank
<1> DEFINE T == {h \in D : rank[h] <= m}
           first == [h \in T |-> rank[h]]
<1>10. first \in Bijection(T, 1 .. m)
  <2>1. first \in [T -> 1 .. m]
    <3>1. \A h \in T : rank[h] \in 1 .. n /\ rank[h] <= m
      BY <1>5
    <3>2. \A h \in T : rank[h] \in 1 .. m
      BY <1>1, <1>9, <3>1
    <3> HIDE DEF T
    <3>3. QED
      BY <3>2
  <2>2. \A h, k \in T : first[h] = first[k] => h = k
    BY <1>4
  <2>3. \A i \in 1 .. m : \E h \in T : first[h] = i
    <3>1. ASSUME NEW i \in 1 .. m
          PROVE  \E h \in T : first[h] = i
      <4>1. i \in 1 .. n
        BY <1>1, <1>9
      <4>2. PICK h \in D : rank[h] = i
        BY <1>7, <4>1
      <4>3. h \in T
        BY <1>9, <4>2
      <4>4. QED
        BY <4>2, <4>3
    <3>2. QED
      BY <3>1
  <2> HIDE DEF first
  <2>4. QED
    BY <2>1, <2>2, <2>3 DEF Bijection, Injection, Surjection, IsInjective
<1>11. Cardinality(T) = m
  <2>1. IsFiniteSet(T)
    BY FS_Subset
  <2>2. IsFiniteSet(1 .. m) /\ Cardinality(1 .. m) = m
    <3>1. 1 \in Int /\ m \in Int
      BY <1>9
    <3>2. QED
      BY <1>9, <3>1, FS_Interval
  <2> HIDE DEF T, first
  <2>3. QED
    BY <1>10, <2>1, <2>2, FS_Bijection DEF ExistsBijection
<1>12. QED
  BY <1>8, <1>11

\* A cent in units of 1e-10 $ and of 1e-9 $, and a whole in units of 0.0001 %.
Cent == 100000000
NumericCent == 10000000
Whole == 1000000

\* NUMERIC rounds an amount up by at most 5 and down by at most 4; where that carries it
\* into the next cent, nothing is left of the fraction.
LEMMA RoundedAmount ==
  ASSUME NEW a \in Nat
  PROVE  LET N == (a + 5) \div 10
             F == N \div NumericCent
             R == N % NumericCent
         IN  /\ N \in Nat /\ F \in Nat /\ R \in Nat
             /\ Cent * F <= a + 5
             /\ R # 0 => Cent * (F + 1) >= a - 4
             /\ R = 0 => Cent * F >= a - 4
             /\ F - (a \div Cent) \in {0, 1}
             /\ F - (a \div Cent) = 1 => R = 0
<1> DEFINE N == (a + 5) \div 10
           F == N \div NumericCent
           R == N % NumericCent
<1>1. N \in Nat /\ 10 * N <= a + 5 /\ a + 5 <= 10 * N + 9
  OBVIOUS
<1> HIDE DEF N
<1>2. F \in Nat /\ R \in Nat /\ R < NumericCent /\ N = NumericCent * F + R
  BY <1>1, SMT DEF NumericCent
<1> HIDE DEF F, R
<1>3. /\ Cent * F <= a + 5
      /\ R # 0 => Cent * (F + 1) >= a - 4
      /\ R = 0 => Cent * F >= a - 4
  BY <1>1, <1>2, SMT DEF Cent, NumericCent
<1> DEFINE q == a \div Cent
           r == a % Cent
<1>4. q \in Nat /\ r \in Nat /\ r < Cent /\ a = Cent * q + r
  BY SMT DEF Cent
<1> HIDE DEF q, r
<1>5. /\ F - q \in {0, 1}
      /\ F - q = 1 => R = 0
  BY <1>1, <1>2, <1>4, SMT DEF Cent, NumericCent
<1>6. QED
  BY <1>1, <1>2, <1>3, <1>5 DEF N, F, R, q

LEMMA RoundedTarget ==
  ASSUME NEW G \in Nat
  PROVE  LET T == (G + 50) \div 100
         IN  /\ T \in Nat
             /\ 100 * T <= G + 50 /\ G - 49 <= 100 * T
OBVIOUS

\* What is over after every holder has the whole cents of its amount is at least nothing,
\* and at most a cent for each holder with a fraction.
LEMMA LeftoverBounded ==
  ASSUME NEW D \in SUBSET Nat, IsFiniteSet(D), Cardinality(D) <= Whole,
         NEW share \in [D -> Nat], SumFunction(share) = Whole,
         NEW played \in Nat, NEW rate \in Nat
  PROVE  LET N == Numeric(Unrounded(played, rate, share))
             left == Leftover(N, NumericCent, TargetCents(played, rate))
         IN  left \in 0 .. Cardinality({h \in D : N[h] % NumericCent # 0})
<1> DEFINE G == played * rate
           T == (G + 50) \div 100
           a == [h \in D |-> G * share[h]]
           N == [h \in D |-> (a[h] + 5) \div 10]
           F == [h \in D |-> N[h] \div NumericCent]
           Z == {h \in D : N[h] % NumericCent # 0}
           one == [h \in D |-> 1]
           frac == [h \in D |-> IF h \in Z THEN 1 ELSE 0]
           low == [h \in D |-> Cent * F[h] + 0 * one[h]]
           high == [h \in D |-> a[h] + 5]
           top == [h \in D |-> Cent * F[h] + Cent * frac[h]]
           bottom == [h \in D |-> a[h] - 4]
           n == Cardinality(D)
<1>1. /\ Numeric(Unrounded(played, rate, share)) = N
      /\ TargetCents(played, rate) = T
      /\ Leftover(N, NumericCent, T) = T - SumFunction(F)
  BY SMT DEF Numeric, Unrounded, TargetCents, Leftover, NumericCent
<1>2. G \in Nat
  <2>1. \A x, y \in Nat : x * y \in Nat
    OBVIOUS
  <2>2. QED
    BY <2>1
<1>0. G \in Int /\ Cent \in Int /\ 0 \in Int /\ 1 \in Int /\ 5 \in Int /\ -4 \in Int
  BY <1>2, SMT DEF Cent
<1> HIDE DEF G
<1>3. T \in Nat /\ 100 * T <= G + 50 /\ G - 49 <= 100 * T
  BY <1>2, RoundedTarget
<1> HIDE DEF T
<1>4. a \in [D -> Nat]
  <2>1. \A x, y \in Nat : x * y \in Nat
    OBVIOUS
  <2>2. QED
    BY <1>2, <2>1
<1>5. \A h \in D :
        /\ N[h] \in Nat /\ F[h] \in Nat
        /\ Cent * F[h] <= a[h] + 5
        /\ h \in Z => Cent * (F[h] + 1) >= a[h] - 4
        /\ h \notin Z => Cent * F[h] >= a[h] - 4
  <2>1. ASSUME NEW h \in D
        PROVE  LET M == (a[h] + 5) \div 10
                   E == M \div NumericCent
                   R == M % NumericCent
               IN  /\ M \in Nat /\ E \in Nat /\ R \in Nat
                   /\ Cent * E <= a[h] + 5
                   /\ R # 0 => Cent * (E + 1) >= a[h] - 4
                   /\ R = 0 => Cent * E >= a[h] - 4
    <3>1. a[h] \in Nat
      BY <1>4
    <3> HIDE DEF a
    <3>2. QED
      BY <3>1, RoundedAmount
  <2> HIDE DEF a
  <2>2. \A h \in D : N[h] = (a[h] + 5) \div 10 /\ F[h] = N[h] \div NumericCent
                     /\ (h \in Z <=> N[h] % NumericCent # 0)
    OBVIOUS
  <2> HIDE DEF N, F, Z
  <2>3. QED
    BY <2>1, <2>2, SMT DEF NumericCent
<1>6. SumFunction(a) = Whole * G
  <2>1. a \in [D -> Int] /\ share \in [D -> Int]
    BY <1>4
  <2>2. Combines(a, G, share, 0, share, D)
    BY <1>2 DEF Combines
  <2> HIDE DEF a
  <2>3. Summable(a, D) /\ Summable(share, D)
    BY <2>1 DEF Summable
  <2>4. SumFunction(a) = G * SumFunction(share) + 0 * SumFunction(share)
    BY <1>0, <2>2, <2>3, SumLinear
  <2>5. QED
    BY <1>2, <2>4, SMT DEF Whole
<1>7. /\ Z \in SUBSET D /\ IsFiniteSet(Z)
      /\ n \in Nat /\ Cardinality(Z) \in Nat
  <2>1. Z \in SUBSET D
    OBVIOUS
  <2> HIDE DEF Z
  <2>2. QED
    BY <2>1, FS_Subset, FS_CardinalityType
<1>8. \A h \in D : a[h] \in Int /\ F[h] \in Int
  BY <1>4, <1>5
<1> HIDE DEF a, N, Z, n
<1>9. /\ Summable(F, D) /\ Summable(one, D) /\ Summable(frac, D) /\ Summable(a, D)
  <2>1. F \in [D -> Int] /\ one \in [D -> Int] /\ frac \in [D -> Int] /\ a \in [D -> Int]
    <3>1. F \in [D -> Int]
      BY <1>8
    <3>2. a \in [D -> Int]
      BY <1>4
    <3>3. one \in [D -> Int] /\ frac \in [D -> Int]
      OBVIOUS
    <3>4. QED
      BY <3>1, <3>2, <3>3
  <2> HIDE DEF F, one, frac
  <2>2. QED
    BY <2>1 DEF Summable
<1> HIDE DEF F
<1>10. SumFunction(one) = n
  <2>1. Counts(one, D, D)
    BY DEF Counts
  <2> HIDE DEF one
  <2>2. QED
    BY <1>9, <2>1, SumCounts DEF n
<1>11. SumFunction(frac) = Cardinality(Z)
  <2>1. Counts(frac, Z, D)
    BY <1>7 DEF Counts
  <2> HIDE DEF frac
  <2>2. QED
    BY <1>9, <2>1, SumCounts
<1>12. SumFunction(F) \in Int
  BY <1>9, SumTyped DEF Summable
<1>13. Cent * SumFunction(F) <= Whole * G + 5 * n
  <2>1. /\ Combines(low, Cent, F, 0, one, D) /\ Combines(high, 1, a, 5, one, D)
        /\ \A h \in D : low[h] \in Int /\ high[h] \in Int /\ low[h] <= high[h]
    BY <1>5, <1>8, SMT DEF Combines, Cent
  <2>2. low \in [D -> Int] /\ high \in [D -> Int]
    BY <2>1
  <2> HIDE DEF low, high, one
  <2>3. Summable(low, D) /\ Summable(high, D)
    BY <2>2 DEF Summable
  <2>4. SumFunction(low) = Cent * SumFunction(F) + 0 * SumFunction(one)
    BY <1>0, <1>9, <2>1, <2>3, SumLinear
  <2>5. SumFunction(high) = 1 * SumFunction(a) + 5 * SumFunction(one)
    BY <1>0, <1>9, <2>1, <2>3, SumLinear
  <2>6. SumFunction(low) <= SumFunction(high)
    BY <2>1, <2>2, SumAtMost
  <2>7. QED
    BY <1>2, <1>6, <1>7, <1>10, <1>12, <2>4, <2>5, <2>6, SMT DEF Cent, Whole
<1>14. Whole * G - 4 * n <= Cent * SumFunction(F) + Cent * Cardinality(Z)
  <2>1. /\ Combines(top, Cent, F, Cent, frac, D) /\ Combines(bottom, 1, a, -4, one, D)
        /\ \A h \in D : bottom[h] \in Int /\ top[h] \in Int /\ bottom[h] <= top[h]
    BY <1>5, <1>8, SMT DEF Combines, Cent
  <2>2. top \in [D -> Int] /\ bottom \in [D -> Int]
    BY <2>1
  <2> HIDE DEF top, bottom, one, frac
  <2>3. Summable(top, D) /\ Summable(bottom, D)
    BY <2>2 DEF Summable
  <2>4. SumFunction(top) = Cent * SumFunction(F) + Cent * SumFunction(frac)
    BY <1>0, <1>9, <2>1, <2>3, SumLinear
  <2>5. SumFunction(bottom) = 1 * SumFunction(a) + (-4) * SumFunction(one)
    BY <1>0, <1>9, <2>1, <2>3, SumLinear
  <2>6. SumFunction(bottom) <= SumFunction(top)
    BY <2>1, <2>2, SumAtMost
  <2>7. QED
    BY <1>2, <1>6, <1>7, <1>10, <1>11, <1>12, <2>4, <2>5, <2>6, SMT DEF Cent, Whole
<1>15. T - SumFunction(F) \in 0 .. Cardinality(Z)
  <2>1. n <= Whole
    BY DEF n
  <2>2. QED
    BY <1>2, <1>3, <1>7, <1>12, <1>13, <1>14, <2>1, SMT DEF Cent, Whole
<1>16. QED
  BY <1>1, <1>15, SMT DEF Z, NumericCent

\* The cents of the holders add up to the target, and each is the whole cents of its exact
\* amount or one more.
LEMMA CentsClose ==
  ASSUME NEW D \in SUBSET Nat, IsFiniteSet(D), Cardinality(D) <= Whole,
         NEW share \in [D -> Nat], SumFunction(share) = Whole,
         NEW played \in Nat, NEW rate \in Nat
  PROVE  LET cents == SqlCents(played, rate, share)
             amount == Unrounded(played, rate, share)
         IN  /\ ClosesIn(cents, TargetCents(played, rate))
             /\ \A h \in D : cents[h] - (amount[h] \div Cent) \in {0, 1}
<1> DEFINE a == Unrounded(played, rate, share)
           N == Numeric(a)
           T == TargetCents(played, rate)
           F == [h \in D |-> N[h] \div NumericCent]
           R == [h \in D |-> N[h] % NumericCent]
           Z == {h \in D : R[h] # 0}
           left == T - SumFunction(F)
           given == {h \in D : Rank(R, h) <= left}
           extra == [h \in D |-> IF h \in given THEN 1 ELSE 0]
           cents == [h \in D |-> F[h] + extra[h]]
<1>1. /\ DOMAIN a = D /\ DOMAIN N = D
      /\ \A h \in D : N[h] = (a[h] + 5) \div 10
  BY DEF Unrounded, Numeric
<1>2. \A h \in D : a[h] \in Nat
  <2>1. \A x, y, z \in Nat : x * y * z \in Nat
    OBVIOUS
  <2>2. QED
    BY <2>1 DEF Unrounded
<1>3. SqlCents(played, rate, share) = cents
  <2>1. SqlCents(played, rate, share) = Allocate(N, NumericCent, T)
    BY SMT DEF SqlCents, NumericCent
  <2>2. Leftover(N, NumericCent, T) = left
    BY <1>1 DEF Leftover
  <2>3. [k \in DOMAIN N |-> N[k] % NumericCent] = R
    BY <1>1
  <2>4. Allocate(N, NumericCent, T)
          = [h \in D |-> (N[h] \div NumericCent) + (IF Rank(R, h) <= left THEN 1 ELSE 0)]
    BY <1>1, <2>2, <2>3 DEF Allocate
  <2>5. \A h \in D : (N[h] \div NumericCent) + (IF Rank(R, h) <= left THEN 1 ELSE 0) = cents[h]
    OBVIOUS
  <2> HIDE DEF N, R, left, T
  <2>6. QED
    BY <2>1, <2>4, <2>5
<1>4. left \in 0 .. Cardinality(Z)
  <2>1. Leftover(N, NumericCent, T) \in 0 .. Cardinality({h \in D : N[h] % NumericCent # 0})
    BY LeftoverBounded
  <2>2. Leftover(N, NumericCent, T) = left
    BY <1>1 DEF Leftover
  <2>3. {h \in D : N[h] % NumericCent # 0} = Z
    OBVIOUS
  <2> HIDE DEF N, T, Z, left
  <2>4. QED
    BY <2>1, <2>2, <2>3
<1>5. \A h \in D :
        /\ F[h] \in Nat /\ R[h] \in Nat
        /\ F[h] - (a[h] \div Cent) \in {0, 1}
        /\ F[h] - (a[h] \div Cent) = 1 => R[h] = 0
  <2>1. ASSUME NEW h \in D
        PROVE  LET M == (a[h] + 5) \div 10
                   E == M \div NumericCent
                   r == M % NumericCent
               IN  /\ E \in Nat /\ r \in Nat
                   /\ E - (a[h] \div Cent) \in {0, 1}
                   /\ E - (a[h] \div Cent) = 1 => r = 0
    <3> HIDE DEF a
    <3>1. QED
      BY <1>2, RoundedAmount
  <2>2. \A h \in D : F[h] = ((a[h] + 5) \div 10) \div NumericCent
                     /\ R[h] = ((a[h] + 5) \div 10) % NumericCent
    BY <1>1
  <2> HIDE DEF a, F, R
  <2>3. QED
    BY <2>1, <2>2
<1>6. \A h \in D : a[h] \div Cent \in Nat
  BY <1>2, SMT DEF Cent
<1> HIDE DEF a, N, T, F, R
<1>7. R \in [D -> Int] /\ F \in [D -> Int]
  BY <1>5 DEF F, R
<1>8. /\ Z \in SUBSET D /\ IsFiniteSet(Z) /\ Cardinality(Z) \in Nat
      /\ Cardinality(D) \in Nat /\ Cardinality(Z) <= Cardinality(D)
  <2>1. Z \in SUBSET D
    OBVIOUS
  <2> HIDE DEF Z
  <2>2. QED
    BY <2>1, FS_Subset, FS_CardinalityType
<1>9. Cardinality(given) = left
  <2>1. left \in 0 .. Cardinality(D)
    BY <1>4, <1>8
  <2> HIDE DEF left, Z
  <2>2. QED
    BY <1>7, <2>1, RanksCount
<1>10. \A h \in given : R[h] # 0
  <2>1. SUFFICES ASSUME NEW h \in D, R[h] = 0
                 PROVE  ~(Rank(R, h) <= left)
    OBVIOUS
  <2>2. Z \subseteq Ahead(R, h)
    <3>1. ASSUME NEW k \in Z
          PROVE  k \in Ahead(R, h)
      <4>1. k \in D /\ R[k] \in Nat /\ R[k] # 0 /\ DOMAIN R = D
        BY <1>5, <1>7
      <4>2. R[k] > R[h]
        BY <2>1, <4>1
      <4>3. QED
        BY <4>1, <4>2 DEF Ahead
    <3>2. QED
      BY <3>1
  <2>3. IsFiniteSet(Ahead(R, h))
    <3>1. Ahead(R, h) \in SUBSET D
      BY <1>7 DEF Ahead
    <3>2. QED
      BY <3>1, FS_Subset
  <2>4. Cardinality(Z) <= Cardinality(Ahead(R, h)) /\ Cardinality(Ahead(R, h)) \in Nat
    BY <2>2, <2>3, FS_Subset, FS_CardinalityType
  <2>5. Rank(R, h) = 1 + Cardinality(Ahead(R, h))
    BY DEF Rank, Ahead
  <2> HIDE DEF Z
  <2>6. QED
    BY <1>4, <1>8, <2>4, <2>5
<1> HIDE DEF left, given
<1>11. SumFunction(cents) = T
  <2>1. given \in SUBSET D
    BY DEF given
  <2>2. extra \in [D -> Int]
    OBVIOUS
  <2>3. cents \in [D -> Int] /\ \A h \in D : cents[h] = 1 * F[h] + 1 * extra[h]
    BY <1>7
  <2>4. Counts(extra, given, D)
    BY <2>1 DEF Counts
  <2> HIDE DEF extra, cents
  <2>5. /\ Summable(extra, D) /\ Summable(cents, D) /\ Summable(F, D)
        /\ Combines(cents, 1, F, 1, extra, D)
    BY <1>7, <2>2, <2>3 DEF Summable, Combines
  <2>6. SumFunction(cents) = 1 * SumFunction(F) + 1 * SumFunction(extra)
    <3>1. 1 \in Int
      OBVIOUS
    <3>2. QED
      BY <2>5, <3>1, SumLinear
  <2>7. SumFunction(extra) = left
    BY <1>9, <2>4, <2>5, SumCounts
  <2>8. SumFunction(F) \in Int
    BY <1>7, SumTyped
  <2>9. T \in Int
    <3>1. \A x, y \in Nat : (x * y + 50) \div 100 \in Int
      <4>1. \A x, y \in Nat : x * y + 50 \in Int
        OBVIOUS
      <4>2. \A x \in Int : x \div 100 \in Int
        OBVIOUS
      <4>3. QED
        BY <4>1, <4>2
    <3>2. QED
      BY <3>1 DEF T, TargetCents
  <2>10. QED
    BY <2>6, <2>7, <2>8, <2>9 DEF left
<1>12. ASSUME NEW h \in D
       PROVE  cents[h] - (a[h] \div Cent) \in {0, 1}
  <2>1. CASE h \in given
    <3>1. R[h] # 0 /\ extra[h] = 1
      BY <1>10, <2>1
    <3>2. cents[h] = F[h] + 1
      BY <3>1
    <3> HIDE DEF cents, extra
    <3>3. F[h] - (a[h] \div Cent) = 0
      BY <1>5, <3>1
    <3>4. QED
      BY <1>5, <1>6, <3>2, <3>3
  <2>2. CASE h \notin given
    <3>1. cents[h] = F[h] + 0
      BY <2>2
    <3> HIDE DEF cents, extra
    <3>2. QED
      BY <1>5, <1>6, <3>1
  <2>3. QED
    BY <2>1, <2>2
<1> HIDE DEF cents
<1>13. QED
  BY <1>3, <1>11, <1>12 DEF ClosesIn, T, a

-----------------------------------------------------------------------------
(* The holders of a set                                                        *)

LEMMA Remainders ==
  ASSUME NEW m \in Nat \ {0}
  PROVE  /\ \A x \in Nat : x % m \in 0 .. m - 1
         /\ \A x \in 0 .. m - 1 : x % m = x /\ (x + m) % m = x
<1>1. \A x \in Nat : x % m \in 0 .. m - 1
  OBVIOUS
<1>2. \A x \in 0 .. m - 1 : x % m = x
  OBVIOUS
<1>3. \A x \in 0 .. m - 1 : (x + m) % m = x
  OBVIOUS
<1>4. QED
  BY <1>1, <1>2, <1>3

\* Walking forward from any index finds one that is not taken, while there is one.
LEMMA FirstFreeIsFree ==
  ASSUME Assumptions, NEW index \in 0 .. Assignable - 1, NEW taken \in SUBSET (0 .. Assignable - 1),
         IsFiniteSet(taken), Cardinality(taken) < Assignable
  PROVE  FirstFree(index, taken) \in (0 .. Assignable - 1) \ taken
<1> DEFINE m == Assignable
           at(k) == (index + k) % m
           free == {k \in 0 .. m - 1 : at(k) \notin taken}
<1>1. m \in Nat \ {0}
  BY DEF Assumptions, RightsModelAssumption, Assignable
<1>2. /\ \A x \in Nat : x % m \in 0 .. m - 1
      /\ \A x \in 0 .. m - 1 : x % m = x /\ (x + m) % m = x
  <2> HIDE DEF m
  <2>1. QED
    BY <1>1, Remainders
<1>3. \E x \in 0 .. m - 1 : x \notin taken
  <2>1. Cardinality(0 .. m - 1) = m
    <3>1. 0 \in Int /\ m - 1 \in Int
      BY <1>1
    <3> HIDE DEF m
    <3>2. QED
      BY <1>1, <3>1, FS_Interval
  <2>2. taken # 0 .. m - 1
    BY <1>1, <2>1
  <2>3. QED
    BY <2>2
<1>4. free # {}
  <2>1. PICK x \in 0 .. m - 1 : x \notin taken
    BY <1>3
  <2> DEFINE k == IF x >= index THEN x - index ELSE (x + m) - index
  <2>2. k \in 0 .. m - 1 /\ (index + k = x \/ index + k = x + m)
    BY <1>1
  <2> HIDE DEF k, m
  <2>3. (index + k) % m = x
    BY <1>2, <2>2
  <2>4. QED
    BY <2>1, <2>2, <2>3
<1>5. PICK s \in free : \A k \in free : s <= k
  <2>1. free \in SUBSET Nat
    BY <1>1
  <2> HIDE DEF free
  <2>2. QED
    BY <1>4, <2>1, LeastNatural
<1>6. /\ s \in 0 .. m - 1 /\ at(s) \notin taken
      /\ \A j \in 0 .. s - 1 : at(j) \in taken
  <2>1. ASSUME NEW j \in 0 .. s - 1
        PROVE  at(j) \in taken
    <3>1. j \in 0 .. m - 1 /\ ~(s <= j)
      BY <1>1
    <3>2. j \notin free
      BY <1>5, <3>1
    <3>3. QED
      BY <3>1, <3>2
  <2>2. QED
    BY <2>1
<1> DEFINE step == CHOOSE k \in 0 .. m - 1 : /\ at(k) \notin taken
                                             /\ \A j \in 0 .. k - 1 : at(j) \in taken
<1>7. step \in 0 .. m - 1 /\ at(step) \notin taken
  <2> HIDE DEF at, m, free
  <2>1. QED
    BY <1>6
<1>8. at(step) \in 0 .. m - 1
  <2>1. index + step \in Nat
    BY <1>1, <1>7
  <2>2. QED
    BY <1>2, <2>1
<1>9. FirstFree(index, taken) = at(step)
  BY DEF FirstFree
<1>10. QED
  BY <1>7, <1>8, <1>9

\* The slots of a set, filled one after the other.
NextHolder(f, n, v, r, salt) ==
  IF n = 0 THEN <<>>
  ELSE Append(f[n - 1], FirstFree(Draw(v, r, salt, n), {f[n - 1][i] : i \in 1 .. n - 1}))

Chooses(f, m, v, r, salt) == f = [n \in 0 .. m |-> NextHolder(f, n, v, r, salt)]

LEMMA ChoosingExists ==
  ASSUME NEW v, NEW r, NEW salt
  PROVE  \A m \in Nat : \E f : Chooses(f, m, v, r, salt)
<1> DEFINE P == {m \in Nat : \E f : Chooses(f, m, v, r, salt)}
<1>1. 0 \in P
  <2> DEFINE f == [n \in 0 .. 0 |-> <<>>]
  <2>1. \A n \in 0 .. 0 : NextHolder(f, n, v, r, salt) = <<>>
    BY DEF NextHolder
  <2>2. Chooses(f, 0, v, r, salt)
    BY <2>1 DEF Chooses
  <2>3. QED
    BY <2>2
<1>2. ASSUME NEW m \in Nat, m \in P
      PROVE  m + 1 \in P
  <2>1. PICK f : Chooses(f, m, v, r, salt)
    BY <1>2
  <2> DEFINE g == [n \in 0 .. m + 1 |-> IF n = m + 1 THEN NextHolder(f, n, v, r, salt) ELSE f[n]]
  <2>2. ASSUME NEW n \in 0 .. m + 1
        PROVE  g[n] = NextHolder(g, n, v, r, salt)
    <3>1. n # 0 => g[n - 1] = f[n - 1]
      OBVIOUS
    <3>2. NextHolder(g, n, v, r, salt) = NextHolder(f, n, v, r, salt)
      BY <3>1 DEF NextHolder
    <3>3. n # m + 1 => n \in 0 .. m
      OBVIOUS
    <3>4. n # m + 1 => f[n] = NextHolder(f, n, v, r, salt)
      BY <2>1, <3>3 DEF Chooses
    <3>5. QED
      BY <3>2, <3>4
  <2>3. g = [n \in 0 .. m + 1 |-> g[n]]
    OBVIOUS
  <2> HIDE DEF g
  <2>4. Chooses(g, m + 1, v, r, salt)
    BY <2>2, <2>3 DEF Chooses
  <2>5. QED
    BY <2>4
<1>3. Nat \subseteq P
  <2> HIDE DEF P
  <2>1. QED
    BY <1>1, <1>2, NaturalInduction
<1>4. QED
  BY <1>3

\* Of as many slots as there are, each has a holder of its own.
Apart(s, n) ==
  /\ s \in Seq(0 .. Assignable - 1) /\ Len(s) = n
  /\ \A i, j \in 1 .. n : s[i] = s[j] => i = j

LEMMA AppendsApart ==
  ASSUME Assumptions, NEW n \in Nat, NEW s, Apart(s, n), n < Assignable,
         NEW index \in 0 .. Assignable - 1
  PROVE  Apart(Append(s, FirstFree(index, {s[i] : i \in 1 .. n})), n + 1)
<1> DEFINE taken == {s[i] : i \in 1 .. n}
           h == FirstFree(index, taken)
<1>1. Assignable \in Nat
  BY DEF Assumptions, RightsModelAssumption, Assignable
<1>2. \A i \in 1 .. n : s[i] \in 0 .. Assignable - 1
  <2>1. \A S : s \in Seq(S) /\ Len(s) = n => \A i \in 1 .. n : s[i] \in S
    OBVIOUS
  <2>2. s \in Seq(0 .. Assignable - 1) /\ Len(s) = n
    BY DEF Apart
  <2>3. QED
    BY <2>1, <2>2
<1>3. IsFiniteSet(taken) /\ Cardinality(taken) <= n
  <2> DEFINE f == [i \in 1 .. n |-> s[i]]
  <2>1. f \in Surjection(1 .. n, taken)
    BY DEF Surjection
  <2>2. IsFiniteSet(1 .. n) /\ Cardinality(1 .. n) = n
    <3>1. 1 \in Int /\ n \in Int
      OBVIOUS
    <3>2. QED
      BY <3>1, FS_Interval
  <2> HIDE DEF f, taken
  <2>3. QED
    BY <2>1, <2>2, FS_Surjection
<1>4. taken \in SUBSET (0 .. Assignable - 1)
  BY <1>2
<1>5. Cardinality(taken) < Assignable
  <2>1. Cardinality(taken) \in Nat
    BY <1>3, FS_CardinalityType
  <2> HIDE DEF taken
  <2>2. QED
    BY <1>1, <1>3, <2>1
<1>6. h \in (0 .. Assignable - 1) \ taken
  <2> HIDE DEF taken
  <2>1. QED
    BY <1>3, <1>4, <1>5, FirstFreeIsFree
<1> HIDE DEF h
<1>7. \A i \in 1 .. n : s[i] # h
  BY <1>6
<1>8. /\ Append(s, h) \in Seq(0 .. Assignable - 1) /\ Len(Append(s, h)) = n + 1
      /\ \A i \in 1 .. n + 1 : Append(s, h)[i] = IF i = n + 1 THEN h ELSE s[i]
  BY <1>6 DEF Apart
<1>9. \A i, j \in 1 .. n + 1 : Append(s, h)[i] = Append(s, h)[j] => i = j
  BY <1>7, <1>8 DEF Apart
<1>10. QED
  BY <1>8, <1>9 DEF Apart, h

LEMMA HoldersApart ==
  ASSUME Assumptions, NEW v \in Versions, NEW r \in Universe \cup Orphans, NEW salt \in {"a", "b"}
  PROVE  Apart(HoldersFor(v, r, salt), Count(v, r, salt))
<1> DEFINE c == Count(v, r, salt)
<1>1. /\ Assignable \in Nat /\ c \in 1 .. Assignable
      /\ \A n \in 1 .. c : Draw(v, r, salt, n) \in 0 .. Assignable - 1
  BY DEF Assumptions, RightsModelAssumption, Assignable
<1>2. c \in Nat
  BY <1>1
<1> DEFINE f == CHOOSE g : Chooses(g, c, v, r, salt)
<1>3. HoldersFor(v, r, salt) = f[c]
  BY DEF HoldersFor, Chooses, NextHolder
<1>4. Chooses(f, c, v, r, salt)
  <2> HIDE DEF c
  <2>1. QED
    BY <1>2, ChoosingExists
<1> HIDE DEF f, c
<1> DEFINE P == {n \in Nat : n <= c => Apart(f[n], n)}
<1>5. 0 \in P
  <2>1. f[0] = <<>>
    BY <1>2, <1>4 DEF Chooses, NextHolder
  <2>2. Apart(<<>>, 0)
    BY DEF Apart
  <2>3. QED
    BY <2>1, <2>2
<1>6. ASSUME NEW n \in Nat, n \in P
      PROVE  n + 1 \in P
  <2>1. SUFFICES ASSUME n + 1 <= c
                 PROVE  Apart(f[n + 1], n + 1)
    OBVIOUS
  <2>2. Apart(f[n], n) /\ n < Assignable /\ n + 1 \in 1 .. c
    BY <1>1, <1>2, <1>6, <2>1
  <2>3. f[n + 1] = NextHolder(f, n + 1, v, r, salt)
    BY <1>2, <1>4, <2>1 DEF Chooses
  <2>4. NextHolder(f, n + 1, v, r, salt)
          = Append(f[n], FirstFree(Draw(v, r, salt, n + 1), {f[n][i] : i \in 1 .. n}))
    BY DEF NextHolder
  <2>5. Draw(v, r, salt, n + 1) \in 0 .. Assignable - 1
    BY <1>1, <2>2
  <2>6. QED
    BY <2>2, <2>3, <2>4, <2>5, AppendsApart
<1>7. Nat \subseteq P
  <2> HIDE DEF P
  <2>1. QED
    BY <1>5, <1>6, NaturalInduction
<1>8. Apart(f[c], c)
  BY <1>2, <1>7
<1>9. QED
  BY <1>3, <1>8 DEF c

-----------------------------------------------------------------------------
(* The rows of a version                                                       *)

LEMMA QuantizedTyped ==
  ASSUME NEW x \in Nat, NEW m \in Nat \ {0}
  PROVE  Quantized(x, m) \in Int
<1>1. x \div m \in Int
  OBVIOUS
<1>2. QED
  BY <1>1 DEF Quantized

LEMMA SharesTyped ==
  ASSUME Assumptions, NEW v \in Versions, NEW r \in Universe \cup Orphans, NEW salt \in {"a", "b"}
  PROVE  SharesFor(v, r, salt) \in [1 .. Count(v, r, salt) -> Int]
<1> DEFINE n == Count(v, r, salt)
           weight == [i \in 1 .. n |-> Weight(v, r, salt, i)]
           total == SumFunction(weight)
           part(i) == AtLeast(MinimumShare, Quantized(Hundred * Weight(v, r, salt, i), total))
           parts == [i \in 1 .. n - 1 |-> part(i)]
           last == Hundred - SumFunction(parts)
           biggest == CHOOSE k \in 1 .. n - 1 :
                        \A j \in 1 .. n - 1 :
                          parts[j] < parts[k] \/ (parts[j] = parts[k] /\ k <= j)
           share(i) == IF i = n THEN AtLeast(MinimumShare, last)
                       ELSE IF last < MinimumShare /\ i = biggest
                            THEN parts[i] - (MinimumShare - last)
                       ELSE parts[i]
<1>1. n \in Nat \ {0} /\ \A i \in 1 .. n : Weight(v, r, salt, i) \in Nat \ {0}
  BY DEF Assumptions, RightsModelAssumption, Assignable
<1>2. Hundred \in Nat /\ MinimumShare \in Nat
  BY DEF Hundred, MinimumShare
<1>3. SharesFor(v, r, salt) = [i \in 1 .. n |-> share(i)]
  BY DEF SharesFor
<1> HIDE DEF n
<1>4. IsFiniteSet(1 .. n) /\ IsFiniteSet(1 .. n - 1)
  <2>1. 1 \in Int /\ n \in Int /\ n - 1 \in Int
    BY <1>1
  <2>2. QED
    BY <2>1, FS_Interval
<1>5. weight \in [1 .. n -> Nat] /\ \A i \in 1 .. n : weight[i] >= 1
  BY <1>1
<1>6. total \in Nat \ {0}
  <2> DEFINE first == [i \in 1 .. n |-> IF i \in {1} THEN 1 ELSE 0]
  <2>1. Counts(first, {1}, 1 .. n)
    BY <1>1 DEF Counts
  <2>2. first \in [1 .. n -> Int] /\ \A i \in 1 .. n : first[i] <= weight[i]
    BY <1>5
  <2>3. weight \in [1 .. n -> Int]
    BY <1>5
  <2>4. Cardinality({1}) = 1
    BY FS_Singleton
  <2> HIDE DEF first, weight
  <2>5. Summable(first, 1 .. n)
    BY <1>4, <2>2 DEF Summable
  <2>6. SumFunction(first) = 1
    BY <2>1, <2>4, <2>5, SumCounts
  <2>7. SumFunction(first) <= SumFunction(weight)
    BY <1>4, <2>2, <2>3, SumAtMost
  <2>8. SumFunction(weight) \in Nat
    BY <1>4, <1>5, SumNatural
  <2>9. QED
    BY <2>6, <2>7, <2>8
<1> HIDE DEF total
<1>7. \A i \in 1 .. n : part(i) \in Int
  <2>1. \A a, b \in Nat : a * b \in Nat
    OBVIOUS
  <2>2. \A i \in 1 .. n : Hundred * Weight(v, r, salt, i) \in Nat
    BY <1>1, <1>2, <2>1
  <2>3. \A i \in 1 .. n : Quantized(Hundred * Weight(v, r, salt, i), total) \in Int
    BY <1>6, <2>2, QuantizedTyped
  <2>4. QED
    BY <1>2, <2>3 DEF AtLeast
<1> HIDE DEF part
<1>8. parts \in [1 .. n - 1 -> Int]
  BY <1>1, <1>7
<1>9. last \in Int
  <2>1. SumFunction(parts) \in Int
    <3> HIDE DEF parts
    <3>1. QED
      BY <1>4, <1>8, SumTyped
  <2> HIDE DEF parts
  <2>2. QED
    BY <1>2, <2>1
<1> HIDE DEF parts, last, biggest
<1>10. AtLeast(MinimumShare, last) \in Int
  BY <1>2, <1>9 DEF AtLeast
<1>11. \A i \in 1 .. n : i # n => parts[i] \in Int
  BY <1>1, <1>8
<1>12. \A i \in 1 .. n : share(i) \in Int
  BY <1>2, <1>9, <1>10, <1>11
<1> HIDE DEF share
<1>13. QED
  BY <1>3, <1>12 DEF n

\* A row of a version: its set is of one recording and date, its share is a number and its
\* holder one of the indexes, or the one that does not exist.
RowSound(q, v) ==
  /\ q.share \in Int
  /\ q.holder \in Nat /\ q.holder < Whole
  /\ q.split = SplitVersionId(v, q.recording, q.from)

OneRowEach(rows) ==
  \A p, q \in rows :
    p.recording = q.recording /\ p.split = q.split /\ p.holder = q.holder => p = q

RowsSound(rows, v) == OneRowEach(rows) /\ \A q \in rows : RowSound(q, v)

\* The rows of one recording, and those of one of its dates.
RowsOfOne(rows, v, r) == RowsSound(rows, v) /\ \A q \in rows : q.recording = r
RowsOfDate(rows, v, r, from) == RowsOfOne(rows, v, r) /\ \A q \in rows : q.from = from

LEMMA SetRowsApart ==
  ASSUME Assumptions, NEW v \in Versions, NEW r \in Universe \cup Orphans,
         NEW from, NEW to, NEW salt \in {"a", "b"}, NEW defect
  PROVE  RowsOfDate(SetRows(v, r, from, to, salt, defect), v, r, from)
<1> DEFINE n == Count(v, r, salt)
           shares == SharesFor(v, r, salt)
           holders == HoldersFor(v, r, salt)
           holder(i) == IF i = 1 /\ defect = "missing_rights_holder"
                        THEN NoSuchHolder ELSE holders[i]
           share(i) == IF i = 1 /\ defect = "shares_do_not_sum_to_100"
                       THEN IF shares[1] < 80000 THEN 5000 ELSE shares[1] - 75000
                       ELSE shares[i]
           row(i) == [recording |-> r, from |-> from, to |-> to,
                      split |-> SplitVersionId(v, r, from),
                      holder |-> holder(i), share |-> share(i)]
           T == SetRows(v, r, from, to, salt, defect)
<1>1. n \in Nat \ {0} /\ Assignable \in Nat /\ Assignable <= NoSuchHolder
  BY DEF Assumptions, RightsModelAssumption, Assignable, NoSuchHolder
<1>2. shares \in [1 .. n -> Int]
  BY SharesTyped
<1>3. T = {row(i) : i \in 1 .. n}
  <2>1. DOMAIN shares = 1 .. n
    BY <1>2
  <2>2. QED
    BY <2>1 DEF SetRows
<1>4. \A i \in 1 .. n : holders[i] \in Nat /\ holders[i] < Assignable
  <2>1. \A S : holders \in Seq(S) /\ Len(holders) = n => \A i \in 1 .. n : holders[i] \in S
    OBVIOUS
  <2>2. holders \in Seq(0 .. Assignable - 1) /\ Len(holders) = n
    BY HoldersApart DEF Apart
  <2>3. \A i \in 1 .. n : holders[i] \in 0 .. Assignable - 1
    BY <2>1, <2>2
  <2> HIDE DEF holders
  <2>4. QED
    BY <1>1, <2>3
<1>5. \A i, j \in 1 .. n : holders[i] = holders[j] => i = j
  BY HoldersApart DEF Apart
<1> HIDE DEF n, shares, holders
<1>6. \A i \in 1 .. n : share(i) \in Int
  BY <1>1, <1>2, SMT
<1>7. \A i \in 1 .. n : holder(i) \in Nat /\ holder(i) < Whole
  BY <1>1, <1>4, SMT DEF NoSuchHolder, Whole
<1>8. \A i, j \in 1 .. n : holder(i) = holder(j) => i = j
  <2>1. \A i \in 1 .. n : holders[i] # NoSuchHolder
    BY <1>1, <1>4, SMT DEF NoSuchHolder
  <2>2. QED
    BY <1>5, <2>1
<1> HIDE DEF share, holder
<1>9. \A q \in T : q.recording = r /\ q.from = from
  BY <1>3
<1>10. \A q \in T : RowSound(q, v)
  BY <1>3, <1>6, <1>7 DEF RowSound
<1>11. OneRowEach(T)
  <2>1. ASSUME NEW i \in 1 .. n, NEW j \in 1 .. n, row(i).holder = row(j).holder
        PROVE  row(i) = row(j)
    <3>1. holder(i) = holder(j)
      BY <2>1
    <3>2. i = j
      BY <1>8, <3>1
    <3>3. QED
      BY <3>2
  <2> HIDE DEF row
  <2>2. QED
    BY <1>3, <2>1 DEF OneRowEach
<1>12. QED
  BY <1>9, <1>10, <1>11 DEF RowsSound, RowsOfOne, RowsOfDate, T

\* Sets that begin on different dates have different identifiers.
LEMMA TwoSetsApart ==
  ASSUME NEW v, NEW r, NEW a, NEW b, NEW s, NEW t, s # t,
         RowsOfDate(a, v, r, s), RowsOfDate(b, v, r, t)
  PROVE  RowsOfOne(a \cup b, v, r)
<1>1. \A p \in a, q \in b : p.split # q.split
  BY DEF RowsOfDate, RowsOfOne, RowsSound, RowSound, SplitVersionId
<1>2. OneRowEach(a \cup b)
  BY <1>1 DEF RowsOfDate, RowsOfOne, RowsSound, OneRowEach
<1>3. QED
  BY <1>2 DEF RowsOfDate, RowsOfOne, RowsSound

LEMMA OwnershipRowsApart ==
  ASSUME Assumptions, NEW v \in Versions, NEW r \in Universe \cup Orphans, NEW defect
  PROVE  RowsOfOne(OwnershipRows(v, r, defect), v, r)
<1>1. \A from, to, d : \A salt \in {"a", "b"} :
        RowsOfDate(SetRows(v, r, from, to, salt, d), v, r, from)
  BY SetRowsApart
<1>2. \A from, to, d : RowsOfOne(SetRows(v, r, from, to, "a", d), v, r)
  BY <1>1 DEF RowsOfDate
<1>3. \A s, t, x, y : s # t => RowsOfOne(SetRows(v, r, s, x, "a", Healthy)
                                       \cup SetRows(v, r, t, y, "b", Healthy), v, r)
  BY <1>1, TwoSetsApart
<1>4. Base # OverlapStart /\ Base # OverlapEnd /\ Base # ChangeDate
  BY DEF Base, OverlapStart, OverlapEnd, ChangeDate
<1>5. QED
  BY <1>2, <1>3, <1>4 DEF OwnershipRows

LEMMA SplitsApart ==
  ASSUME Assumptions, NEW v \in Versions
  PROVE  RowsSound(OwnershipSplits(v, Universe), v)
<1> DEFINE rows(r) == OwnershipRows(v, r, DefectOf(v, r, Universe))
<1>1. \A r \in Universe \cup Orphans : RowsSound(rows(r), v) /\ \A q \in rows(r) : q.recording = r
  BY OwnershipRowsApart DEF RowsOfOne
<1>2. \A q \in OwnershipSplits(v, Universe) :
        q.recording \in Universe \cup Orphans /\ q \in rows(q.recording)
  BY <1>1 DEF OwnershipSplits
<1> HIDE DEF rows
<1>3. QED
  BY <1>1, <1>2 DEF RowsSound, OneRowEach

-----------------------------------------------------------------------------
(* What is paid                                                                *)

RowsIn(splits, recording, split) == {q \in splits : q.recording = recording /\ q.split = split}

AddUp(rows) ==
  /\ IsFiniteSet(rows) /\ \A q \in rows : q.share \in Nat
  /\ SumFunction([q \in rows |-> q.share]) = Whole

\* A set can be paid if, in whatever splits its rows are still found, their shares add up.
Payable(recording, split) ==
  \A v \in Versions : \/ RowsIn(SplitsOf[v], recording, split) = {}
                      \/ AddUp(RowsIn(SplitsOf[v], recording, split))

LEMMA SplitsOfSound ==
  ASSUME Assumptions, NEW v \in Versions
  PROVE  RowsSound(SplitsOf[v], v) /\ IsFiniteSet(SplitsOf[v])
BY SplitsApart, OwnershipSplitsSound DEF SplitsOf, SplitsSound

\* A set with no flag has shares that add up, each between nothing and the whole.
LEMMA UnflaggedAdds ==
  ASSUME NEW s, NEW sets, NEW holders, NEW catalogue, Flags(s, sets, holders, catalogue) = {}
  PROVE  /\ SumFunction([r \in s.rows |-> r.share]) = Whole
         /\ \A r \in s.rows : ~(r.share < 0 \/ r.share > Whole)
<1>1. "shares_do_not_sum_to_100" \notin Flags(s, sets, holders, catalogue)
      /\ "share_out_of_range" \notin Flags(s, sets, holders, catalogue)
  OBVIOUS
<1>2. SumFunction([r \in s.rows |-> r.share]) = Whole
  BY <1>1, SMT DEF Flags, Whole
<1>3. \A r \in s.rows : ~(r.share < 0 \/ r.share > Whole)
  BY <1>1, SMT DEF Flags, Whole
<1>4. QED
  BY <1>2, <1>3

\* A set that is valid in the splits of one version is in those of no other.
LEMMA ValidIsPayable ==
  ASSUME Assumptions, NEW w \in Versions, NEW holders, NEW catalogue,
         NEW s \in Validity(SplitsOf[w], holders, catalogue), IsValid(s)
  PROVE  Payable(s.recording, s.split)
<1> DEFINE splits == SplitsOf[w]
           sets == SetsOf(splits)
<1>1. PICK t \in sets : /\ s.recording = t.recording /\ s.split = t.split
                        /\ s.flags = Flags(t, sets, holders, catalogue)
  BY DEF Validity
<1>2. PICK q \in splits : t = SetOf(splits, q.recording, q.split)
  BY DEF SetsOf
<1> DEFINE rows == RowsIn(splits, q.recording, q.split)
<1>3. t.recording = q.recording /\ t.split = q.split /\ t.rows = rows
  BY <1>2 DEF SetOf, RowsIn
<1>4. /\ SumFunction([r \in rows |-> r.share]) = Whole
      /\ \A r \in rows : ~(r.share < 0 \/ r.share > Whole)
  BY <1>1, <1>3, UnflaggedAdds DEF IsValid
<1>5. AddUp(rows)
  <2>1. IsFiniteSet(splits) /\ \A r \in splits : r.share \in Int
    BY SplitsOfSound DEF RowsSound, RowSound
  <2>2. rows \in SUBSET splits
    BY DEF RowsIn
  <2>3. IsFiniteSet(rows) /\ \A r \in rows : r.share \in Int
    BY <2>1, <2>2, FS_Subset
  <2> HIDE DEF rows
  <2>4. QED
    BY <1>4, <2>3 DEF AddUp
<1>6. ASSUME NEW v \in Versions, NEW p \in RowsIn(SplitsOf[v], q.recording, q.split)
      PROVE  v = w
  <2>1. p \in SplitsOf[v] /\ p.split = q.split
    BY DEF RowsIn
  <2>2. /\ \A x \in SplitsOf[v] : x.split = SplitVersionId(v, x.recording, x.from)
        /\ \A x \in SplitsOf[w] : x.split = SplitVersionId(w, x.recording, x.from)
    BY SplitsOfSound DEF RowsSound, RowSound
  <2>3. RightsVersion(v) = RightsVersion(w)
    BY <2>1, <2>2 DEF SplitVersionId
  <2>4. QED
    BY <2>3 DEF Assumptions, RightsAssumption
<1>7. QED
  BY <1>1, <1>3, <1>5, <1>6 DEF Payable

Closes(cents, played, price, share) ==
  /\ ClosesIn(cents, TargetCents(played, price))
  /\ \A h \in DOMAIN share :
       cents[h] - (Unrounded(played, price, share)[h] \div Cent) \in {0, 1}

\* The holders of a set that can be paid are given its gross, to the cent.
LEMMA PaidCloses ==
  ASSUME Assumptions, NEW v \in Versions, NEW recording, NEW split, Payable(recording, split),
         NEW rows, rows = RowsIn(SplitsOf[v], recording, split), rows # {},
         NEW played \in Nat, NEW price \in Nat
  PROVE  Closes(SqlCents(played, price, Shares(rows)), played, price, Shares(rows))
<1> DEFINE D == {r.holder : r \in rows}
           share == Shares(rows)
           held == [r \in rows |-> r.holder]
           of == [r \in rows |-> r.share]
           one(h) == CHOOSE r \in rows : r.holder = h
<1>1. AddUp(rows)
  BY DEF Payable
<1>2. /\ \A p, q \in rows : p.holder = q.holder => p = q
      /\ \A q \in rows : q.holder \in Nat /\ q.holder < Whole
  <2>1. RowsSound(SplitsOf[v], v)
    BY SplitsOfSound
  <2>2. QED
    BY <2>1 DEF RowsSound, RowSound, OneRowEach, RowsIn
<1>3. IsFiniteSet(rows) /\ \A r \in rows : r.share \in Nat
  BY <1>1 DEF AddUp
<1>4. SumFunction(of) = Whole
  BY <1>1 DEF AddUp
<1>5. share = [h \in D |-> one(h).share]
  BY DEF Shares
<1>6. \A r \in rows : share[r.holder] = r.share
  <2>1. ASSUME NEW r \in rows
        PROVE  one(r.holder) = r
    BY <1>2
  <2> HIDE DEF one
  <2>2. QED
    BY <1>5, <2>1
<1> HIDE DEF share, one
<1>7. share \in [D -> Nat]
  BY <1>3, <1>5, <1>6
<1>8. IsFiniteSet(D)
  <2>1. DOMAIN held = rows /\ held = [r \in rows |-> held[r]]
        /\ (\A r \in rows : held[r] \in D) /\ \A h \in D : \E r \in rows : held[r] = h
    OBVIOUS
  <2> HIDE DEF held, D
  <2>2. QED
    BY <1>3, <2>1, FiniteImage
<1>9. D \in SUBSET Nat /\ Cardinality(D) <= Whole
  <2>1. D \in SUBSET Nat /\ \A h \in D : h < Whole
    BY <1>2
  <2>2. Whole \in Nat
    BY SMT DEF Whole
  <2> HIDE DEF D
  <2>3. D \subseteq 0 .. Whole - 1
    BY <2>1, <2>2
  <2>4. IsFiniteSet(0 .. Whole - 1) /\ Cardinality(0 .. Whole - 1) <= Whole
    <3>1. 0 \in Int /\ Whole - 1 \in Int
      BY <2>2
    <3>2. QED
      BY <2>2, <3>1, FS_Interval
  <2>5. Cardinality(D) <= Cardinality(0 .. Whole - 1)
    BY <2>3, <2>4, FS_Subset
  <2>6. Cardinality(D) \in Nat /\ Cardinality(0 .. Whole - 1) \in Nat
    BY <1>8, <2>4, FS_CardinalityType
  <2>7. QED
    BY <2>1, <2>2, <2>4, <2>5, <2>6
<1>10. SumFunction(share) = Whole
  <2>1. Renames(held, rows, D)
    BY <1>2 DEF Renames
  <2>2. of \in [rows -> Int] /\ share \in [D -> Int]
    BY <1>3, <1>7
  <2>3. SameByName(of, share, held, rows)
    BY <1>6 DEF SameByName
  <2> HIDE DEF held, of, D
  <2>4. Summable(of, rows) /\ Summable(share, D)
    BY <1>3, <1>8, <2>2 DEF Summable
  <2>5. SumFunction(of) = SumFunction(share)
    BY <2>1, <2>3, <2>4, SumRenamed
  <2>6. QED
    BY <1>4, <2>5
<1>11. DOMAIN share = D
  BY <1>7
<1> HIDE DEF D
<1>12. /\ ClosesIn(SqlCents(played, price, share), TargetCents(played, price))
       /\ \A h \in D : SqlCents(played, price, share)[h]
                         - (Unrounded(played, price, share)[h] \div Cent) \in {0, 1}
  BY <1>7, <1>8, <1>9, <1>10, CentsClose
<1>13. QED
  BY <1>11, <1>12 DEF share, Closes

\* What the derived tables say of the sets they would pay, each in its turn.
LandedSplits(splits) == splits = {} \/ \E v \in Versions : splits = SplitsOf[v]
SetsPayable(sets) == \A s \in sets : IsValid(s) => Payable(s.recording, s.split)
DaysPayable(days) == \A d \in days : d.split # Null => Payable(d.recording, d.split)
ListensPayable(table) ==
  \A l \in Listens : table[l].status = "ATTRIBUTABLE" => Payable(table[l].recording, table[l].split)
GroupsPayable(table) ==
  \A b \in table : /\ b.streams \in Nat /\ b.group.rate \in Nat
                   /\ Payable(b.group.recording, b.group.split)
AllClose(paying) ==
  \A paid \in paying : Closes(paid.cents, paid.streams, paid.group.rate, paid.share)

LEMMA ValidityPayable ==
  ASSUME Assumptions, NEW splits, LandedSplits(splits), NEW holders, NEW catalogue
  PROVE  SetsPayable(Validity(splits, holders, catalogue))
<1>1. CASE splits = {}
  BY <1>1 DEF Validity, SetsOf, SetsPayable
<1>2. CASE \E v \in Versions : splits = SplitsOf[v]
  BY <1>2, ValidIsPayable DEF SetsPayable
<1>3. QED
  BY <1>1, <1>2 DEF LandedSplits

LEMMA ResolutionPayable ==
  ASSUME NEW sets, SetsSound(sets), SetsPayable(sets), NEW days, NEW rates
  PROVE  DaysPayable(Resolution(days, sets, rates))
<1>1. ASSUME NEW recording, NEW day, NEW d, d = ResolvedDay(recording, day, sets, rates),
             d.split # Null
      PROVE  Payable(d.recording, d.split)
  <2> DEFINE own == {s \in sets : s.recording = recording}
             covering == {s \in own : IsValid(s) /\ InForce(s, day)}
             sole == CHOOSE s \in covering : TRUE
  <2>1. /\ d.recording = recording
        /\ d.split = IF Cardinality(covering) = 1 THEN sole.split ELSE Null
    BY <1>1 DEF ResolvedDay
  <2>2. IsFiniteSet(covering)
    BY FS_Subset DEF SetsSound
  <2>3. Cardinality(covering) = 1 /\ d.split = sole.split
    BY <1>1, <2>1
  <2>4. sole \in covering
    <3>1. PICK x : covering = {x}
      BY <2>2, <2>3, FS_Singleton
    <3>2. QED
      BY <3>1
  <2> HIDE DEF sole
  <2>5. sole \in sets /\ sole.recording = recording /\ IsValid(sole)
    BY <2>4
  <2>6. QED
    BY <2>1, <2>3, <2>5 DEF SetsPayable
<1>2. QED
  BY <1>1 DEF DaysPayable, Resolution

LEMMA DispositionPayable ==
  ASSUME Assumptions, NEW days, DaysSound(days), DaysPayable(days), NEW table
  PROVE  ListensPayable(Disposition(table, days))
<1>1. ASSUME NEW row, NEW d, d = Disposed(row, days), d.status = "ATTRIBUTABLE"
      PROVE  Payable(d.recording, d.split)
  <2> DEFINE own == {x \in days : x.recording = row.recording /\ x.day = row.day}
             day == CHOOSE x \in own : TRUE
  <2>1. /\ d.recording = row.recording
        /\ d.split = IfAttributable(d.status, IF own = {} THEN Null ELSE day.split)
    BY <1>1 DEF Disposed
  <2>2. d.split # Null
    BY <1>1, DisposedAgrees
  <2>3. own # {} /\ d.split = day.split
    BY <1>1, <2>1, <2>2 DEF IfAttributable
  <2>4. day \in days /\ day.recording = row.recording
    BY <2>3
  <2> HIDE DEF day
  <2>5. QED
    BY <2>1, <2>2, <2>3, <2>4 DEF DaysPayable
<1>2. QED
  BY <1>1 DEF ListensPayable, Disposition

LEMMA StreamsPayable ==
  ASSUME Assumptions, NEW table, ListensPayable(table), NEW rates, RatesSound(rates)
  PROVE  GroupsPayable(AttributableStreams(table, rates))
<1> DEFINE attributable == {l \in Listens : table[l].status = "ATTRIBUTABLE"}
           pays(l, r) == InForce(r, table[l].day)
           group(l, r) == [recording |-> table[l].recording, split |-> table[l].split,
                           card |-> r.card, rate |-> r.rate]
           groups == {group(p[1], p[2]) : p \in {p \in attributable \X rates : pays(p[1], p[2])}}
           paying(g) == {p \in attributable \X rates : pays(p[1], p[2]) /\ group(p[1], p[2]) = g}
           count(g) == [p \in paying(g) |-> Streams[p[1]]]
<1>1. AttributableStreams(table, rates)
        = {[group |-> g, streams |-> SumFunction(count(g))] : g \in groups}
  BY DEF AttributableStreams
<1>2. \A g : SumFunction(count(g)) \in Nat
  <2>1. ASSUME NEW g
        PROVE  SumFunction(count(g)) \in Nat
    <3>1. IsFiniteSet(attributable) /\ IsFiniteSet(rates)
      BY FS_Subset DEF RatesSound, Assumptions, RightsAssumption
    <3>2. IsFiniteSet(attributable \X rates)
      <4> HIDE DEF attributable
      <4>1. QED
        BY <3>1, FS_Product
    <3>3. IsFiniteSet(paying(g))
      <4>1. paying(g) \in SUBSET (attributable \X rates)
        OBVIOUS
      <4> HIDE DEF paying, attributable
      <4>2. QED
        BY <3>2, <4>1, FS_Subset
    <3>4. \A p \in paying(g) : p[1] \in Listens
      OBVIOUS
    <3>5. \A p \in paying(g) : Streams[p[1]] \in Nat
      BY <3>4 DEF Assumptions, RightsAssumption
    <3> HIDE DEF paying
    <3>6. count(g) \in [paying(g) -> Nat]
      BY <3>5
    <3> HIDE DEF count
    <3>7. QED
      BY <3>3, <3>6, SumNatural
  <2>2. QED
    BY <2>1
<1>3. \A g \in groups : g.rate \in Nat /\ Payable(g.recording, g.split)
  <2>1. ASSUME NEW l \in attributable, NEW r \in rates
        PROVE  LET g == group(l, r) IN g.rate \in Nat /\ Payable(g.recording, g.split)
    BY DEF RatesSound, ListensPayable
  <2> HIDE DEF attributable, group
  <2>2. QED
    BY <2>1
<1> HIDE DEF groups, count
<1>4. QED
  BY <1>1, <1>2, <1>3 DEF GroupsPayable

LEMMA AttributionCloses ==
  ASSUME Assumptions, NEW table, GroupsPayable(table), NEW splits, LandedSplits(splits)
  PROVE  AllClose(Attribution(table, splits))
<1>1. ASSUME NEW b \in table, RowsOf(b.group, splits) # {}
      PROVE  LET share == Shares(RowsOf(b.group, splits)) IN
             Closes(SqlCents(b.streams, b.group.rate, share), b.streams, b.group.rate, share)
  <2>1. RowsOf(b.group, splits) = RowsIn(splits, b.group.recording, b.group.split)
    BY DEF RowsOf, RowsIn
  <2>2. PICK v \in Versions : splits = SplitsOf[v]
    BY <1>1, <2>1 DEF LandedSplits, RowsIn
  <2>3. /\ b.streams \in Nat /\ b.group.rate \in Nat
        /\ Payable(b.group.recording, b.group.split)
    BY DEF GroupsPayable
  <2>4. QED
    BY <1>1, <2>1, <2>2, <2>3, PaidCloses
<1>2. QED
  BY <1>1 DEF AllClose, Attribution

\* A build pays nothing whose shares do not add up, whatever lands while it runs; nor does
\* a publication that starts from the resolution that stands.
PaidSound ==
  /\ LandedSplits(Splits)
  /\ BuilderAt("eligibility") \/ BuilderAt("resolution") => SetsPayable(validity)
  /\ BuilderAt("disposition") \/ resolution # NoTable => DaysPayable(resolution)
  /\ BuilderAt("streams") => ListensPayable(disposition)
  /\ BuilderAt("fact") => GroupsPayable(streams)

PaidInvariant == GatesInvariant /\ PaidSound /\ AllClose(attribution)

LEMMA InsertSplits ==
  ASSUME LandingInvariant, LandedSplits(Splits), InsertFromStaging
  PROVE  LandedSplits(Splits')
<1>1. lander # Idle /\ lander.version \in Versions
  BY DEF InsertFromStaging, LandingInvariant, Typed, LanderTyped
<1>2. /\ landed'[Target].rows = Generated(Target, lander.version, lander.revised)
      /\ \A t \in Tables \ {Target} : landed'[t] = landed[t]
      /\ Target \in Tables
  BY <1>1, TargetTyped
     DEF InsertFromStaging, LandingInvariant, StagedForInsert, GeneratedNow, Typed
<1>3. Splits' = Splits \/ Splits' = Generated("ownership_splits", lander.version, lander.revised)
  BY <1>2 DEF Splits, Tables
<1>4. QED
  BY <1>1, <1>3 DEF LandedSplits, Generated

\* Besides what BuilderWalks says, nothing but dbt takes a build to its last two tables.
LEMMA PayingStays ==
  ASSUME Typed, [Next]_vars, ~Dbt
  PROVE  /\ UNCHANGED <<streams, attribution>>
         /\ \A at \in {"streams", "fact"} : BuilderAt(at)' => BuilderAt(at)
<1>1. UNCHANGED <<streams, attribution>>
  BY DEF Next, Land, StartLanding, LoadStaging, InsertFromStaging, DropStaging, WriteReport,
     StartPublish, Clear, StartVerify, Detect, Reconcile, Happen, EditConfig, Rematch,
     KillLander, KillBuilder, derived, vars
<1>2. CASE StartPublish
  BY <1>1, <1>2 DEF StartPublish, BuilderAt
<1>3. CASE StartVerify
  <2>1. PICK agrees : builder' = [at |-> "detect", version |-> report, agrees |-> agrees]
    BY <1>3 DEF StartVerify
  <2>2. QED
    BY <1>1, <2>1 DEF BuilderAt
<1>4. CASE Detect
  <2>1. PICK agrees : builder' = [builder EXCEPT !.at = "holders", !.agrees = agrees]
    BY <1>4 DEF Detect
  <2>2. "at" \in DOMAIN builder
    BY <1>4 DEF Detect, Building, Typed, BuilderTyped
  <2>3. builder'.at = "holders"
    BY <2>1, <2>2
  <2>4. QED
    BY <1>1, <2>3 DEF BuilderAt
<1>5. CASE Reconcile
  BY <1>1, <1>5 DEF Reconcile, BuilderAt
<1>6. CASE Land \/ Happen \/ UNCHANGED vars
  <2>1. builder' \in {builder, Idle}
    BY <1>6 DEF Land, StartLanding, LoadStaging, InsertFromStaging, DropStaging, WriteReport,
       Happen, EditConfig, Rematch, KillLander, KillBuilder, vars
  <2>2. QED
    BY <1>1, <2>1 DEF BuilderAt
<1>7. QED
  BY <1>2, <1>3, <1>4, <1>5, <1>6 DEF Next, Clear

LEMMA DbtPays ==
  ASSUME Assumptions, PaidInvariant, Dbt
  PROVE  PaidSound' /\ AllClose(attribution)'
<1> USE DEF PaidInvariant, GatesInvariant, LandingInvariant
<1>1. /\ LandedSplits(Splits) /\ RatesSound(Rates)
      /\ BuilderAt("eligibility") \/ BuilderAt("resolution")
           => SetsSound(validity) /\ SetsPayable(validity)
      /\ BuilderAt("disposition") => DaysSound(resolution)
      /\ BuilderAt("disposition") \/ resolution # NoTable => DaysPayable(resolution)
      /\ BuilderAt("streams") => ListensPayable(disposition)
      /\ BuilderAt("fact") => GroupsPayable(streams)
  BY DEF PaidSound, BuiltSound, BuilderAt
<1>2. Splits' = Splits
  BY DEF Dbt, StartBuild, BuildValidity, BuildEligibility, BuildResolution, BuildDisposition,
     BuildStreams, BuildFact, UntouchedByDbt, rights, Splits
<1>3. ASSUME BuilderAt("eligibility")' \/ BuilderAt("resolution")' => SetsPayable(validity'),
             BuilderAt("disposition")' \/ resolution' # NoTable => DaysPayable(resolution'),
             BuilderAt("streams")' => ListensPayable(disposition'),
             BuilderAt("fact")' => GroupsPayable(streams'),
             AllClose(attribution')
      PROVE  PaidSound' /\ AllClose(attribution)'
  BY <1>1, <1>2, <1>3 DEF PaidSound, BuilderAt
<1>4. CASE StartBuild
  <2>1. UNCHANGED <<validity, resolution, disposition, streams, attribution>>
        /\ \A at : BuilderAt(at)' => at = "validity"
    BY <1>4 DEF StartBuild, derived, BuilderAt
  <2>2. QED
    BY <1>1, <1>3, <2>1
<1>5. CASE BuildValidity
  <2>1. /\ validity' = Validity(Splits, HolderIds, Catalogue(matches))
        /\ UNCHANGED <<resolution, disposition, streams, attribution>>
        /\ builder # Idle /\ Then("eligibility")
    BY <1>5 DEF BuildValidity, Building
  <2>2. SetsPayable(validity')
    BY <1>1, <2>1, ValidityPayable
  <2>3. QED
    BY <1>1, <1>3, <2>1, <2>2, ThenWalks
<1>6. CASE BuildEligibility
  <2>1. /\ BuilderAt("eligibility") /\ Then("resolution")
        /\ UNCHANGED <<validity, resolution, disposition, streams, attribution>>
    BY <1>6 DEF BuildEligibility, Building, BuilderAt
  <2>2. QED
    BY <1>1, <1>3, <2>1, ThenWalks DEF BuilderAt
<1>7. CASE BuildResolution
  <2>1. /\ BuilderAt("resolution") /\ Then("disposition")
        /\ resolution' = Resolution(RecordingDays(eligibility), validity, Rates)
        /\ UNCHANGED <<validity, disposition, streams, attribution>>
    BY <1>7 DEF BuildResolution, Building, BuilderAt
  <2>2. DaysPayable(resolution')
    BY <1>1, <2>1, ResolutionPayable
  <2>3. QED
    BY <1>1, <1>3, <2>1, <2>2, ThenWalks DEF BuilderAt
<1>8. CASE BuildDisposition
  <2>1. /\ BuilderAt("disposition") /\ Then("streams")
        /\ disposition' = Disposition(eligibility, resolution)
        /\ UNCHANGED <<validity, resolution, streams, attribution>>
    BY <1>8 DEF BuildDisposition, Building, BuilderAt
  <2>2. ListensPayable(disposition')
    BY <1>1, <2>1, DispositionPayable
  <2>3. QED
    BY <1>1, <1>3, <2>1, <2>2, ThenWalks DEF BuilderAt
<1>9. CASE BuildStreams
  <2>1. /\ BuilderAt("streams") /\ Then("fact")
        /\ streams' = AttributableStreams(disposition, Rates)
        /\ UNCHANGED <<validity, resolution, disposition, attribution>>
    BY <1>9 DEF BuildStreams, Building, BuilderAt
  <2>2. GroupsPayable(streams')
    BY <1>1, <2>1, StreamsPayable
  <2>3. QED
    BY <1>1, <1>3, <2>1, <2>2, ThenWalks DEF BuilderAt
<1>10. CASE BuildFact
  <2>1. /\ BuilderAt("fact") /\ builder' = Idle
        /\ attribution' = Attribution(streams, Splits)
        /\ UNCHANGED <<validity, resolution, disposition, streams>>
    BY <1>10 DEF BuildFact, Building, BuilderAt
  <2>2. AllClose(attribution')
    BY <1>1, <2>1, AttributionCloses
  <2>3. QED
    BY <1>1, <1>3, <2>1, <2>2 DEF BuilderAt
<1>11. QED
  BY <1>4, <1>5, <1>6, <1>7, <1>8, <1>9, <1>10 DEF Dbt

LEMMA PaidStep ==
  ASSUME Assumptions, PaidInvariant, [Next]_vars
  PROVE  PaidInvariant'
<1>1. GatesInvariant'
  BY GatesStep DEF PaidInvariant
<1>2. CASE Dbt
  BY <1>1, <1>2, DbtPays DEF PaidInvariant
<1>3. CASE ~Dbt
  <2>1. Typed /\ LandingInvariant
    BY DEF PaidInvariant, GatesInvariant, LandingInvariant
  <2>2. UNCHANGED <<validity, resolution, disposition, streams, attribution>>
    BY <1>3, <2>1, DerivedStay, PayingStays
  <2>3. LandedSplits(Splits')
    <3>1. CASE InsertFromStaging
      BY <2>1, <3>1, InsertSplits DEF PaidInvariant, PaidSound
    <3>2. CASE ~InsertFromStaging
      BY <3>2, LandedStays DEF PaidInvariant, PaidSound, Splits
    <3>3. QED
      BY <3>1, <3>2
  <2>4. /\ BuilderAt("eligibility")' \/ BuilderAt("resolution")' => SetsPayable(validity)
        /\ BuilderAt("disposition")' \/ resolution # NoTable => DaysPayable(resolution)
        /\ BuilderAt("streams")' => ListensPayable(disposition)
        /\ BuilderAt("fact")' => GroupsPayable(streams)
    BY <1>3, <2>1, BuilderWalks, PayingStays DEF PaidInvariant, PaidSound
  <2>5. PaidSound'
    BY <2>2, <2>3, <2>4 DEF PaidSound, BuilderAt
  <2>6. QED
    BY <1>1, <2>2, <2>5 DEF PaidInvariant
<1>4. QED
  BY <1>2, <1>3

LEMMA PaidInit ==
  ASSUME Assumptions, Init
  PROVE  PaidInvariant
<1>1. Splits = {}
  BY DEF Init, Splits, Tables
<1>2. PaidSound /\ AllClose(attribution)
  BY <1>1 DEF Init, PaidSound, AllClose, LandedSplits, BuilderAt
<1>3. QED
  BY <1>2, GatesInit DEF PaidInvariant

\* The cents of a group's holders add up to its rounded gross, and each is the whole cents
\* of its exact amount or one more, though the amounts go through a NUMERIC of nine decimals
\* first: for every amount, rate and division of the shares the generator makes, and
\* whatever is landed, rematched or killed between the tables the money is derived from.
THEOREM PaymentsClose == Spec => []ClosesInCents
<1>1. Init => PaidInvariant
  BY PaidInit, RightsModelAssumption, RightsAssumption, NullAssumption DEF Assumptions
<1>2. PaidInvariant /\ [Next]_vars => PaidInvariant'
  BY PaidStep, RightsModelAssumption, RightsAssumption, NullAssumption DEF Assumptions
<1>3. PaidInvariant => ClosesInCents
  BY SMT DEF PaidInvariant, AllClose, Closes, ClosesInCents, Cent
<1>4. QED
  BY <1>1, <1>2, <1>3, PTL DEF Spec

-----------------------------------------------------------------------------
(* The shares of a set                                                         *)

\* Rounding adds at most one.
LEMMA QuantizedAtMost ==
  ASSUME NEW x \in Nat, NEW m \in Nat \ {0}
  PROVE  Quantized(x, m) <= (x \div m) + 1
<1>1. x \div m \in Nat
  OBVIOUS
<1>2. QED
  BY <1>1 DEF Quantized

\* The indicator of one index, and what it sums to.
One(k, n) == [i \in 1 .. n |-> IF i \in {k} THEN 1 ELSE 0]

LEMMA OneSums ==
  ASSUME NEW n \in Nat, NEW k \in 1 .. n
  PROVE  Summable(One(k, n), 1 .. n) /\ SumFunction(One(k, n)) = 1
<1>1. IsFiniteSet(1 .. n)
  BY FS_Interval
<1>2. Summable(One(k, n), 1 .. n)
  BY <1>1 DEF Summable, One
<1>3. Counts(One(k, n), {k}, 1 .. n)
  BY DEF Counts, One
<1>4. Cardinality({k}) = 1
  BY FS_Singleton
<1>5. QED
  BY <1>2, <1>3, <1>4, SumCounts

\* The parts of a set, before the last share, of weights w.
PartsOf(parts, w, n) ==
  parts = [i \in 1 .. n - 1 |->
             AtLeast(MinimumShare, Quantized(Hundred * w[i], SumFunction(w)))]

\* They are no more than the whole and a little.
LEMMA PartsBounded ==
  ASSUME NEW n \in 1 .. MostHolders, NEW w \in [1 .. n -> Nat \ {0}],
         NEW parts, PartsOf(parts, w, n)
  PROVE  /\ parts \in [1 .. n - 1 -> Nat]
         /\ \A i \in 1 .. n - 1 : parts[i] >= MinimumShare
         /\ SumFunction(parts) \in Nat
         /\ SumFunction(parts) <= Hundred + 3 * (MinimumShare + 1)
         /\ \A c \in Nat : (\A i \in 1 .. n - 1 : parts[i] <= c) => SumFunction(parts) <= 3 * c
<1> DEFINE S == 1 .. n - 1
           total == SumFunction(w)
           u == [i \in S |-> w[i]]
           e == [i \in 1 .. n |-> IF i \in S THEN w[i] ELSE 0]
           q == [i \in S |-> (Hundred * u[i]) \div total]
           one == [i \in S |-> 1]
           top == [i \in S |-> 1 * q[i] + (MinimumShare + 1) * one[i]]
<1>1. n \in Nat /\ n >= 1 /\ n - 1 \in Nat /\ n - 1 <= 3
  BY DEF MostHolders
<1>2. IsFiniteSet(S) /\ IsFiniteSet(1 .. n) /\ S \subseteq 1 .. n
  <2>1. 1 \in Int /\ n \in Int /\ n - 1 \in Int
    BY <1>1
  <2>2. IsFiniteSet(S) /\ IsFiniteSet(1 .. n)
    BY <2>1, FS_Interval
  <2>3. QED
    BY <1>1, <2>2
<1>3. u \in [S -> Nat] /\ e \in [1 .. n -> Int] /\ w \in [1 .. n -> Nat] /\ w \in [1 .. n -> Int]
      /\ u \in [S -> Int] /\ e \in [1 .. n -> Nat]
  BY <1>2
<1>4. \A i \in 1 .. n : e[i] <= w[i]
  OBVIOUS
<1>5. SumFunction(u) = SumFunction(e)
  <2>1. Pads(e, 1 .. n, u, S)
    BY <1>2 DEF Pads
  <2>2. Summable(u, S) /\ Summable(e, 1 .. n)
    BY <1>2, <1>3 DEF Summable
  <2> HIDE DEF u, e, S
  <2>3. QED
    BY <2>1, <2>2, SumPadded
<1>6. SumFunction(e) <= SumFunction(w)
  <2> HIDE DEF e
  <2>1. QED
    BY <1>2, <1>3, <1>4, SumAtMost
<1>7. total \in Nat \ {0}
  <2>1. w[1] <= SumFunction(w)
    <3>1. 1 \in 1 .. n
      BY <1>1
    <3>2. QED
      BY <1>2, <1>3, <3>1, TermAtMost
  <2>2. SumFunction(w) \in Nat
    BY <1>2, <1>3, SumNatural
  <2>3. w[1] \in Nat \ {0}
    BY <1>1
  <2>4. QED
    BY <2>1, <2>2, <2>3
<1>8. SumFunction(u) <= total
  BY <1>5, <1>6
<1>9. Hundred \in Nat /\ MinimumShare \in Nat
  BY DEF Hundred, MinimumShare
<1>10. SumFunction(q) <= Hundred
  <2>1. u \in [S -> Nat] /\ IsFiniteSet(S)
    BY <1>2, <1>3
  <2> HIDE DEF u, S, total
  <2>2. QED
    BY <1>7, <1>8, <1>9, <2>1, QuotientsAtMost
<1>11. \A i \in S : q[i] \in Nat /\ parts[i] \in Nat /\ parts[i] >= MinimumShare
                    /\ parts[i] <= q[i] + (MinimumShare + 1)
  <2>1. ASSUME NEW i \in S
        PROVE  q[i] \in Nat /\ parts[i] \in Nat /\ parts[i] >= MinimumShare
               /\ parts[i] <= q[i] + (MinimumShare + 1)
    <3> DEFINE x == Hundred * w[i]
    <3>1. x \in Nat
      <4>1. \A a, b \in Nat : a * b \in Nat
        OBVIOUS
      <4>2. w[i] \in Nat
        BY <1>2
      <4>3. QED
        BY <1>9, <4>1, <4>2
    <3>2. q[i] = x \div total /\ parts[i] = AtLeast(MinimumShare, Quantized(x, total))
      BY DEF PartsOf
    <3> HIDE DEF x, q
    <3>3. x \div total \in Nat
      BY <1>7, <3>1
    <3>4. Quantized(x, total) <= (x \div total) + 1 /\ Quantized(x, total) \in Int
      BY <1>7, <3>1, QuantizedAtMost, QuantizedTyped
    <3>5. QED
      BY <1>9, <3>2, <3>3, <3>4 DEF AtLeast
  <2>2. QED
    BY <2>1
<1>12. parts \in [S -> Nat] /\ parts \in [S -> Int] /\ DOMAIN parts = S
  <2>1. DOMAIN parts = S /\ parts = [i \in S |-> parts[i]]
    BY DEF PartsOf
  <2> HIDE DEF q, S
  <2>2. QED
    BY <1>11, <2>1
<1> HIDE DEF u, e, q
<1>13. q \in [S -> Nat] /\ q \in [S -> Int] /\ one \in [S -> Int]
  <2>1. q = [i \in S |-> q[i]]
    BY DEF q
  <2>2. QED
    BY <1>11, <2>1
<1>14. SumFunction(one) = n - 1 /\ SumFunction(one) \in Int
  <2>1. SumFunction([i \in 1 .. n - 1 |-> 1]) = 1 * (n - 1)
    <3>1. 1 \in Int
      OBVIOUS
    <3>2. QED
      BY <1>1, <3>1, ConstantSums
  <2>2. QED
    BY <1>1, <2>1
<1>15. top \in [S -> Int] /\ \A i \in S : parts[i] <= top[i]
  <2>1. \A i \in S : top[i] = q[i] + (MinimumShare + 1) /\ top[i] \in Int
    BY <1>9, <1>11
  <2>2. top = [i \in S |-> top[i]]
    OBVIOUS
  <2> HIDE DEF top
  <2>3. QED
    BY <1>11, <2>1, <2>2
<1>16. Combines(top, 1, q, MinimumShare + 1, one, S)
  BY DEF Combines
<1> HIDE DEF top, one, S
<1>17. SumFunction(top) = 1 * SumFunction(q) + (MinimumShare + 1) * SumFunction(one)
  <2>1. Summable(top, S) /\ Summable(q, S) /\ Summable(one, S)
    BY <1>2, <1>13, <1>15 DEF Summable
  <2>2. 1 \in Int /\ MinimumShare + 1 \in Int
    BY <1>9
  <2>3. QED
    BY <1>16, <2>1, <2>2, SumLinear
<1>18. SumFunction(parts) <= SumFunction(top)
  BY <1>2, <1>12, <1>15, SumAtMost
<1>19. SumFunction(parts) \in Nat /\ SumFunction(q) \in Nat
  BY <1>2, <1>12, <1>13, SumNatural
<1>20. SumFunction(parts) <= Hundred + 3 * (MinimumShare + 1)
  <2>1. SumFunction(top) = SumFunction(q) + (MinimumShare + 1) * (n - 1)
    BY <1>14, <1>17, <1>19
  <2>2. (MinimumShare + 1) * (n - 1) <= 3 * (MinimumShare + 1)
    BY <1>1 DEF MinimumShare
  <2>3. (MinimumShare + 1) * (n - 1) \in Nat
    BY <1>1 DEF MinimumShare
  <2>4. QED
    BY <1>9, <1>10, <1>18, <1>19, <2>1, <2>2, <2>3
<1>21. ASSUME NEW c \in Nat, \A i \in S : parts[i] <= c
       PROVE  SumFunction(parts) <= 3 * c
  <2> DEFINE all == [i \in S |-> c]
  <2>1. all \in [S -> Int] /\ \A i \in S : parts[i] <= all[i]
    <3>1. c \in Int
      OBVIOUS
    <3>2. QED
      BY <1>21, <3>1
  <2>2. SumFunction(all) = c * (n - 1)
    <3>1. SumFunction([i \in 1 .. n - 1 |-> c]) = c * (n - 1)
      <4>1. c \in Int
        OBVIOUS
      <4>2. QED
        BY <1>1, <4>1, ConstantSums
    <3>2. QED
      BY <3>1 DEF S
  <2> HIDE DEF all
  <2>3. SumFunction(parts) <= SumFunction(all)
    BY <1>2, <1>12, <2>1, SumAtMost
  <2>4. c * (n - 1) <= 3 * c /\ c * (n - 1) \in Nat
    <3>1. n - 1 \in {0, 1, 2, 3}
      BY <1>1
    <3>2. c * 0 = 0 /\ c * 1 = c /\ c * 2 = c + c /\ c * 3 = 3 * c
      OBVIOUS
    <3>3. QED
      BY <3>1, <3>2
  <2>5. QED
    BY <1>19, <2>2, <2>3, <2>4
<1>22. QED
  BY <1>11, <1>12, <1>19, <1>20, <1>21 DEF S

\* The shares of a set add up to the whole, and each is at least the minimum.
LEMMA SharesExact ==
  ASSUME Assumptions, NEW v \in Versions, NEW r \in Universe \cup Orphans, NEW salt \in {"a", "b"}
  PROVE  LET n == Count(v, r, salt)
             shares == SharesFor(v, r, salt)
         IN  /\ n \in 1 .. MostHolders
             /\ shares \in [1 .. n -> Nat]
             /\ \A i \in 1 .. n : shares[i] >= MinimumShare /\ shares[i] <= Hundred
             /\ SumFunction(shares) = Hundred
<1> DEFINE n == Count(v, r, salt)
           S == 1 .. n - 1
           weight == [i \in 1 .. n |-> Weight(v, r, salt, i)]
           total == SumFunction(weight)
           parts == [i \in S |->
                       AtLeast(MinimumShare, Quantized(Hundred * Weight(v, r, salt, i), total))]
           last == Hundred - SumFunction(parts)
           biggest == CHOOSE k \in S :
                        \A j \in S : parts[j] < parts[k] \/ (parts[j] = parts[k] /\ k <= j)
           b == IF n = 1 THEN n ELSE biggest
           short == IF last < MinimumShare THEN MinimumShare - last ELSE 0
           padded == [i \in 1 .. n |-> IF i \in S THEN parts[i] ELSE 0]
           lent == [i \in 1 .. n |-> 1 * padded[i] + (last + short) * One(n, n)[i]]
           shares == [i \in 1 .. n |-> 1 * lent[i] + (0 - short) * One(b, n)[i]]
<1>1. n \in 1 .. MostHolders /\ \A i \in 1 .. n : Weight(v, r, salt, i) \in Nat \ {0}
  BY DEF Assumptions, RightsModelAssumption, Assignable, MostHolders
<1>2. Hundred \in Nat /\ MinimumShare \in Nat /\ Hundred >= 33 * (MinimumShare + 1)
  BY DEF Hundred, MinimumShare
<1>0. SharesFor(v, r, salt)
        = [i \in 1 .. n |->
             IF i = n THEN AtLeast(MinimumShare, last)
             ELSE IF last < MinimumShare /\ i = biggest THEN parts[i] - (MinimumShare - last)
             ELSE parts[i]]
  BY DEF SharesFor
<1> HIDE DEF n
<1>3. n \in Nat /\ n >= 1
  BY <1>1 DEF MostHolders
<1>4. weight \in [1 .. n -> Nat \ {0}]
  BY <1>1
<1>5. parts = [i \in S |-> AtLeast(MinimumShare, Quantized(Hundred * weight[i], total))]
  <2>1. \A i \in S : weight[i] = Weight(v, r, salt, i)
    BY <1>3
  <2> HIDE DEF weight, total
  <2>2. QED
    BY <2>1
<1> HIDE DEF parts
<1>55. PartsOf(parts, weight, n)
  BY <1>5 DEF PartsOf
<1>6. /\ parts \in [S -> Nat]
      /\ \A i \in S : parts[i] >= MinimumShare
      /\ SumFunction(parts) \in Nat
      /\ SumFunction(parts) <= Hundred + 3 * (MinimumShare + 1)
      /\ \A c \in Nat : (\A i \in S : parts[i] <= c) => SumFunction(parts) <= 3 * c
  <2>1. \A c \in Nat : (\A i \in 1 .. n - 1 : parts[i] <= c) => SumFunction(parts) <= 3 * c
    <3> HIDE DEF weight
    <3>1. QED
      BY <1>1, <1>4, <1>55, PartsBounded
  <2>2. /\ parts \in [1 .. n - 1 -> Nat]
        /\ \A i \in 1 .. n - 1 : parts[i] >= MinimumShare
        /\ SumFunction(parts) \in Nat
        /\ SumFunction(parts) <= Hundred + 3 * (MinimumShare + 1)
    <3> HIDE DEF weight
    <3>1. QED
      BY <1>1, <1>4, <1>55, PartsBounded
  <2>3. QED
    BY <2>1, <2>2
<1> HIDE DEF weight, total
<1>7. last \in Int /\ short \in Nat /\ last + short \in Int /\ 0 - short \in Int
  <2>1. last \in Int
    BY <1>2, <1>6
  <2> HIDE DEF last
  <2>2. short \in Nat
    BY <1>2, <2>1
  <2> HIDE DEF short
  <2>3. QED
    BY <2>1, <2>2
<1>8. IsFiniteSet(1 .. n) /\ IsFiniteSet(S) /\ S \in SUBSET (1 .. n)
  <2>1. 1 \in Int /\ n \in Int /\ n - 1 \in Int
    BY <1>3
  <2>2. QED
    BY <1>3, <2>1, FS_Interval
<1>9. ASSUME n # 1
      PROVE  biggest \in S /\ \A j \in S : parts[j] <= parts[biggest]
  <2>1. parts \in [S -> Int] /\ 1 \in S
    BY <1>3, <1>6, <1>9
  <2>2. PICK m \in S : \A j \in S : parts[j] <= parts[m]
    <3> HIDE DEF S
    <3>1. QED
      BY <1>8, <2>1, Greatest
  <2> DEFINE best == {j \in S : parts[j] = parts[m]}
  <2>3. best \in SUBSET Nat /\ best # {}
    BY <2>2
  <2>4. PICK k \in best : \A j \in best : k <= j
    <3> HIDE DEF best
    <3>1. QED
      BY <2>3, LeastNatural
  <2>5. \A j \in S : parts[j] \in Nat
    BY <1>6
  <2>6. k \in S /\ parts[k] = parts[m]
    BY <2>4
  <2>7. \A j \in S : parts[j] < parts[k] \/ (parts[j] = parts[k] /\ k <= j)
    BY <2>2, <2>4, <2>5, <2>6
  <2>8. /\ biggest \in S
        /\ \A j \in S : parts[j] < parts[biggest]
                        \/ (parts[j] = parts[biggest] /\ biggest <= j)
    BY <2>6, <2>7
  <2> HIDE DEF biggest, S
  <2>9. QED
    BY <2>5, <2>8
<1>10. short # 0 => /\ n # 1
                    /\ parts[biggest] - short >= MinimumShare
  <2>1. SUFFICES ASSUME short # 0
                 PROVE  n # 1 /\ parts[biggest] - short >= MinimumShare
    OBVIOUS
  <2>2. last < MinimumShare /\ short = MinimumShare - last
    BY <2>1
  <2>3. SumFunction(parts) > Hundred - MinimumShare
    BY <1>2, <1>6, <2>2
  <2>4. n # 1
    <3>1. n = 1 => \A i \in S : parts[i] <= 0
      OBVIOUS
    <3>2. n = 1 => SumFunction(parts) <= 3 * 0
      BY <1>6, <3>1
    <3>3. QED
      BY <1>2, <1>6, <2>3, <3>2
  <2>5. parts[biggest] \in Nat /\ SumFunction(parts) <= 3 * parts[biggest]
    BY <1>6, <1>9, <2>4
  <2> HIDE DEF biggest
  <2>6. short = MinimumShare - (Hundred - SumFunction(parts))
    BY <2>2
  <2> HIDE DEF short, last
  <2>7. parts[biggest] - short >= MinimumShare
    <3>1. \A sum, top \in Nat :
            sum > Hundred - MinimumShare /\ sum <= 3 * top
            /\ sum <= Hundred + 3 * (MinimumShare + 1)
            => top - (MinimumShare - (Hundred - sum)) >= MinimumShare
      BY SMT DEF Hundred, MinimumShare
    <3>2. QED
      BY <1>6, <2>3, <2>5, <2>6, <3>1
  <2>8. QED
    BY <2>4, <2>7
<1> HIDE DEF biggest
<1>11. b \in 1 .. n
  BY <1>3, <1>9
<1>12. ASSUME NEW i \in 1 .. n
       PROVE  /\ padded[i] \in Nat /\ lent[i] \in Int /\ shares[i] \in Int
              /\ shares[i] = SharesFor(v, r, salt)[i]
              /\ shares[i] >= MinimumShare
  <2>1. One(n, n)[i] = (IF i = n THEN 1 ELSE 0) /\ One(b, n)[i] = IF i = b THEN 1 ELSE 0
    BY DEF One
  <2>2. lent[i] = padded[i] + (IF i = n THEN last + short ELSE 0) /\ padded[i] \in Nat
    <3>1. padded[i] \in Nat
      BY <1>6
    <3>2. lent[i] = 1 * padded[i] + (last + short) * One(n, n)[i]
      OBVIOUS
    <3> HIDE DEF padded, last, short, lent
    <3>3. \A x, y \in Int : 1 * x + y * 1 = x + y /\ 1 * x + y * 0 = x + 0
      OBVIOUS
    <3>4. QED
      BY <1>7, <2>1, <3>1, <3>2, <3>3
  <2>3. shares[i] = lent[i] - (IF i = b THEN short ELSE 0) /\ lent[i] \in Int
    <3>1. lent[i] \in Int
      <4> HIDE DEF last, short, lent
      <4>1. QED
        BY <1>7, <2>2
    <3>2. shares[i] = 1 * lent[i] + (0 - short) * One(b, n)[i]
      OBVIOUS
    <3> HIDE DEF padded, last, short, lent, b, shares
    <3>3. \A x, y \in Int : 1 * x + (0 - y) * 1 = x - y /\ 1 * x + (0 - y) * 0 = x - 0
      OBVIOUS
    <3>4. short \in Int
      BY <1>7
    <3>5. CASE i = b
      BY <2>1, <3>1, <3>2, <3>3, <3>4, <3>5
    <3>6. CASE i # b
      BY <2>1, <3>1, <3>2, <3>3, <3>4, <3>6
    <3>7. QED
      BY <3>1, <3>5, <3>6
  <2>4. CASE i = n
    <3>1. padded[i] = 0
      BY <1>3, <2>4
    <3>2. i = b => short = 0
      BY <1>3, <1>9, <1>10, <2>4
    <3>3. last + short = AtLeast(MinimumShare, last) /\ last + short >= MinimumShare
      BY <1>2, <1>7 DEF AtLeast
    <3> HIDE DEF padded, last, short, lent, b, shares
    <3>4. shares[i] = last + short
      BY <1>7, <2>2, <2>3, <2>4, <3>1, <3>2
    <3>5. QED
      BY <1>0, <1>7, <2>2, <2>3, <2>4, <3>3, <3>4
  <2>5. CASE i # n
    <3>1. i \in S /\ n # 1 /\ b = biggest
      BY <1>3, <2>5
    <3>2. padded[i] = parts[i] /\ parts[i] \in Nat /\ parts[i] >= MinimumShare
      BY <1>6, <3>1
    <3>3. short = (IF last < MinimumShare THEN MinimumShare - last ELSE 0)
      OBVIOUS
    <3> HIDE DEF padded, short, lent, b, shares
    <3>4. shares[i] = parts[i] - (IF i = biggest THEN short ELSE 0)
      BY <1>7, <2>2, <2>3, <2>5, <3>1, <3>2
    <3>5. SharesFor(v, r, salt)[i] = IF last < MinimumShare /\ i = biggest
                                     THEN parts[i] - (MinimumShare - last) ELSE parts[i]
      BY <1>0, <2>5
    <3> HIDE DEF last
    <3>6. shares[i] = SharesFor(v, r, salt)[i]
      BY <1>2, <1>7, <3>2, <3>3, <3>4, <3>5
    <3>7. shares[i] >= MinimumShare
      BY <1>2, <1>7, <1>10, <3>2, <3>4
    <3>8. QED
      BY <1>7, <2>2, <2>3, <3>6, <3>7
  <2>6. QED
    BY <2>4, <2>5
<1>13. SharesFor(v, r, salt) = shares
  <2>1. DOMAIN SharesFor(v, r, salt) = 1 .. n
    BY <1>0
  <2>2. SharesFor(v, r, salt) = [i \in 1 .. n |-> SharesFor(v, r, salt)[i]]
    BY <1>0
  <2>3. shares = [i \in 1 .. n |-> shares[i]]
    OBVIOUS
  <2> HIDE DEF shares
  <2>4. QED
    BY <1>12, <2>2, <2>3
<1>14. SumFunction(padded) = SumFunction(parts)
  <2>1. parts \in [S -> Int] /\ padded \in [1 .. n -> Int]
    BY <1>6
  <2>2. Pads(padded, 1 .. n, parts, S)
    BY <1>8 DEF Pads
  <2>3. Summable(padded, 1 .. n) /\ Summable(parts, S)
    BY <1>8, <2>1 DEF Summable
  <2> HIDE DEF padded, S, last
  <2>4. QED
    BY <2>2, <2>3, SumPadded
<1>15. /\ Summable(padded, 1 .. n) /\ Summable(lent, 1 .. n) /\ Summable(shares, 1 .. n)
       /\ shares \in [1 .. n -> Nat]
  <2>1. /\ padded = [i \in 1 .. n |-> padded[i]] /\ lent = [i \in 1 .. n |-> lent[i]]
        /\ shares = [i \in 1 .. n |-> shares[i]]
    OBVIOUS
  <2> HIDE DEF padded, lent, shares
  <2>2. QED
    BY <1>2, <1>8, <1>12, <2>1 DEF Summable
<1>16. /\ Combines(lent, 1, padded, last + short, One(n, n), 1 .. n)
       /\ Combines(shares, 1, lent, 0 - short, One(b, n), 1 .. n)
  BY DEF Combines
<1> HIDE DEF padded, lent, shares, short, b
<1>17. SumFunction(lent) = 1 * SumFunction(padded) + (last + short) * SumFunction(One(n, n))
       /\ SumFunction(One(n, n)) = 1
  <2>1. n \in 1 .. n
    BY <1>3
  <2>2. Summable(One(n, n), 1 .. n) /\ SumFunction(One(n, n)) = 1
    BY <1>3, <2>1, OneSums
  <2>3. 1 \in Int
    OBVIOUS
  <2> HIDE DEF last
  <2>4. QED
    BY <1>7, <1>15, <1>16, <2>2, <2>3, SumLinear
<1>18. SumFunction(shares) = 1 * SumFunction(lent) + (0 - short) * SumFunction(One(b, n))
       /\ SumFunction(One(b, n)) = 1
  <2>2. Summable(One(b, n), 1 .. n) /\ SumFunction(One(b, n)) = 1
    BY <1>3, <1>11, OneSums
  <2>3. 1 \in Int
    OBVIOUS
  <2>4. QED
    BY <1>7, <1>15, <1>16, <2>2, <2>3, SumLinear
<1>19. SumFunction(shares) = Hundred
  <2>1. \A x, y \in Int : 1 * x + y * 1 = x + y
    OBVIOUS
  <2>2. SumFunction(lent) = SumFunction(parts) + (last + short)
    BY <1>6, <1>7, <1>14, <1>17, <2>1
  <2>3. SumFunction(lent) \in Int
    BY <1>6, <1>7, <2>2
  <2>4. SumFunction(shares) = SumFunction(lent) + (0 - short)
    BY <1>7, <1>18, <2>1, <2>3
  <2>5. QED
    BY <1>2, <1>6, <1>7, <2>2, <2>4
<1>20. \A i \in 1 .. n : shares[i] >= MinimumShare /\ shares[i] <= Hundred
  BY <1>8, <1>12, <1>15, <1>19, TermAtMost
<1>21. QED
  BY <1>1, <1>13, <1>15, <1>19, <1>20 DEF n

-----------------------------------------------------------------------------
(* What is wrong with a set                                                    *)

\* The rows of one set: of one recording and interval, finitely many and not none. Its
\* shares are in range; they add up, and the holders exist, unless that is its defect.
SetHas(rows, v, r, from, to, defect) ==
  /\ rows # {} /\ IsFiniteSet(rows)
  /\ \A q \in rows : /\ q.recording = r /\ q.from = from /\ q.to = to
                     /\ q.split = SplitVersionId(v, r, from)
                     /\ q.share \in 0 .. Whole
  /\ (SumFunction([q \in rows |-> q.share]) = Whole) <=> (defect # "shares_do_not_sum_to_100")
  /\ (\E q \in rows : q.holder \notin Holders) <=> (defect = "missing_rights_holder")

LEMMA SetRowsHave ==
  ASSUME Assumptions, NEW v \in Versions, NEW r \in Universe \cup Orphans,
         NEW from \in Base .. OpenEnd, NEW to, NEW salt \in {"a", "b"}, NEW defect
  PROVE  SetHas(SetRows(v, r, from, to, salt, defect), v, r, from, to, defect)
<1> DEFINE n == Count(v, r, salt)
           shares == SharesFor(v, r, salt)
           holders == HoldersFor(v, r, salt)
           short == defect = "shares_do_not_sum_to_100"
           lost == defect = "missing_rights_holder"
           holder(i) == IF i = 1 /\ lost THEN NoSuchHolder ELSE holders[i]
           given(i) == IF i = 1 /\ short
                       THEN IF shares[1] < 80000 THEN 5000 ELSE shares[1] - 75000
                       ELSE shares[i]
           row(i) == [recording |-> r, from |-> from, to |-> to,
                      split |-> SplitVersionId(v, r, from),
                      holder |-> holder(i), share |-> given(i)]
           T == SetRows(v, r, from, to, salt, defect)
           off == given(1) - shares[1]
           share == [i \in 1 .. n |-> 1 * shares[i] + off * One(1, n)[i]]
           name == [i \in 1 .. n |-> row(i)]
           of == [q \in T |-> q.share]
<1>1. /\ n \in 1 .. MostHolders /\ shares \in [1 .. n -> Nat]
      /\ \A i \in 1 .. n : shares[i] >= MinimumShare /\ shares[i] <= Hundred
      /\ SumFunction(shares) = Hundred
  BY SharesExact
<1>2. n \in Nat /\ n >= 1 /\ 1 \in 1 .. n /\ Hundred = Whole /\ Whole \in Nat
  BY <1>1 DEF MostHolders, Hundred, Whole
<1>3. T = {row(i) : i \in 1 .. n}
  <2>1. DOMAIN shares = 1 .. n
    BY <1>1
  <2>2. QED
    BY <2>1 DEF SetRows
<1>4. \A i \in 1 .. n : holders[i] \in Holders
  <2>1. \A S : holders \in Seq(S) /\ Len(holders) = n => \A i \in 1 .. n : holders[i] \in S
    OBVIOUS
  <2>2. holders \in Seq(0 .. Assignable - 1) /\ Len(holders) = n
    BY HoldersApart DEF Apart
  <2>3. \A i \in 1 .. n : holders[i] \in 0 .. Assignable - 1
    BY <2>1, <2>2
  <2> HIDE DEF holders
  <2>4. QED
    BY <2>3 DEF Holders, Assignable, Assumptions, RightsModelAssumption
<1>5. \A i, j \in 1 .. n : holders[i] = holders[j] => i = j
  BY HoldersApart DEF Apart
<1>6. NoSuchHolder \notin Holders
  BY SMT DEF Holders, NoSuchHolder, Assumptions, RightsModelAssumption
<1> HIDE DEF n, shares, holders, short, lost
<1>7. \A i \in 1 .. n : /\ given(i) \in Nat /\ given(i) <= Whole
                        /\ (i = 1 /\ short => given(i) # shares[i])
                        /\ (~(i = 1 /\ short) => given(i) = shares[i])
  <2>1. \A x \in Nat : x >= MinimumShare /\ x <= Whole
                       => LET y == IF x < 80000 THEN 5000 ELSE x - 75000 IN
                          y \in Nat /\ y <= Whole /\ y # x
    BY SMT DEF MinimumShare, Whole
  <2>2. \A i \in 1 .. n : shares[i] \in Nat /\ shares[i] >= MinimumShare /\ shares[i] <= Whole
    BY <1>1, <1>2
  <2>3. QED
    BY <1>2, <2>1, <2>2
<1>8. \A i, j \in 1 .. n : holder(i) = holder(j) => i = j
  BY <1>4, <1>5, <1>6
<1>9. (\E i \in 1 .. n : holder(i) \notin Holders) <=> lost
  BY <1>2, <1>4, <1>6
<1> HIDE DEF given, holder
<1>10. off \in Int /\ (off = 0 <=> ~short)
  <2>1. given(1) \in Nat /\ shares[1] \in Nat
    BY <1>1, <1>2, <1>7
  <2>2. given(1) = shares[1] <=> ~short
    BY <1>2, <1>7
  <2>3. QED
    BY <2>1, <2>2
<1>11. \A i \in 1 .. n : share[i] = given(i)
  <2>1. ASSUME NEW i \in 1 .. n
        PROVE  share[i] = given(i)
    <3>1. One(1, n)[i] = (IF i = 1 THEN 1 ELSE 0)
      BY DEF One
    <3>2. share[i] = 1 * shares[i] + off * One(1, n)[i]
      OBVIOUS
    <3>3. \A x, y \in Int : 1 * x + y * 1 = x + y /\ 1 * x + y * 0 = x
      OBVIOUS
    <3>4. shares[i] \in Int /\ given(i) \in Int
      BY <1>1, <1>7
    <3>5. off = given(1) - shares[1]
      OBVIOUS
    <3> HIDE DEF share, off
    <3>6. CASE i = 1
      BY <1>10, <3>1, <3>2, <3>3, <3>4, <3>5, <3>6
    <3>7. CASE i # 1
      BY <1>7, <1>10, <3>1, <3>2, <3>3, <3>4, <3>7
    <3>8. QED
      BY <3>6, <3>7
  <2>2. QED
    BY <2>1
<1>12. IsFiniteSet(1 .. n)
  <2>1. 1 \in Int /\ n \in Int
    BY <1>2
  <2>2. QED
    BY <2>1, FS_Interval
<1>13. Summable(share, 1 .. n) /\ Summable(shares, 1 .. n)
  <2>1. share = [i \in 1 .. n |-> share[i]]
    OBVIOUS
  <2>2. \A i \in 1 .. n : given(i) \in Int
    BY <1>7
  <2> HIDE DEF share
  <2>3. share \in [1 .. n -> Int]
    BY <1>11, <2>1, <2>2
  <2>4. QED
    BY <1>1, <1>12, <2>3 DEF Summable
<1>14. Combines(share, 1, shares, off, One(1, n), 1 .. n)
  BY DEF Combines
<1> HIDE DEF share, off
<1>15. SumFunction(share) = Whole + off
  <2>1. Summable(One(1, n), 1 .. n) /\ SumFunction(One(1, n)) = 1
    BY <1>2, OneSums
  <2>2. 1 \in Int
    OBVIOUS
  <2>3. SumFunction(share) = 1 * SumFunction(shares) + off * SumFunction(One(1, n))
    BY <1>10, <1>13, <1>14, <2>1, <2>2, SumLinear
  <2>4. \A x, y \in Int : 1 * x + y * 1 = x + y
    OBVIOUS
  <2>5. QED
    BY <1>1, <1>2, <1>10, <2>1, <2>3, <2>4
<1>16. \A i \in 1 .. n : /\ name[i] = row(i) /\ row(i) \in T /\ row(i).share = given(i)
                         /\ row(i).holder = holder(i)
  BY <1>3
<1>17. Renames(name, 1 .. n, T)
  <2>1. \A i, j \in 1 .. n : row(i) = row(j) => i = j
    <3>1. ASSUME NEW i \in 1 .. n, NEW j \in 1 .. n, row(i) = row(j)
          PROVE  i = j
      <4>1. row(i).holder = row(j).holder
        BY <3>1
      <4>2. QED
        BY <1>8, <4>1
    <3>2. QED
      BY <3>1
  <2>2. name = [i \in 1 .. n |-> name[i]]
    OBVIOUS
  <2> HIDE DEF row, name, T
  <2>3. QED
    BY <1>3, <1>16, <2>1, <2>2 DEF Renames
<1>18. IsFiniteSet(T)
  <2> DEFINE N == 1 .. n
  <2>1. DOMAIN name = N /\ name = [i \in N |-> name[i]]
    OBVIOUS
  <2> HIDE DEF row, name, T
  <2>2. /\ \A i \in N : name[i] \in T
        /\ \A y \in T : \E i \in N : name[i] = y
    BY <1>3, <1>16
  <2>3. IsFiniteSet(N)
    BY <1>12
  <2> HIDE DEF N
  <2>4. QED
    BY <2>1, <2>2, <2>3, FiniteImage
<1>19. /\ T # {}
       /\ \A q \in T : /\ q.recording = r /\ q.from = from /\ q.to = to
                       /\ q.split = SplitVersionId(v, r, from)
  <2>1. T # {}
    BY <1>2, <1>16
  <2>2. \A i \in 1 .. n : /\ row(i).recording = r /\ row(i).from = from /\ row(i).to = to
                           /\ row(i).split = SplitVersionId(v, r, from)
    OBVIOUS
  <2> HIDE DEF row, T
  <2>3. QED
    BY <1>3, <2>1, <2>2
<1>20. \A q \in T : q.share \in Nat /\ q.share <= Whole
  <2> HIDE DEF row, T
  <2>1. QED
    BY <1>3, <1>7, <1>16
<1>21. SumFunction(of) = Whole + off
  <2>1. Summable(of, T)
    <3> HIDE DEF T
    <3>1. of \in [T -> Int]
      BY <1>20
    <3>2. QED
      BY <1>18, <3>1 DEF Summable
  <2>2. SameByName(share, of, name, 1 .. n)
    BY <1>11, <1>16 DEF SameByName
  <2> HIDE DEF of, name, T
  <2>3. SumFunction(share) = SumFunction(of)
    BY <1>13, <1>17, <2>1, <2>2, SumRenamed
  <2>4. QED
    BY <1>15, <2>3
<1>22. (\E q \in T : q.holder \notin Holders) <=> lost
  <2> HIDE DEF row, T
  <2>1. QED
    BY <1>3, <1>9, <1>16
<1>23. (SumFunction(of) = Whole) <=> ~short
  BY <1>2, <1>10, <1>21
<1>24. \A q \in T : q.share \in 0 .. Whole
  <2> HIDE DEF T
  <2>1. QED
    BY <1>2, <1>20
<1> HIDE DEF T, row, name
<1>25. QED
  BY <1>18, <1>19, <1>22, <1>23, <1>24 DEF SetHas, T, of, short, lost

\* The intervals of the sets of a recording.
Spans(v, r, defect) ==
  CASE defect = "temporal_overlap"         -> {<<Base, OverlapEnd>>, <<OverlapStart, OpenEnd>>}
    [] defect = "temporal_gap"             -> {<<Base, GapStart>>, <<OverlapEnd, OpenEnd>>}
    [] defect = "invalid_interval"         -> {<<ChangeDate, InvalidTo>>}
    [] defect = Healthy /\ IsChanging(v, r) -> {<<Base, ChangeDate>>, <<ChangeDate, OpenEnd>>}
    [] OTHER                               -> {<<Base, OpenEnd>>}

Divided == {"temporal_overlap", "temporal_gap", Healthy}

\* Rows of a recording are those of its sets, one for each interval.
RowsSpan(rows, v, r, defect, spans) ==
  /\ \A q \in rows : q.recording = r /\ \E p \in spans : q.split = SplitVersionId(v, r, p[1])
  /\ \A p \in spans : /\ p[1] \in Base .. OpenEnd /\ p[2] \in Base .. OpenEnd
                      /\ SetHas({q \in rows : q.split = SplitVersionId(v, r, p[1])},
                                v, r, p[1], p[2], defect)

LEMMA OneSpan ==
  ASSUME NEW rows, NEW v, NEW r, NEW defect,
         NEW from \in Base .. OpenEnd, NEW to \in Base .. OpenEnd,
         SetHas(rows, v, r, from, to, defect)
  PROVE  RowsSpan(rows, v, r, defect, {<<from, to>>})
<1>1. \A q \in rows : q.recording = r /\ q.split = SplitVersionId(v, r, from)
  BY DEF SetHas
<1>2. {q \in rows : q.split = SplitVersionId(v, r, from)} = rows
  BY <1>1
<1>3. QED
  BY <1>1, <1>2 DEF RowsSpan

LEMMA TwoSpans ==
  ASSUME NEW a, NEW b, NEW v, NEW r, NEW defect,
         NEW s \in Base .. OpenEnd, NEW x \in Base .. OpenEnd,
         NEW t \in Base .. OpenEnd, NEW y \in Base .. OpenEnd, s # t,
         SetHas(a, v, r, s, x, defect), SetHas(b, v, r, t, y, defect)
  PROVE  RowsSpan(a \cup b, v, r, defect, {<<s, x>>, <<t, y>>})
<1>1. /\ \A q \in a : q.recording = r /\ q.split = SplitVersionId(v, r, s)
      /\ \A q \in b : q.recording = r /\ q.split = SplitVersionId(v, r, t)
  BY DEF SetHas
<1>2. SplitVersionId(v, r, s) # SplitVersionId(v, r, t)
  BY DEF SplitVersionId
<1>3. /\ {q \in a \cup b : q.split = SplitVersionId(v, r, s)} = a
      /\ {q \in a \cup b : q.split = SplitVersionId(v, r, t)} = b
  BY <1>1, <1>2
<1> DEFINE spans == {<<s, x>>, <<t, y>>}
<1>4. \A p \in spans : p = <<s, x>> \/ p = <<t, y>>
  OBVIOUS
<1>5. \A q \in a \cup b : q.recording = r /\ \E p \in spans : q.split = SplitVersionId(v, r, p[1])
  <2>1. <<s, x>> \in spans /\ <<t, y>> \in spans /\ <<s, x>>[1] = s /\ <<t, y>>[1] = t
    OBVIOUS
  <2> HIDE DEF spans
  <2>2. QED
    BY <1>1, <2>1
<1> HIDE DEF spans
<1>6. ASSUME NEW p \in spans
      PROVE  /\ p[1] \in Base .. OpenEnd /\ p[2] \in Base .. OpenEnd
             /\ SetHas({q \in a \cup b : q.split = SplitVersionId(v, r, p[1])},
                       v, r, p[1], p[2], defect)
  <2>1. CASE p = <<s, x>>
    <3>1. p[1] = s /\ p[2] = x
      BY <2>1
    <3>2. QED
      BY <1>3, <3>1
  <2>2. CASE p = <<t, y>>
    <3>1. p[1] = t /\ p[2] = y
      BY <2>2
    <3>2. QED
      BY <1>3, <3>1
  <2>3. QED
    BY <1>4, <2>1, <2>2
<1>7. QED
  BY <1>5, <1>6 DEF RowsSpan, spans

\* What is not in a set's rows is not in them under another name of its kind either.
LEMMA HealthyRowsHave ==
  ASSUME NEW rows, NEW v, NEW r, NEW from, NEW to, SetHas(rows, v, r, from, to, Healthy),
         NEW defect \in Divided
  PROVE  SetHas(rows, v, r, from, to, defect)
<1>1. /\ Healthy # "shares_do_not_sum_to_100" /\ defect # "shares_do_not_sum_to_100"
      /\ Healthy # "missing_rights_holder" /\ defect # "missing_rights_holder"
  BY DEF Divided, Healthy
<1>2. QED
  BY <1>1 DEF SetHas

LEMMA OwnershipRowsSpan ==
  ASSUME Assumptions, NEW v \in Versions, NEW r \in Universe \cup Orphans,
         NEW defect \in Kinds \cup {Healthy}
  PROVE  RowsSpan(OwnershipRows(v, r, defect), v, r, defect, Spans(v, r, defect))
<1> DEFINE at(from, to, salt, d) == SetRows(v, r, from, to, salt, d)
<1>0. Healthy \notin {"temporal_overlap", "temporal_gap", "invalid_interval"}
  BY DEF Healthy
<1>1. /\ Base \in Base .. OpenEnd /\ OpenEnd \in Base .. OpenEnd
      /\ OverlapStart \in Base .. OpenEnd /\ OverlapEnd \in Base .. OpenEnd
      /\ GapStart \in Base .. OpenEnd /\ ChangeDate \in Base .. OpenEnd
      /\ InvalidTo \in Base .. OpenEnd
      /\ Base # OverlapStart /\ Base # OverlapEnd /\ Base # ChangeDate
  BY DEF Base, OpenEnd, OverlapStart, OverlapEnd, GapStart, ChangeDate, InvalidTo
<1>2. \A from, to \in Base .. OpenEnd, salt \in {"a", "b"} : \A d :
        SetHas(at(from, to, salt, d), v, r, from, to, d)
  BY SetRowsHave
<1>3. \A from, to \in Base .. OpenEnd, salt \in {"a", "b"}, d \in Divided :
        SetHas(at(from, to, salt, Healthy), v, r, from, to, d)
  BY <1>2, HealthyRowsHave
<1> HIDE DEF at
<1>4. \A s, x, t, y \in Base .. OpenEnd : \A d \in Divided :
        s # t => RowsSpan(at(s, x, "a", Healthy) \cup at(t, y, "b", Healthy),
                          v, r, d, {<<s, x>>, <<t, y>>})
  BY <1>3, TwoSpans
<1>5. CASE defect = "temporal_overlap"
  <2>1. /\ OwnershipRows(v, r, defect)
             = at(Base, OverlapEnd, "a", Healthy) \cup at(OverlapStart, OpenEnd, "b", Healthy)
        /\ Spans(v, r, defect) = {<<Base, OverlapEnd>>, <<OverlapStart, OpenEnd>>}
    BY <1>0, <1>5, Zenon DEF OwnershipRows, Spans, at
  <2>2. RowsSpan(at(Base, OverlapEnd, "a", Healthy) \cup at(OverlapStart, OpenEnd, "b", Healthy),
                 v, r, defect, {<<Base, OverlapEnd>>, <<OverlapStart, OpenEnd>>})
    BY <1>1, <1>4, <1>5 DEF Divided
  <2>3. QED
    BY <2>1, <2>2
<1>6. CASE defect = "temporal_gap"
  <2>1. /\ OwnershipRows(v, r, defect)
             = at(Base, GapStart, "a", Healthy) \cup at(OverlapEnd, OpenEnd, "b", Healthy)
        /\ Spans(v, r, defect) = {<<Base, GapStart>>, <<OverlapEnd, OpenEnd>>}
    BY <1>0, <1>6 DEF OwnershipRows, Spans, at
  <2>2. RowsSpan(at(Base, GapStart, "a", Healthy) \cup at(OverlapEnd, OpenEnd, "b", Healthy),
                 v, r, defect, {<<Base, GapStart>>, <<OverlapEnd, OpenEnd>>})
    BY <1>1, <1>4, <1>6 DEF Divided
  <2>3. QED
    BY <2>1, <2>2
<1>7. CASE defect = "invalid_interval"
  <2>1. /\ OwnershipRows(v, r, defect) = at(ChangeDate, InvalidTo, "a", Healthy)
        /\ Spans(v, r, defect) = {<<ChangeDate, InvalidTo>>}
    BY <1>0, <1>7 DEF OwnershipRows, Spans, at
  <2>2. SetHas(at(ChangeDate, InvalidTo, "a", Healthy), v, r, ChangeDate, InvalidTo, Healthy)
    BY <1>1, <1>2
  <2>3. SetHas(at(ChangeDate, InvalidTo, "a", Healthy), v, r, ChangeDate, InvalidTo, defect)
    <3>1. /\ Healthy # "shares_do_not_sum_to_100" /\ defect # "shares_do_not_sum_to_100"
          /\ Healthy # "missing_rights_holder" /\ defect # "missing_rights_holder"
      BY <1>7 DEF Healthy
    <3>2. QED
      BY <2>2, <3>1 DEF SetHas
  <2>4. QED
    BY <1>1, <2>1, <2>3, OneSpan
<1>8. CASE defect = Healthy /\ IsChanging(v, r)
  <2>1. /\ OwnershipRows(v, r, defect)
             = at(Base, ChangeDate, "a", Healthy) \cup at(ChangeDate, OpenEnd, "b", Healthy)
        /\ Spans(v, r, defect) = {<<Base, ChangeDate>>, <<ChangeDate, OpenEnd>>}
    BY <1>8 DEF OwnershipRows, Spans, at, Healthy
  <2>2. RowsSpan(at(Base, ChangeDate, "a", Healthy) \cup at(ChangeDate, OpenEnd, "b", Healthy),
                 v, r, defect, {<<Base, ChangeDate>>, <<ChangeDate, OpenEnd>>})
    BY <1>1, <1>4, <1>8 DEF Divided
  <2>3. QED
    BY <2>1, <2>2
<1>9. CASE ~(defect \in {"temporal_overlap", "temporal_gap", "invalid_interval"}
             \/ (defect = Healthy /\ IsChanging(v, r)))
  <2>1. /\ OwnershipRows(v, r, defect) = at(Base, OpenEnd, "a", defect)
        /\ Spans(v, r, defect) = {<<Base, OpenEnd>>}
    BY <1>9 DEF OwnershipRows, Spans, at
  <2>2. SetHas(at(Base, OpenEnd, "a", defect), v, r, Base, OpenEnd, defect)
    BY <1>1, <1>2
  <2>3. QED
    BY <1>1, <2>1, <2>2, OneSpan
<1>10. QED
  BY <1>5, <1>6, <1>7, <1>8, <1>9

\* A recording has one of the defects or none; what is not of the catalogue has none.
LEMMA DefectTyped ==
  ASSUME NEW v, NEW r
  PROVE  /\ DefectOf(v, r, Universe) \in Kinds \cup {Healthy}
         /\ r \notin Universe => DefectOf(v, r, Universe) = Healthy
<1> DEFINE rank == Cardinality({q \in Universe : DefectRank(v, q) <= DefectRank(v, r)})
           before(i) == SumFunction([j \in 1 .. i - 1 |-> Quota[v][DefectOrder[j]]])
           takers == {i \in DOMAIN DefectOrder :
                        before(i) < rank /\ rank <= before(i) + Quota[v][DefectOrder[i]]}
           one == CHOOSE i \in takers : TRUE
<1>1. DefectOf(v, r, Universe) = IF r \in Universe /\ takers # {} THEN DefectOrder[one] ELSE Healthy
  BY DEF DefectOf
<1>2. takers # {} => one \in DOMAIN DefectOrder
  <2>1. takers \subseteq DOMAIN DefectOrder
    OBVIOUS
  <2> HIDE DEF takers
  <2>2. QED
    BY <2>1
<1>3. \A i \in DOMAIN DefectOrder : DefectOrder[i] \in Kinds
  BY DEF Kinds
<1> HIDE DEF takers, one
<1>4. QED
  BY <1>1, <1>2, <1>3

-----------------------------------------------------------------------------
(* The sets of a version                                                       *)

\* The defect of a recording under a version.
GivenTo(v, r) == DefectOf(v, r, Universe)

\* A set of the quality layer: of an interval of a recording of the version.
IsSet(s, v, r, p) ==
  /\ s.recording = r /\ s.split = SplitVersionId(v, r, p[1]) /\ s.from = p[1] /\ s.to = p[2]
  /\ SetHas(s.rows, v, r, p[1], p[2], GivenTo(v, r))

LEMMA RowsOfVersion ==
  ASSUME Assumptions, NEW v \in Versions, NEW r \in Universe \cup Orphans
  PROVE  {q \in SplitsOf[v] : q.recording = r} = OwnershipRows(v, r, GivenTo(v, r))
<1> DEFINE rows(x) == OwnershipRows(v, x, GivenTo(v, x))
<1>1. \A x \in Universe \cup Orphans : \A q \in rows(x) : q.recording = x
  BY OwnershipRowsApart DEF RowsOfOne
<1>2. SplitsOf[v] = UNION {rows(x) : x \in Universe \cup Orphans}
  BY DEF SplitsOf, OwnershipSplits, GivenTo
<1> HIDE DEF rows
<1>3. {q \in SplitsOf[v] : q.recording = r} = rows(r)
  BY <1>1, <1>2
<1>4. QED
  BY <1>3 DEF rows

LEMMA RecordingsOfVersion ==
  ASSUME Assumptions, NEW v \in Versions
  PROVE  \A q \in SplitsOf[v] : q.recording \in Universe \cup Orphans
<1> DEFINE rows(x) == OwnershipRows(v, x, GivenTo(v, x))
<1>1. \A x \in Universe \cup Orphans : \A q \in rows(x) : q.recording = x
  BY OwnershipRowsApart DEF RowsOfOne
<1>2. SplitsOf[v] = UNION {rows(x) : x \in Universe \cup Orphans}
  BY DEF SplitsOf, OwnershipSplits, GivenTo
<1> HIDE DEF rows
<1>3. QED
  BY <1>1, <1>2

LEMMA SpansOf ==
  ASSUME Assumptions, NEW v \in Versions, NEW r \in Universe \cup Orphans
  PROVE  RowsSpan({q \in SplitsOf[v] : q.recording = r}, v, r, GivenTo(v, r),
                  Spans(v, r, GivenTo(v, r)))
BY RowsOfVersion, OwnershipRowsSpan, DefectTyped DEF GivenTo

\* The set of one of a recording's intervals.
LEMMA SetOfSpan ==
  ASSUME Assumptions, NEW v \in Versions, NEW r \in Universe \cup Orphans,
         NEW p \in Spans(v, r, GivenTo(v, r))
  PROVE  /\ IsSet(SetOf(SplitsOf[v], r, SplitVersionId(v, r, p[1])), v, r, p)
         /\ SetOf(SplitsOf[v], r, SplitVersionId(v, r, p[1])) \in SetsOf(SplitsOf[v])
<1> DEFINE x == SplitVersionId(v, r, p[1])
           own == {q \in SplitsOf[v] : q.recording = r}
           rows == {q \in SplitsOf[v] : q.recording = r /\ q.split = x}
           s == SetOf(SplitsOf[v], r, x)
<1>1. /\ p[1] \in Base .. OpenEnd /\ p[2] \in Base .. OpenEnd
      /\ SetHas({q \in own : q.split = x}, v, r, p[1], p[2], GivenTo(v, r))
  BY SpansOf DEF RowsSpan
<1>2. {q \in own : q.split = x} = rows
  OBVIOUS
<1>3. SetHas(rows, v, r, p[1], p[2], GivenTo(v, r))
  BY <1>1, <1>2
<1>4. /\ rows # {}
      /\ \A q \in rows : q.from = p[1] /\ q.to = p[2]
  BY <1>3 DEF SetHas
<1>5. /\ s.recording = r /\ s.split = x /\ s.rows = rows
      /\ s.from = Min({q.from : q \in rows}) /\ s.to = Min({q.to : q \in rows})
  BY DEF SetOf
<1>6. p[1] \in Int /\ p[2] \in Int
  BY <1>1 DEF Base, OpenEnd
<1> HIDE DEF rows, s
<1>7. {q.from : q \in rows} = {p[1]} /\ {q.to : q \in rows} = {p[2]}
  BY <1>4
<1>8. \A c \in Int : Min({c}) = c
  BY DEF Min
<1>9. s.from = p[1] /\ s.to = p[2]
  BY <1>5, <1>6, <1>7, <1>8
<1>10. IsSet(s, v, r, p)
  BY <1>3, <1>5, <1>9 DEF IsSet
<1>11. s \in SetsOf(SplitsOf[v])
  <2>1. PICK q \in rows : TRUE
    BY <1>4
  <2>2. q \in SplitsOf[v] /\ q.recording = r /\ q.split = x
    BY <2>1 DEF rows
  <2>3. QED
    BY <2>2 DEF SetsOf, s
<1>12. QED
  BY <1>10, <1>11 DEF s

\* Every set is the set of one of its recording's intervals.
LEMMA SetsOfVersion ==
  ASSUME Assumptions, NEW v \in Versions, NEW s \in SetsOf(SplitsOf[v])
  PROVE  /\ s.recording \in Universe \cup Orphans
         /\ \E p \in Spans(v, s.recording, GivenTo(v, s.recording)) : IsSet(s, v, s.recording, p)
<1>1. PICK q \in SplitsOf[v] : s = SetOf(SplitsOf[v], q.recording, q.split)
  BY DEF SetsOf
<1>2. s.recording = q.recording /\ q.recording \in Universe \cup Orphans
  BY <1>1, RecordingsOfVersion DEF SetOf
<1> DEFINE r == q.recording
<1>3. PICK p \in Spans(v, r, GivenTo(v, r)) : q.split = SplitVersionId(v, r, p[1])
  BY <1>2, SpansOf DEF RowsSpan
<1>4. IsSet(SetOf(SplitsOf[v], r, SplitVersionId(v, r, p[1])), v, r, p)
  BY <1>2, <1>3, SetOfSpan
<1>5. QED
  BY <1>1, <1>2, <1>3, <1>4

\* Overlap and GapIn, of intervals that begin on different dates.
Meet(p, q) == p[1] # q[1] /\ p[1] < q[2] /\ q[1] < p[2] /\ p[1] < p[2] /\ q[1] < q[2]
Before(p, q) == p[1] < q[1] \/ (p[1] = q[1] /\ p[2] < q[2])
Parted(spans) ==
  \E p, q \in spans :
    /\ p[1] < p[2] /\ q[1] < q[2]
    /\ Before(p, q) /\ q[1] > p[2]
    /\ ~\E c \in spans : c[1] < c[2] /\ Before(p, c) /\ Before(c, q)

\* What the intervals of a recording show of its defect.
SpansShow(spans, defect) ==
  /\ \A p \in spans : /\ p[1] \in Nat /\ p[2] \in Nat
                      /\ (p[2] <= p[1]) <=> (defect = "invalid_interval")
                      /\ (\E q \in spans : Meet(p, q)) <=> (defect = "temporal_overlap")
  /\ Parted(spans) <=> (defect = "temporal_gap")

LEMMA OneShows ==
  ASSUME NEW s \in Nat, NEW x \in Nat,
         NEW defect, defect \notin {"temporal_overlap", "temporal_gap"},
         (x <= s) <=> (defect = "invalid_interval")
  PROVE  SpansShow({<<s, x>>}, defect)
<1> DEFINE spans == {<<s, x>>}
<1>1. \A p \in spans : p[1] = s /\ p[2] = x
  OBVIOUS
<1> HIDE DEF spans
<1>2. \A p \in spans : ~\E q \in spans : Meet(p, q)
  BY <1>1 DEF Meet
<1>3. ~Parted(spans)
  BY <1>1 DEF Parted, Before
<1>4. QED
  BY <1>1, <1>2, <1>3 DEF SpansShow, spans

LEMMA TwoShow ==
  ASSUME NEW s \in Nat, NEW x \in Nat, NEW t \in Nat, NEW y \in Nat, s < t, s < x, t < y,
         NEW defect, defect # "invalid_interval",
         (t < x) <=> (defect = "temporal_overlap"), (x < t) <=> (defect = "temporal_gap")
  PROVE  SpansShow({<<s, x>>, <<t, y>>}, defect)
<1> DEFINE spans == {<<s, x>>, <<t, y>>}
           a == <<s, x>>
           b == <<t, y>>
<1>1. /\ a \in spans /\ b \in spans /\ a[1] = s /\ a[2] = x /\ b[1] = t /\ b[2] = y
      /\ \A p \in spans : p = a \/ p = b
  OBVIOUS
<1> HIDE DEF spans, a, b
<1>2. \A p \in spans : p[1] \in Nat /\ p[2] \in Nat /\ p[1] < p[2]
  BY <1>1
<1>3. \A p \in spans : (\E q \in spans : Meet(p, q)) <=> t < x
  <2>1. /\ t < x => Meet(a, b) /\ Meet(b, a)
        /\ ~Meet(a, a) /\ ~Meet(b, b)
        /\ Meet(a, b) \/ Meet(b, a) => t < x
    BY <1>1 DEF Meet
  <2>2. QED
    BY <1>1, <2>1
<1>4. Parted(spans) <=> x < t
  <2>1. Before(a, b) /\ ~Before(b, a) /\ ~Before(a, a) /\ ~Before(b, b)
    BY <1>1 DEF Before
  <2>2. ASSUME x < t
        PROVE  Parted(spans)
    <3>1. ~\E c \in spans : c[1] < c[2] /\ Before(a, c) /\ Before(c, b)
      BY <1>1, <2>1
    <3>2. a[1] < a[2] /\ b[1] < b[2] /\ b[1] > a[2]
      BY <1>1, <2>2
    <3>3. QED
      BY <1>1, <2>1, <3>1, <3>2 DEF Parted
  <2>3. ASSUME Parted(spans)
        PROVE  x < t
    <3>1. PICK p \in spans, q \in spans : Before(p, q) /\ q[1] > p[2]
      BY <2>3 DEF Parted
    <3>2. p = a /\ q = b
      BY <1>1, <2>1, <3>1
    <3>3. QED
      BY <1>1, <3>1, <3>2
  <2>4. QED
    BY <2>2, <2>3
<1>5. QED
  BY <1>2, <1>3, <1>4 DEF SpansShow, spans

LEMMA SpansShowDefect ==
  ASSUME NEW v, NEW r, NEW defect \in Kinds \cup {Healthy}
  PROVE  SpansShow(Spans(v, r, defect), defect)
<1> USE DEF Base, OverlapEnd, OverlapStart, OpenEnd, GapStart, ChangeDate, InvalidTo
<1>0. Healthy \notin {"temporal_overlap", "temporal_gap", "invalid_interval"}
  BY DEF Healthy
<1>1. CASE defect = "temporal_overlap"
  <2>1. Spans(v, r, defect) = {<<Base, OverlapEnd>>, <<OverlapStart, OpenEnd>>}
    BY <1>0, <1>1 DEF Spans
  <2>2. SpansShow({<<Base, OverlapEnd>>, <<OverlapStart, OpenEnd>>}, defect)
    BY <1>1, TwoShow
  <2>3. QED
    BY <2>1, <2>2
<1>2. CASE defect = "temporal_gap"
  <2>1. Spans(v, r, defect) = {<<Base, GapStart>>, <<OverlapEnd, OpenEnd>>}
    BY <1>0, <1>2 DEF Spans
  <2>2. SpansShow({<<Base, GapStart>>, <<OverlapEnd, OpenEnd>>}, defect)
    BY <1>2, TwoShow
  <2>3. QED
    BY <2>1, <2>2
<1>3. CASE defect = "invalid_interval"
  <2>1. Spans(v, r, defect) = {<<ChangeDate, InvalidTo>>}
    BY <1>0, <1>3 DEF Spans
  <2>2. SpansShow({<<ChangeDate, InvalidTo>>}, defect)
    BY <1>3, OneShows
  <2>3. QED
    BY <2>1, <2>2
<1>4. CASE defect = Healthy /\ IsChanging(v, r)
  <2>1. Spans(v, r, defect) = {<<Base, ChangeDate>>, <<ChangeDate, OpenEnd>>}
    BY <1>0, <1>4 DEF Spans
  <2>2. SpansShow({<<Base, ChangeDate>>, <<ChangeDate, OpenEnd>>}, defect)
    BY <1>0, <1>4, TwoShow
  <2>3. QED
    BY <2>1, <2>2
<1>5. CASE ~(defect \in {"temporal_overlap", "temporal_gap", "invalid_interval"}
             \/ (defect = Healthy /\ IsChanging(v, r)))
  <2>1. Spans(v, r, defect) = {<<Base, OpenEnd>>}
    BY <1>5 DEF Spans
  <2>2. SpansShow({<<Base, OpenEnd>>}, defect)
    BY <1>5, OneShows
  <2>3. QED
    BY <2>1, <2>2
<1>6. QED
  BY <1>1, <1>2, <1>3, <1>4, <1>5

\* The sets of a recording overlap, and leave a gap, as its intervals do.
LEMMA OverlapFound ==
  ASSUME Assumptions, NEW v \in Versions, NEW s \in SetsOf(SplitsOf[v])
  PROVE  (\E other \in SetsOf(SplitsOf[v]) : Overlap(s, other))
           <=> GivenTo(v, s.recording) = "temporal_overlap"
<1> DEFINE sets == SetsOf(SplitsOf[v])
           r == s.recording
           spans == Spans(v, r, GivenTo(v, r))
<1>1. r \in Universe \cup Orphans
  BY SetsOfVersion
<1>2. \A o \in sets : o.recording = r => \E p \in spans : IsSet(o, v, r, p)
  <2>1. ASSUME NEW o \in sets, o.recording = r
        PROVE  \E p \in spans : IsSet(o, v, r, p)
    <3>1. \E p \in Spans(v, o.recording, GivenTo(v, o.recording)) : IsSet(o, v, o.recording, p)
      BY SetsOfVersion
    <3>2. QED
      BY <2>1, <3>1
  <2>2. QED
    BY <2>1
<1>3. \A p \in spans : \E o \in sets : IsSet(o, v, r, p)
  BY <1>1, SetOfSpan
<1>4. PICK p \in spans : IsSet(s, v, r, p)
  BY <1>2
<1>5. (\E q \in spans : Meet(p, q)) <=> GivenTo(v, r) = "temporal_overlap"
  BY DefectTyped, SpansShowDefect DEF SpansShow, GivenTo
<1>6. \A o : \A q : IsSet(o, v, r, q) => (Overlap(s, o) <=> Meet(p, q))
  BY <1>4 DEF IsSet, Overlap, Meet, SplitVersionId
<1>7. \A o : Overlap(s, o) => o.recording = r
  BY DEF Overlap
<1> HIDE DEF sets, spans, r
<1>8. (\E o \in sets : Overlap(s, o)) <=> (\E q \in spans : Meet(p, q))
  BY <1>2, <1>3, <1>6, <1>7
<1>9. QED
  BY <1>5, <1>8 DEF sets, r

LEMMA GapFound ==
  ASSUME Assumptions, NEW v \in Versions, NEW r \in Universe \cup Orphans
  PROVE  GapIn({o \in SetsOf(SplitsOf[v]) : o.recording = r})
           <=> GivenTo(v, r) = "temporal_gap"
<1> DEFINE own == {o \in SetsOf(SplitsOf[v]) : o.recording = r}
           spans == Spans(v, r, GivenTo(v, r))
<1>1. \A o \in own : \E p \in spans : IsSet(o, v, r, p)
  <2>1. ASSUME NEW o \in own
        PROVE  \E p \in spans : IsSet(o, v, r, p)
    <3>1. o.recording = r /\ \E p \in Spans(v, o.recording, GivenTo(v, o.recording)) :
                               IsSet(o, v, o.recording, p)
      BY SetsOfVersion
    <3>2. QED
      BY <3>1
  <2>2. QED
    BY <2>1
<1>2. \A p \in spans : \E o \in own : IsSet(o, v, r, p)
  <2>1. ASSUME NEW p \in spans
        PROVE  \E o \in own : IsSet(o, v, r, p)
    <3>1. \E o \in SetsOf(SplitsOf[v]) : IsSet(o, v, r, p)
      BY SetOfSpan
    <3>2. QED
      BY <3>1 DEF IsSet
  <2>2. QED
    BY <2>1
<1>3. Parted(spans) <=> GivenTo(v, r) = "temporal_gap"
  BY DefectTyped, SpansShowDefect DEF SpansShow, GivenTo
<1> HIDE DEF own, spans
<1>4. \A o, q : IsSet(o, v, r, q) => o.from = q[1] /\ o.to = q[2]
  BY DEF IsSet
<1>5. ASSUME GapIn(own)
      PROVE  Parted(spans)
  <2>1. PICK a \in own, b \in own :
          /\ a.from < a.to /\ b.from < b.to /\ Precedes(a, b) /\ b.from > a.to
          /\ ~\E c \in own : c.from < c.to /\ Precedes(a, c) /\ Precedes(c, b)
    BY <1>5 DEF GapIn
  <2>2. PICK p \in spans, q \in spans : IsSet(a, v, r, p) /\ IsSet(b, v, r, q)
    BY <1>1
  <2>3. /\ p[1] < p[2] /\ q[1] < q[2] /\ Before(p, q) /\ q[1] > p[2]
    BY <1>4, <2>1, <2>2 DEF Precedes, Before
  <2>4. ASSUME NEW c \in spans, c[1] < c[2], Before(p, c), Before(c, q)
        PROVE  FALSE
    <3>1. PICK o \in own : IsSet(o, v, r, c)
      BY <1>2
    <3>2. o.from < o.to /\ Precedes(a, o) /\ Precedes(o, b)
      BY <1>4, <2>2, <2>4, <3>1 DEF Precedes, Before
    <3>3. QED
      BY <2>1, <3>2
  <2>5. QED
    BY <2>3, <2>4 DEF Parted
<1>6. ASSUME Parted(spans)
      PROVE  GapIn(own)
  <2>1. PICK p \in spans, q \in spans :
          /\ p[1] < p[2] /\ q[1] < q[2] /\ Before(p, q) /\ q[1] > p[2]
          /\ ~\E c \in spans : c[1] < c[2] /\ Before(p, c) /\ Before(c, q)
    BY <1>6 DEF Parted
  <2>2. PICK a \in own, b \in own : IsSet(a, v, r, p) /\ IsSet(b, v, r, q)
    BY <1>2
  <2>3. /\ a.from < a.to /\ b.from < b.to /\ Precedes(a, b) /\ b.from > a.to
    BY <1>4, <2>1, <2>2 DEF Precedes, Before
  <2>4. ASSUME NEW o \in own, o.from < o.to, Precedes(a, o), Precedes(o, b)
        PROVE  FALSE
    <3>1. PICK c \in spans : IsSet(o, v, r, c)
      BY <1>1
    <3>2. c[1] < c[2] /\ Before(p, c) /\ Before(c, q)
      BY <1>4, <2>2, <2>4, <3>1 DEF Precedes, Before
    <3>3. QED
      BY <2>1, <3>2
  <2>5. QED
    BY <2>3, <2>4 DEF GapIn
<1>7. QED
  BY <1>3, <1>5, <1>6 DEF own

\* A set is flagged with the defect of its recording, and with no other.
LEMMA FlaggedAsGiven ==
  ASSUME Assumptions, NEW v \in Versions, NEW s \in SetsOf(SplitsOf[v]), NEW catalogue
  PROVE  LET flags == Flags(s, SetsOf(SplitsOf[v]), Holders, catalogue)
             kind == GivenTo(v, s.recording)
         IN  /\ flags \ {"orphan_recording_mbid"} = (IF kind = Healthy THEN {} ELSE {kind})
             /\ "orphan_recording_mbid" \in flags <=> s.recording \notin catalogue
<1> DEFINE sets == SetsOf(SplitsOf[v])
           r == s.recording
           kind == GivenTo(v, r)
           flags == Flags(s, sets, Holders, catalogue)
           shares == SumFunction([q \in s.rows |-> q.share]) # Whole
           invalid == s.to <= s.from
           lost == \E q \in s.rows : q.holder \notin Holders
           meets == \E other \in sets : Overlap(s, other)
           parts == GapIn({other \in sets : other.recording = s.recording})
           range == \E q \in s.rows : q.share < 0 \/ q.share > Whole
           two == Cardinality({<<q.from, q.to>> : q \in s.rows}) > 1
<1>1. r \in Universe \cup Orphans /\ kind \in Kinds \cup {Healthy}
  BY SetsOfVersion, DefectTyped DEF GivenTo
<1>2. PICK p \in Spans(v, r, kind) : IsSet(s, v, r, p)
  BY SetsOfVersion
<1>3. SetHas(s.rows, v, r, p[1], p[2], kind) /\ s.from = p[1] /\ s.to = p[2]
  BY <1>2 DEF IsSet
<1>4. SpansShow(Spans(v, r, kind), kind)
  BY <1>1, SpansShowDefect
<1> HIDE DEF kind
<1>5. /\ shares <=> kind = "shares_do_not_sum_to_100"
      /\ lost <=> kind = "missing_rights_holder"
      /\ ~range
  <2>1. Whole \in Nat
    BY SMT DEF Whole
  <2>2. ~range
    BY <1>3, <2>1 DEF SetHas
  <2>3. QED
    BY <1>3, <2>2 DEF SetHas
<1>6. invalid <=> kind = "invalid_interval"
  BY <1>3, <1>4 DEF SpansShow
<1>7. meets <=> kind = "temporal_overlap"
  BY OverlapFound DEF kind
<1>8. parts <=> kind = "temporal_gap"
  BY <1>1, GapFound DEF kind
<1>9. ~two
  <2>1. s.rows # {} /\ \A q \in s.rows : q.from = p[1] /\ q.to = p[2]
    BY <1>3 DEF SetHas
  <2>2. {<<q.from, q.to>> : q \in s.rows} = {<<p[1], p[2]>>}
    BY <2>1
  <2>3. Cardinality({<<p[1], p[2]>>}) = 1
    BY FS_Singleton
  <2>4. QED
    BY <2>2, <2>3
<1>10. /\ "shares_do_not_sum_to_100" \in flags <=> shares
       /\ "invalid_interval" \in flags <=> invalid
       /\ "missing_rights_holder" \in flags <=> lost
       /\ "orphan_recording_mbid" \in flags <=> r \notin catalogue
       /\ "temporal_overlap" \in flags <=> meets
       /\ "temporal_gap" \in flags <=> parts
       /\ "share_out_of_range" \in flags <=> range
       /\ "two_intervals" \in flags <=> two
       /\ flags \subseteq {"shares_do_not_sum_to_100", "invalid_interval", "missing_rights_holder",
                           "orphan_recording_mbid", "temporal_overlap", "temporal_gap",
                           "share_out_of_range", "two_intervals"}
  <2>1. "shares_do_not_sum_to_100" \in flags <=> shares
    BY SMT DEF Flags, Whole
  <2>2. "invalid_interval" \in flags <=> invalid
    BY SMT DEF Flags, Whole
  <2>3. "missing_rights_holder" \in flags <=> lost
    BY SMT DEF Flags, Whole
  <2>4. "orphan_recording_mbid" \in flags <=> r \notin catalogue
    BY SMT DEF Flags, Whole
  <2>5. "temporal_overlap" \in flags <=> meets
    BY SMT DEF Flags, Whole
  <2>6. "temporal_gap" \in flags <=> parts
    BY SMT DEF Flags, Whole
  <2>7. "share_out_of_range" \in flags <=> range
    BY SMT DEF Flags, Whole
  <2>8. "two_intervals" \in flags <=> two
    BY SMT DEF Flags, Whole
  <2>9. flags \subseteq {"shares_do_not_sum_to_100", "invalid_interval", "missing_rights_holder",
                         "orphan_recording_mbid", "temporal_overlap", "temporal_gap",
                         "share_out_of_range", "two_intervals"}
    <3>1. SUFFICES ASSUME NEW k \in flags
                   PROVE  k \in {"shares_do_not_sum_to_100", "invalid_interval",
                                 "missing_rights_holder", "orphan_recording_mbid",
                                 "temporal_overlap", "temporal_gap",
                                 "share_out_of_range", "two_intervals"}
      OBVIOUS
    <3>2. QED
      BY SMT DEF Flags
  <2> HIDE DEF flags, shares, invalid, lost, meets, parts, range, two, r
  <2>10. QED
    BY <2>1, <2>2, <2>3, <2>4, <2>5, <2>6, <2>7, <2>8, <2>9
<1> HIDE DEF flags, shares, invalid, lost, meets, parts, range, two, r
<1>11. Kinds = {"shares_do_not_sum_to_100", "temporal_overlap", "temporal_gap",
                "invalid_interval", "missing_rights_holder"}
       /\ Healthy \notin Kinds
  BY DEF Kinds, DefectOrder, Healthy
<1>12. ASSUME NEW k
       PROVE  k \in flags \ {"orphan_recording_mbid"} <=> k = kind /\ kind # Healthy
  BY <1>1, <1>5, <1>6, <1>7, <1>8, <1>9, <1>10, <1>11
<1>13. flags \ {"orphan_recording_mbid"} = (IF kind = Healthy THEN {} ELSE {kind})
  BY <1>12
<1>14. QED
  BY <1>10, <1>13 DEF flags, kind, r

-----------------------------------------------------------------------------
(* What the quality layer finds                                                *)

\* The validity of a version's sets, against all its holders and the catalogue of a match
\* run; or of none, before any were landed.
DerivedSets(sets) ==
  \/ sets = {}
  \/ \E v \in Versions, run \in MatchRuns :
       sets = Validity(SplitsOf[v], Holders, Catalogue(run))

\* The holders are landed before the sets that name them, and are the same in every landing.
HoldersLanded == HolderIds = Holders
HoldersFirst ==
  /\ lander # Idle /\ (lander.target # 1 \/ lander.at \notin {"load", "insert"}) => HoldersLanded
  /\ Splits # {} => HoldersLanded

FoundInvariant ==
  /\ PaidInvariant
  /\ HoldersFirst
  /\ validity # NoTable => DerivedSets(validity)

\* A set of the validity of a version: one of an interval of the version, flagged with the
\* defect of its recording, and as an orphan where it is not in the catalogue.
Judged(s, v, catalogue) ==
  /\ s.recording \in Universe \cup Orphans
  /\ \E p \in Spans(v, s.recording, GivenTo(v, s.recording)) :
       /\ s.split = SplitVersionId(v, s.recording, p[1])
       /\ s.from = p[1] /\ s.to = p[2]
  /\ RowsIn(SplitsOf[v], s.recording, s.split) # {}
  /\ \A q \in RowsIn(SplitsOf[v], s.recording, s.split) : q.from = s.from /\ q.to = s.to
  /\ s.flags \ {"orphan_recording_mbid"}
       = (IF GivenTo(v, s.recording) = Healthy THEN {} ELSE {GivenTo(v, s.recording)})
  /\ "orphan_recording_mbid" \in s.flags <=> s.recording \notin catalogue

LEMMA ValidityJudges ==
  ASSUME Assumptions, NEW v \in Versions, NEW catalogue,
         NEW s \in Validity(SplitsOf[v], Holders, catalogue)
  PROVE  Judged(s, v, catalogue)
<1> DEFINE sets == SetsOf(SplitsOf[v])
           entry(x) == [recording |-> x.recording, split |-> x.split, from |-> x.from,
                        to |-> x.to, flags |-> Flags(x, sets, Holders, catalogue)]
<1>1. PICK x \in sets : s = entry(x)
  BY DEF Validity
<1>2. /\ s.recording = x.recording /\ s.split = x.split /\ s.from = x.from /\ s.to = x.to
      /\ s.flags = Flags(x, sets, Holders, catalogue)
  BY <1>1
<1> HIDE DEF entry
<1>3. x.recording \in Universe \cup Orphans
  BY SetsOfVersion
<1>4. PICK p \in Spans(v, x.recording, GivenTo(v, x.recording)) : IsSet(x, v, x.recording, p)
  BY SetsOfVersion
<1>5. LET flags == Flags(x, sets, Holders, catalogue)
          kind == GivenTo(v, x.recording)
      IN  /\ flags \ {"orphan_recording_mbid"} = (IF kind = Healthy THEN {} ELSE {kind})
          /\ "orphan_recording_mbid" \in flags <=> x.recording \notin catalogue
  BY FlaggedAsGiven
<1>6. PICK q \in SplitsOf[v] : x = SetOf(SplitsOf[v], q.recording, q.split)
  BY DEF SetsOf
<1>7. x.rows = RowsIn(SplitsOf[v], x.recording, x.split)
  BY <1>6 DEF SetOf, RowsIn
<1>8. /\ x.rows # {} /\ \A y \in x.rows : y.from = x.from /\ y.to = x.to
      /\ x.split = SplitVersionId(v, x.recording, p[1])
      /\ x.from = p[1] /\ x.to = p[2]
  BY <1>4 DEF IsSet, SetHas
<1> HIDE DEF sets
<1>9. QED
  BY <1>2, <1>3, <1>4, <1>5, <1>7, <1>8 DEF Judged

\* A split is of one version.
LEMMA VersionFound ==
  ASSUME Assumptions, NEW v \in Versions, NEW s, NEW r, NEW from,
         s.split = SplitVersionId(v, r, from)
  PROVE  VersionOf(s) = v
<1>1. s.split[1] = RightsVersion(v)
  BY DEF SplitVersionId
<1>2. \A w \in Versions : RightsVersion(w) = RightsVersion(v) => w = v
  BY DEF Assumptions, RightsAssumption
<1>3. QED
  BY <1>1, <1>2 DEF VersionOf

LEMMA DerivedFinds ==
  ASSUME Assumptions, validity # NoTable => DerivedSets(validity)
  PROVE  DefectsAreFound
<1>1. SUFFICES ASSUME validity # NoTable, NEW s \in validity
               PROVE  LET kind == Defect[VersionOf(s)][s.recording] IN
                      s.flags \ {"orphan_recording_mbid"}
                        = IF kind = Healthy THEN {} ELSE {kind}
  BY DEF DefectsAreFound
<1>2. PICK v \in Versions, run \in MatchRuns :
        validity = Validity(SplitsOf[v], Holders, Catalogue(run))
  BY <1>1 DEF DerivedSets
<1>3. Judged(s, v, Catalogue(run))
  BY <1>1, <1>2, ValidityJudges
<1>4. VersionOf(s) = v
  BY <1>3, VersionFound DEF Judged
<1>5. Defect[v][s.recording] = GivenTo(v, s.recording)
  BY <1>3 DEF Judged, Defect, GivenTo
<1>6. QED
  BY <1>3, <1>4, <1>5 DEF Judged

LEMMA HoldersAsLanded ==
  ASSUME LandingInvariant, lander # Idle, Target = "rights_holders", InsertFromStaging
  PROVE  HoldersLanded'
<1>1. landed'["rights_holders"].rows = Generated("rights_holders", lander.version, lander.revised)
  BY TargetTyped
     DEF InsertFromStaging, LandingInvariant, StagedForInsert, GeneratedNow, Typed
<1>2. landed'["rights_holders"].rows = HolderRows(lander.version, lander.revised)
  BY <1>1 DEF Generated
<1> DEFINE flips(h) == (h \in PendingPayees(lander.version)) # (lander.revised /\ h < Revised)
          row(h) == [holder |-> h, pending |-> flips(h)]
<1>3. HolderRows(lander.version, lander.revised) = {row(h) : h \in Holders}
  BY DEF HolderRows
<1>4. \A h \in Holders : row(h).holder = h
  <2> HIDE DEF flips
  <2>1. QED
    OBVIOUS
<1> HIDE DEF row
<1>5. {h.holder : h \in {row(h) : h \in Holders}} = Holders
  BY <1>4
<1>6. QED
  BY <1>2, <1>3, <1>5 DEF HoldersLanded, HolderIds

LEMMA HoldersStep ==
  ASSUME LandingInvariant, HoldersFirst, [Next]_vars
  PROVE  HoldersFirst'
<1>1. Typed
  BY DEF LandingInvariant
<1>2. CASE InsertFromStaging
  <2>1. /\ lander # Idle /\ lander.at = "insert" /\ lander.target \in {1, 2, 3}
        /\ lander'.target = lander.target
    BY <1>1, <1>2 DEF InsertFromStaging, Typed, LanderTyped
  <2>2. /\ lander.target = 1 => Target = "rights_holders"
        /\ lander.target # 1 => Target # "rights_holders"
    BY <1>1, <2>1 DEF Target, Targets, Typed, LanderTyped
  <2>3. CASE lander.target = 1
    BY <1>2, <2>1, <2>2, <2>3, HoldersAsLanded DEF HoldersFirst
  <2>4. CASE lander.target # 1
    <3>1. landed'["rights_holders"] = landed["rights_holders"]
      BY <1>1, <1>2, <2>2, <2>4 DEF InsertFromStaging, Typed
    <3>2. HoldersLanded
      BY <2>1, <2>4 DEF HoldersFirst
    <3>3. HoldersLanded'
      BY <3>1, <3>2 DEF HoldersLanded, HolderIds
    <3>4. QED
      BY <3>3 DEF HoldersFirst
  <2>5. QED
    BY <2>3, <2>4
<1>3. CASE Land /\ ~InsertFromStaging
  <2>1. UNCHANGED landed
    BY <1>3 DEF Land, StartLanding, LoadStaging, DropStaging, WriteReport, rights
  <2>2. HoldersLanded' = HoldersLanded /\ Splits' = Splits
    BY <2>1 DEF HoldersLanded, HolderIds, Splits
  <2>3. lander' # Idle /\ (lander'.target # 1 \/ lander'.at \notin {"load", "insert"})
          => HoldersLanded
    <3>1. CASE StartLanding
      <4>1. PICK r \in BOOLEAN :
              lander' = [at |-> "load", version |-> config.version, revised |-> r, target |-> 1]
        BY <3>1 DEF StartLanding
      <4>2. QED
        BY <4>1
    <3>2. CASE LoadStaging
      <4>1. /\ lander # Idle /\ lander \in [at : LandingSteps, version : Versions,
                                            revised : BOOLEAN, target : 1 .. 3]
            /\ lander' = [lander EXCEPT !.at = "insert"]
        BY <1>1, <3>2 DEF LoadStaging, Typed, LanderTyped
      <4>2. lander'.target = lander.target /\ lander'.at = "insert"
        BY <4>1
      <4>3. QED
        BY <4>1, <4>2 DEF HoldersFirst
    <3>3. CASE DropStaging
      BY <3>3 DEF DropStaging, HoldersFirst
    <3>4. CASE WriteReport
      BY <3>4 DEF WriteReport
    <3>5. QED
      BY <1>3, <3>1, <3>2, <3>3, <3>4 DEF Land
  <2>4. QED
    BY <2>2, <2>3 DEF HoldersFirst
<1>4. CASE ~Land
  <2>1. UNCHANGED landed /\ lander' \in {lander, Idle}
    BY <1>4 DEF Next, Dbt, StartBuild, BuildValidity, BuildEligibility, BuildResolution,
       BuildDisposition, BuildStreams, BuildFact, UntouchedByDbt, StartPublish, Clear,
       StartVerify, Detect, Reconcile, Happen, EditConfig, Rematch, KillLander,
       KillBuilder, rights, vars
  <2>2. HoldersLanded' = HoldersLanded /\ Splits' = Splits
    BY <2>1 DEF HoldersLanded, HolderIds, Splits
  <2>3. QED
    BY <2>1, <2>2 DEF HoldersFirst
<1>5. QED
  BY <1>2, <1>3, <1>4 DEF Land

LEMMA ValidityDerived ==
  ASSUME Assumptions, FoundInvariant, BuildValidity
  PROVE  DerivedSets(validity')
<1>1. validity' = Validity(Splits, HolderIds, Catalogue(matches))
  BY DEF BuildValidity
<1>2. matches \in MatchRuns
  BY DEF FoundInvariant, PaidInvariant, GatesInvariant, LandingInvariant, Typed
<1>3. CASE Splits = {}
  BY <1>1, <1>3 DEF Validity, SetsOf, DerivedSets
<1>4. CASE Splits # {}
  <2>1. HolderIds = Holders /\ \E v \in Versions : Splits = SplitsOf[v]
    BY <1>4 DEF FoundInvariant, HoldersFirst, HoldersLanded, PaidInvariant, PaidSound,
       LandedSplits
  <2>2. QED
    BY <1>1, <1>2, <2>1 DEF DerivedSets
<1>5. QED
  BY <1>3, <1>4

LEMMA FoundStep ==
  ASSUME Assumptions, FoundInvariant, [Next]_vars
  PROVE  FoundInvariant'
<1>1. PaidInvariant' /\ HoldersFirst'
  BY PaidStep, HoldersStep DEF FoundInvariant, PaidInvariant, GatesInvariant
<1>2. CASE BuildValidity
  BY <1>1, <1>2, ValidityDerived DEF FoundInvariant
<1>3. CASE ~BuildValidity
  <2>1. UNCHANGED validity
    BY <1>3, DerivedStay DEF Dbt, StartBuild, BuildEligibility, BuildResolution,
       BuildDisposition, BuildStreams, BuildFact, derived
  <2>2. QED
    BY <1>1, <2>1 DEF FoundInvariant
<1>4. QED
  BY <1>2, <1>3

LEMMA FoundInit ==
  ASSUME Assumptions, Init
  PROVE  FoundInvariant
<1>1. HoldersFirst
  BY DEF Init, HoldersFirst, Splits, Tables
<1>2. QED
  BY <1>1, PaidInit DEF Init, FoundInvariant

\* The quality layer finds the defect each recording was given, and no other, though the
\* source does not label it: for every quota, rank, draw, weight and number of holders, and
\* whatever is landed, rematched or killed between the tables it reads.
THEOREM DefectsFound == Spec => []DefectsAreFound
<1>1. Init => FoundInvariant
  BY FoundInit, RightsModelAssumption, RightsAssumption, NullAssumption DEF Assumptions
<1>2. FoundInvariant /\ [Next]_vars => FoundInvariant'
  BY FoundStep, RightsModelAssumption, RightsAssumption, NullAssumption DEF Assumptions
<1>3. FoundInvariant => DefectsAreFound
  BY DerivedFinds, RightsModelAssumption, RightsAssumption, NullAssumption
     DEF FoundInvariant, Assumptions
<1>4. QED
  BY <1>1, <1>2, <1>3, PTL DEF Spec

-----------------------------------------------------------------------------
(* What is paid is owned                                                       *)

\* A version has a set of a recording without a defect, in force on a day.
OwnedBy(v, recording, split, day) ==
  /\ recording \in Universe /\ GivenTo(v, recording) = Healthy
  /\ RowsIn(SplitsOf[v], recording, split) # {}
  /\ \A q \in RowsIn(SplitsOf[v], recording, split) : InForce(q, day)

OwnedOn(recording, split, day) == \E v \in Versions : OwnedBy(v, recording, split, day)

\* A set is of one version.
LEMMA OneVersion ==
  ASSUME Assumptions, NEW v \in Versions, NEW w \in Versions, NEW recording, NEW split,
         RowsIn(SplitsOf[v], recording, split) # {}, RowsIn(SplitsOf[w], recording, split) # {}
  PROVE  v = w
<1>1. PICK p \in SplitsOf[v], q \in SplitsOf[w] : p.split = split /\ q.split = split
  BY DEF RowsIn
<1>2. /\ p.split = SplitVersionId(v, p.recording, p.from)
      /\ q.split = SplitVersionId(w, q.recording, q.from)
  BY SplitsOfSound DEF RowsSound, RowSound
<1>3. RightsVersion(v) = RightsVersion(w)
  BY <1>1, <1>2 DEF SplitVersionId
<1>4. QED
  BY <1>3 DEF Assumptions, RightsAssumption

\* What the derived tables say of the owners, each in its turn: of the sets ...
SetsOwned(sets) ==
  \A s \in sets : IsValid(s) =>
    \E v \in Versions :
      /\ s.recording \in Universe /\ GivenTo(v, s.recording) = Healthy
      /\ RowsIn(SplitsOf[v], s.recording, s.split) # {}
      /\ \A q \in RowsIn(SplitsOf[v], s.recording, s.split) : q.from = s.from /\ q.to = s.to
\* ... of the days, ...
DaysOwned(days) == \A d \in days : d.split # Null => OwnedOn(d.recording, d.split, d.day)
\* ... and of the listens, which are those of one match run.
OwnedListen(run, l, d) ==
  d.status = "ATTRIBUTABLE" =>
    /\ Eligible(MatchedAs(run, l))
    /\ d.recording = MatchedAs(run, l).recording /\ d.day = MatchedAs(run, l).day
    /\ OwnedOn(d.recording, d.split, d.day)
ListensOwned(table) == \E run \in MatchRuns : \A l \in Listens : OwnedListen(run, l, table[l])

LandedRates(rates) == rates = {} \/ \E w \in Versions : rates = RateCard(w)
MatchedRun(table) == \E run \in MatchRuns : table = Matched(run)

\* A group is paid by a set and by a rate, for listens on days that both were in force.
GroupOwned(g, played) ==
  \E v \in Versions, run \in MatchRuns : \E c \in UNION {RateCard(w) : w \in Versions} :
    /\ g.recording \in Universe /\ GivenTo(v, g.recording) = Healthy
    /\ RowsIn(SplitsOf[v], g.recording, g.split) # {}
    /\ c.card = g.card /\ c.rate = g.rate
    /\ \A s \in RowsIn(SplitsOf[v], g.recording, g.split) :
         played <= SumFunctionOnSet(Streams, PayableOn(run, g.recording, s.from, s.to)
                                              \cap PayableOn(run, g.recording, c.from, c.to))
GroupsOwned(table) == \A b \in table : GroupOwned(b.group, b.streams)

LEMMA ValidityOwned ==
  ASSUME Assumptions, NEW sets, DerivedSets(sets)
  PROVE  SetsOwned(sets)
<1>1. SUFFICES ASSUME NEW s \in sets, IsValid(s)
               PROVE  \E v \in Versions :
                 /\ s.recording \in Universe /\ GivenTo(v, s.recording) = Healthy
                 /\ RowsIn(SplitsOf[v], s.recording, s.split) # {}
                 /\ \A q \in RowsIn(SplitsOf[v], s.recording, s.split) :
                      q.from = s.from /\ q.to = s.to
  BY DEF SetsOwned
<1>2. PICK v \in Versions, run \in MatchRuns :
        sets = Validity(SplitsOf[v], Holders, Catalogue(run))
  BY DEF DerivedSets
<1>3. Judged(s, v, Catalogue(run))
  BY <1>2, ValidityJudges
<1>4. s.flags = {}
  BY <1>1 DEF IsValid
<1>5. s.recording \in Universe
  <2>1. s.recording \in Catalogue(run) /\ s.recording \in Universe \cup Orphans
    BY <1>3, <1>4 DEF Judged
  <2>2. Catalogue(run) \cap Orphans = {}
    BY DEF Assumptions, RightsAssumption
  <2> HIDE DEF Catalogue
  <2>3. QED
    BY <2>1, <2>2
<1>6. GivenTo(v, s.recording) = Healthy
  BY <1>3, <1>4 DEF Judged
<1>7. QED
  BY <1>3, <1>5, <1>6 DEF Judged

LEMMA ResolutionOwned ==
  ASSUME NEW sets, SetsSound(sets), SetsOwned(sets), NEW days, NEW rates
  PROVE  DaysOwned(Resolution(days, sets, rates))
<1>1. ASSUME NEW recording, NEW day, NEW d, d = ResolvedDay(recording, day, sets, rates),
             d.split # Null
      PROVE  OwnedOn(d.recording, d.split, d.day)
  <2> DEFINE own == {s \in sets : s.recording = recording}
             covering == {s \in own : IsValid(s) /\ InForce(s, day)}
             sole == CHOOSE s \in covering : TRUE
  <2>1. /\ d.recording = recording /\ d.day = day
        /\ d.split = IF Cardinality(covering) = 1 THEN sole.split ELSE Null
    BY <1>1 DEF ResolvedDay
  <2>2. IsFiniteSet(covering)
    BY FS_Subset DEF SetsSound
  <2>3. Cardinality(covering) = 1 /\ d.split = sole.split
    BY <1>1, <2>1
  <2>4. sole \in covering
    <3>1. PICK x : covering = {x}
      BY <2>2, <2>3, FS_Singleton
    <3>2. QED
      BY <3>1
  <2> HIDE DEF sole
  <2>5. sole \in sets /\ sole.recording = recording /\ IsValid(sole) /\ InForce(sole, day)
    BY <2>4
  <2>6. PICK v \in Versions :
          /\ recording \in Universe /\ GivenTo(v, recording) = Healthy
          /\ RowsIn(SplitsOf[v], recording, sole.split) # {}
          /\ \A q \in RowsIn(SplitsOf[v], recording, sole.split) :
               q.from = sole.from /\ q.to = sole.to
    BY <2>5 DEF SetsOwned
  <2>7. \A q \in RowsIn(SplitsOf[v], recording, sole.split) : InForce(q, day)
    BY <2>5, <2>6 DEF InForce
  <2>8. OwnedBy(v, recording, sole.split, day)
    BY <2>6, <2>7 DEF OwnedBy
  <2>9. QED
    BY <2>1, <2>3, <2>8 DEF OwnedOn
<1>2. QED
  BY <1>1 DEF DaysOwned, Resolution

LEMMA DispositionOwned ==
  ASSUME Assumptions, NEW days, DaysSound(days), DaysOwned(days), NEW table, MatchedRun(table)
  PROVE  ListensOwned(Disposition(table, days))
<1>1. PICK run \in MatchRuns : table = Matched(run)
  BY DEF MatchedRun
<1>2. ASSUME NEW l \in Listens, NEW d, d = Disposed(table[l], days), d.status = "ATTRIBUTABLE"
      PROVE  /\ Eligible(MatchedAs(run, l))
             /\ d.recording = MatchedAs(run, l).recording /\ d.day = MatchedAs(run, l).day
             /\ OwnedOn(d.recording, d.split, d.day)
  <2> DEFINE row == table[l]
             own == {x \in days : x.recording = row.recording /\ x.day = row.day}
             day == CHOOSE x \in own : TRUE
  <2>1. row = MatchedAs(run, l)
    BY <1>1 DEF Matched
  <2> HIDE DEF row
  <2>2. d = Disposed(row, days)
    BY <1>2 DEF row
  <2>3. /\ d.recording = row.recording /\ d.day = row.day
        /\ d.matched = row.matched /\ d.method = row.method
        /\ d.split = IfAttributable(d.status, IF own = {} THEN Null ELSE day.split)
    BY <2>2 DEF Disposed
  <2>4. d.split # Null
        /\ d.status = PythonDisposition(d.matched, d.method, d.resolved, d.rateRows)
    BY <1>2, <2>2, DisposedAgrees
  <2>5. Eligible(row)
    BY <1>2, <2>3, <2>4 DEF PythonDisposition, Eligible
  <2>6. own # {} /\ d.split = day.split
    BY <1>2, <2>3, <2>4 DEF IfAttributable
  <2>7. day \in days /\ day.recording = row.recording /\ day.day = row.day
    BY <2>6
  <2> HIDE DEF day
  <2>8. QED
    BY <2>1, <2>3, <2>4, <2>5, <2>6, <2>7 DEF DaysOwned
<1>3. \A l \in Listens : Disposition(table, days)[l] = Disposed(table[l], days)
  BY DEF Disposition
<1>4. \A l \in Listens : OwnedListen(run, l, Disposition(table, days)[l])
  BY <1>2, <1>3 DEF OwnedListen
<1>5. QED
  BY <1>4 DEF ListensOwned

\* The listens that pay a group are payable under its set and its rate.
LEMMA GroupPaid ==
  ASSUME Assumptions, NEW table, NEW run \in MatchRuns,
         \A l \in Listens : OwnedListen(run, l, table[l]),
         NEW w \in Versions, NEW l0 \in Listens, NEW c \in RateCard(w), NEW L \in SUBSET Listens,
         table[l0].status = "ATTRIBUTABLE",
         \A l \in L : /\ table[l].status = "ATTRIBUTABLE" /\ InForce(c, table[l].day)
                      /\ table[l].recording = table[l0].recording
                      /\ table[l].split = table[l0].split,
         NEW g, g.recording = table[l0].recording, g.split = table[l0].split,
         g.card = c.card, g.rate = c.rate
  PROVE  GroupOwned(g, SumFunctionOnSet(Streams, L))
<1>1. PICK v \in Versions : OwnedBy(v, g.recording, g.split, table[l0].day)
  BY DEF OwnedListen, OwnedOn
<1>2. \A l \in L : OwnedBy(v, g.recording, g.split, table[l].day)
  <2>1. TAKE l \in L
  <2>2. PICK u \in Versions : OwnedBy(u, g.recording, g.split, table[l].day)
    BY DEF OwnedListen, OwnedOn
  <2>3. u = v
    BY <1>1, <2>2, OneVersion DEF OwnedBy
  <2>4. QED
    BY <2>2, <2>3
<1>3. ASSUME NEW s \in RowsIn(SplitsOf[v], g.recording, g.split)
      PROVE  SumFunctionOnSet(Streams, L)
               <= SumFunctionOnSet(Streams, PayableOn(run, g.recording, s.from, s.to)
                                            \cap PayableOn(run, g.recording, c.from, c.to))
  <2> DEFINE payable == PayableOn(run, g.recording, s.from, s.to)
                        \cap PayableOn(run, g.recording, c.from, c.to)
  <2>1. \A l \in L : l \in payable
    <3>1. TAKE l \in L
    <3>2. /\ Eligible(MatchedAs(run, l)) /\ MatchedAs(run, l).recording = g.recording
          /\ MatchedAs(run, l).day = table[l].day
      BY DEF OwnedListen
    <3>3. InForce(s, table[l].day) /\ InForce(c, table[l].day)
      BY <1>2 DEF OwnedBy
    <3>4. QED
      BY <3>2, <3>3 DEF PayableOn, InForce
  <2>2. payable \in SUBSET Listens
    BY DEF PayableOn
  <2> HIDE DEF payable
  <2>3. IsFiniteSet(payable) /\ \A l \in payable : Streams[l] \in Nat
    BY <2>2, FS_Subset DEF Assumptions, RightsAssumption
  <2>4. L \in SUBSET payable
    BY <2>1
  <2>5. SumFunctionOnSet(Streams, L) <= SumFunctionOnSet(Streams, payable)
    BY <2>3, <2>4, SumOfPartAtMost
  <2>6. QED
    BY <2>5 DEF payable
<1>4. c \in UNION {RateCard(x) : x \in Versions}
  OBVIOUS
<1>5. /\ g.recording \in Universe /\ GivenTo(v, g.recording) = Healthy
      /\ RowsIn(SplitsOf[v], g.recording, g.split) # {}
  BY <1>1 DEF OwnedBy
<1>6. QED
  BY <1>3, <1>4, <1>5 DEF GroupOwned

\* A group's streams are those of its listens, each counted once: a card has one interval.
LEMMA StreamsOwned ==
  ASSUME Assumptions, NEW table, ListensOwned(table), NEW rates, LandedRates(rates)
  PROVE  GroupsOwned(AttributableStreams(table, rates))
<1> DEFINE attributable == {l \in Listens : table[l].status = "ATTRIBUTABLE"}
           pays(l, r) == InForce(r, table[l].day)
           group(l, r) == [recording |-> table[l].recording, split |-> table[l].split,
                           card |-> r.card, rate |-> r.rate]
           pairs == {p \in attributable \X rates : pays(p[1], p[2])}
           groups == {group(p[1], p[2]) : p \in pairs}
           paying(g) == {p \in attributable \X rates : pays(p[1], p[2]) /\ group(p[1], p[2]) = g}
           count(g) == [p \in paying(g) |-> Streams[p[1]]]
<1>1. AttributableStreams(table, rates)
        = {[group |-> g, streams |-> SumFunction(count(g))] : g \in groups}
  BY DEF AttributableStreams
<1>2. PICK run \in MatchRuns : \A l \in Listens : OwnedListen(run, l, table[l])
  BY DEF ListensOwned
<1>3. ASSUME NEW l0 \in attributable, NEW c \in rates, pays(l0, c), NEW g, g = group(l0, c)
      PROVE  GroupOwned(g, SumFunction(count(g)))
  <2>1. PICK w \in Versions : rates = RateCard(w)
    BY DEF LandedRates
  <2>2. /\ g.recording = table[l0].recording /\ g.split = table[l0].split
        /\ g.card = c.card /\ g.rate = c.rate
    BY <1>3
  <2> DEFINE T == paying(g)
             listen == [p \in T |-> p[1]]
             L == {p[1] : p \in T}
             of == [l \in L |-> Streams[l]]
  <2>3. \A l, r : group(l, r).recording = table[l].recording /\ group(l, r).split = table[l].split
                  /\ group(l, r).card = r.card
    OBVIOUS
  <2>4. \A p \in T : p \in attributable \X rates /\ p[1] \in attributable /\ p[2] \in rates
                     /\ pays(p[1], p[2]) /\ group(p[1], p[2]) = g
    OBVIOUS
  <2>5. \A p \in T : /\ p[1] \in attributable /\ p[2] \in rates
                     /\ InForce(p[2], table[p[1]].day)
                     /\ table[p[1]].recording = g.recording /\ table[p[1]].split = g.split
                     /\ p[2].card = g.card
    BY <2>3, <2>4
  <2>6. \A p \in T : p[2] = c
    <3>1. \A a, b \in RateCard(w) : a.card = b.card => a = b
      BY DEF Assumptions, RightsModelAssumption
    <3>2. QED
      BY <2>1, <2>2, <2>5, <3>1
  <2>7. \A p, q \in T : p[1] = q[1] => p = q
    <3>1. TAKE p, q \in T
    <3>2. p = <<p[1], p[2]>> /\ q = <<q[1], q[2]>>
      BY <2>4
    <3>3. QED
      BY <2>6, <3>2
  <2>8. IsFiniteSet(T)
    <3>1. IsFiniteSet(attributable) /\ IsFiniteSet(rates)
      BY <2>1, FS_Subset DEF Assumptions, RightsAssumption, RightsModelAssumption
    <3>2. IsFiniteSet(attributable \X rates)
      <4> HIDE DEF attributable
      <4>1. QED
        BY <3>1, FS_Product
    <3>3. T \in SUBSET (attributable \X rates)
      OBVIOUS
    <3> HIDE DEF T, attributable
    <3>4. QED
      BY <3>2, <3>3, FS_Subset
  <2>9. L \in SUBSET Listens /\ \A l \in L : l \in attributable
    BY <2>5
  <2> HIDE DEF attributable, pays, group, T
  <2>10. GroupOwned(g, SumFunctionOnSet(Streams, L))
    <3>1. l0 \in Listens /\ table[l0].status = "ATTRIBUTABLE"
      BY DEF attributable
    <3>2. \A l \in L : /\ table[l].status = "ATTRIBUTABLE" /\ InForce(c, table[l].day)
                       /\ table[l].recording = table[l0].recording
                       /\ table[l].split = table[l0].split
      BY <2>2, <2>5, <2>6, <2>9 DEF attributable
    <3> HIDE DEF L
    <3>3. QED
      BY <1>2, <2>1, <2>2, <2>9, <3>1, <3>2, GroupPaid
  <2>11. IsFiniteSet(L)
    BY <2>9, FS_Subset DEF Assumptions, RightsAssumption
  <2>12. \A l \in L : Streams[l] \in Int
    BY <2>9 DEF Assumptions, RightsAssumption
  <2>13. /\ Summable(count(g), T) /\ Summable(of, L)
         /\ Renames(listen, T, L) /\ SameByName(count(g), of, listen, T)
    <3>1. count(g) = [p \in T |-> Streams[p[1]]]
      BY DEF T
    <3>2. \A p \in T : p[1] \in L
      OBVIOUS
    <3>3. \A l \in L : \E p \in T : p[1] = l
      OBVIOUS
    <3> HIDE DEF L, count
    <3>4. Summable(count(g), T) /\ Summable(of, L)
      BY <2>8, <2>11, <2>12, <3>1, <3>2 DEF Summable
    <3>5. Renames(listen, T, L)
      BY <2>7, <3>2, <3>3 DEF Renames
    <3>6. SameByName(count(g), of, listen, T)
      BY <3>1, <3>2 DEF SameByName
    <3>7. QED
      BY <3>4, <3>5, <3>6
  <2> HIDE DEF count, listen
  <2>14. SumFunctionOnSet(Streams, L) = SumFunction(of)
    <3> HIDE DEF L
    <3>1. QED
      BY <2>11, <2>12, SumOnSet
  <2> HIDE DEF L, of
  <2>15. SumFunction(count(g)) = SumFunction(of)
    BY <2>13, SumRenamed
  <2>16. QED
    BY <2>10, <2>14, <2>15
<1>4. \A g \in groups : GroupOwned(g, SumFunction(count(g)))
  <2>1. \A p \in pairs : p[1] \in attributable /\ p[2] \in rates /\ pays(p[1], p[2])
    OBVIOUS
  <2> HIDE DEF attributable, pays, group, pairs, count
  <2>2. QED
    BY <1>3, <2>1
<1> HIDE DEF groups, count
<1>5. QED
  BY <1>1, <1>4 DEF GroupsOwned

\* An amount: of a group that is owned, shared as the set of the group's version says.
AmountOwned(g, played, share) ==
  \E v \in Versions, run \in MatchRuns : \E c \in UNION {RateCard(w) : w \in Versions} :
    LET rows == RowsIn(SplitsOf[v], g.recording, g.split) IN
    /\ g.recording \in Universe /\ GivenTo(v, g.recording) = Healthy
    /\ rows # {} /\ share = Shares(rows)
    /\ c.card = g.card /\ c.rate = g.rate
    /\ \A s \in rows :
         played <= SumFunctionOnSet(Streams, PayableOn(run, g.recording, s.from, s.to)
                                              \cap PayableOn(run, g.recording, c.from, c.to))
AmountsOwned(paying) == \A paid \in paying : AmountOwned(paid.group, paid.streams, paid.share)

LEMMA AttributionOwned ==
  ASSUME Assumptions, NEW table, GroupsOwned(table), NEW splits, LandedSplits(splits)
  PROVE  AmountsOwned(Attribution(table, splits))
<1>1. ASSUME NEW b \in table, RowsOf(b.group, splits) # {}
      PROVE  AmountOwned(b.group, b.streams, Shares(RowsOf(b.group, splits)))
  <2>1. RowsOf(b.group, splits) = RowsIn(splits, b.group.recording, b.group.split)
    BY DEF RowsOf, RowsIn
  <2>2. PICK u \in Versions : splits = SplitsOf[u]
    BY <1>1, <2>1 DEF LandedSplits, RowsIn
  <2>3. PICK v \in Versions, run \in MatchRuns, c \in UNION {RateCard(w) : w \in Versions} :
          /\ b.group.recording \in Universe /\ GivenTo(v, b.group.recording) = Healthy
          /\ RowsIn(SplitsOf[v], b.group.recording, b.group.split) # {}
          /\ c.card = b.group.card /\ c.rate = b.group.rate
          /\ \A s \in RowsIn(SplitsOf[v], b.group.recording, b.group.split) :
               b.streams <= SumFunctionOnSet(Streams,
                              PayableOn(run, b.group.recording, s.from, s.to)
                              \cap PayableOn(run, b.group.recording, c.from, c.to))
    BY DEF GroupsOwned, GroupOwned
  <2>4. u = v
    BY <1>1, <2>1, <2>2, <2>3, OneVersion
  <2>5. QED
    BY <2>1, <2>2, <2>3, <2>4 DEF AmountOwned
<1>2. ASSUME NEW paid \in Attribution(table, splits)
      PROVE  AmountOwned(paid.group, paid.streams, paid.share)
  <2>1. PICK b \in table :
          /\ RowsOf(b.group, splits) # {}
          /\ paid = [group |-> b.group, streams |-> b.streams,
                     share |-> Shares(RowsOf(b.group, splits)),
                     cents |-> SqlCents(b.streams, b.group.rate, Shares(RowsOf(b.group, splits)))]
    BY DEF Attribution
  <2>2. /\ paid.group = b.group /\ paid.streams = b.streams
        /\ paid.share = Shares(RowsOf(b.group, splits))
    BY <2>1
  <2>3. QED
    BY <1>1, <2>1, <2>2
<1>3. QED
  BY <1>2 DEF AmountsOwned

LEMMA AmountsAreOwned ==
  ASSUME Assumptions, AmountsOwned(attribution)
  PROVE  PaidAsOwned
<1>1. SUFFICES ASSUME NEW paid \in attribution
               PROVE  LET g == paid.group IN
      \E v \in Versions :
        LET rows == RowsOf(g, SplitsOf[v])
        IN  /\ g.recording \in Universe
            /\ Defect[v][g.recording] = Healthy
            /\ rows # {} /\ paid.share = Shares(rows)
            /\ \E s \in rows, run \in MatchRuns : \E c \in UNION {RateCard(w) : w \in Versions} :
                 /\ c.card = g.card /\ c.rate = g.rate
                 /\ paid.streams <= SumFunctionOnSet(Streams,
                                      PayableOn(run, g.recording, s.from, s.to)
                                      \cap PayableOn(run, g.recording, c.from, c.to))
  BY DEF PaidAsOwned
<1> DEFINE g == paid.group
<1>2. PICK v \in Versions, run \in MatchRuns, c \in UNION {RateCard(w) : w \in Versions} :
        LET rows == RowsIn(SplitsOf[v], g.recording, g.split) IN
        /\ g.recording \in Universe /\ GivenTo(v, g.recording) = Healthy
        /\ rows # {} /\ paid.share = Shares(rows)
        /\ c.card = g.card /\ c.rate = g.rate
        /\ \A s \in rows :
             paid.streams <= SumFunctionOnSet(Streams,
                               PayableOn(run, g.recording, s.from, s.to)
                               \cap PayableOn(run, g.recording, c.from, c.to))
  BY DEF AmountsOwned, AmountOwned
<1>3. RowsOf(g, SplitsOf[v]) = RowsIn(SplitsOf[v], g.recording, g.split)
  BY DEF RowsOf, RowsIn
<1>4. Defect[v][g.recording] = GivenTo(v, g.recording)
  BY <1>2 DEF Defect, GivenTo
<1> HIDE DEF g
<1>5. PICK s \in RowsIn(SplitsOf[v], g.recording, g.split) : TRUE
  BY <1>2
<1>6. QED
  BY <1>2, <1>3, <1>4, <1>5 DEF g

\* A build pays what is owned, whatever lands or is rematched while it runs.
OwnedSound ==
  /\ LandedRates(Rates)
  /\ BuilderAt("eligibility") \/ BuilderAt("resolution") => SetsOwned(validity)
  /\ BuilderAt("resolution") \/ BuilderAt("disposition") \/ resolution # NoTable
       => MatchedRun(eligibility)
  /\ BuilderAt("disposition") \/ resolution # NoTable => DaysOwned(resolution)
  /\ BuilderAt("streams") => ListensOwned(disposition)
  /\ BuilderAt("fact") => GroupsOwned(streams)

OwnedInvariant == FoundInvariant /\ OwnedSound /\ AmountsOwned(attribution)

LEMMA InsertRates ==
  ASSUME LandingInvariant, LandedRates(Rates), InsertFromStaging
  PROVE  LandedRates(Rates')
<1>1. lander # Idle /\ lander.version \in Versions
  BY DEF InsertFromStaging, LandingInvariant, Typed, LanderTyped
<1>2. /\ landed'[Target].rows = Generated(Target, lander.version, lander.revised)
      /\ \A t \in Tables \ {Target} : landed'[t] = landed[t]
      /\ Target \in Tables
  BY <1>1, TargetTyped
     DEF InsertFromStaging, LandingInvariant, StagedForInsert, GeneratedNow, Typed
<1>3. Rates' = Rates \/ Rates' = Generated("rate_card", lander.version, lander.revised)
  BY <1>2 DEF Rates, Tables
<1>4. QED
  BY <1>1, <1>3 DEF LandedRates, Generated

LEMMA EligibilityStays ==
  ASSUME [Next]_vars, ~Dbt
  PROVE  UNCHANGED eligibility
BY DEF Next, Land, StartLanding, LoadStaging, InsertFromStaging, DropStaging, WriteReport,
   StartPublish, Clear, StartVerify, Detect, Reconcile, Happen, EditConfig, Rematch,
   KillLander, KillBuilder, derived, vars

LEMMA DbtOwns ==
  ASSUME Assumptions, OwnedInvariant, Dbt
  PROVE  OwnedSound' /\ AmountsOwned(attribution)'
<1> USE DEF OwnedInvariant, FoundInvariant, PaidInvariant, GatesInvariant, LandingInvariant
<1>1. /\ LandedSplits(Splits) /\ LandedRates(Rates)
      /\ BuilderAt("eligibility") \/ BuilderAt("resolution")
           => SetsSound(validity) /\ SetsOwned(validity)
      /\ BuilderAt("resolution") \/ BuilderAt("disposition") \/ resolution # NoTable
           => MatchedRun(eligibility)
      /\ BuilderAt("disposition") => DaysSound(resolution)
      /\ BuilderAt("disposition") \/ resolution # NoTable => DaysOwned(resolution)
      /\ BuilderAt("streams") => ListensOwned(disposition)
      /\ BuilderAt("fact") => GroupsOwned(streams)
  BY DEF OwnedSound, PaidSound, BuiltSound, BuilderAt
<1>2. Rates' = Rates
  BY DEF Dbt, StartBuild, BuildValidity, BuildEligibility, BuildResolution, BuildDisposition,
     BuildStreams, BuildFact, UntouchedByDbt, rights, Rates
<1>3. ASSUME BuilderAt("eligibility")' \/ BuilderAt("resolution")' => SetsOwned(validity'),
             BuilderAt("resolution")' \/ BuilderAt("disposition")' \/ resolution' # NoTable
               => MatchedRun(eligibility'),
             BuilderAt("disposition")' \/ resolution' # NoTable => DaysOwned(resolution'),
             BuilderAt("streams")' => ListensOwned(disposition'),
             BuilderAt("fact")' => GroupsOwned(streams'),
             AmountsOwned(attribution')
      PROVE  OwnedSound' /\ AmountsOwned(attribution)'
  BY <1>1, <1>2, <1>3 DEF OwnedSound, BuilderAt
<1>4. CASE StartBuild
  <2>1. /\ UNCHANGED <<validity, eligibility, resolution, disposition, streams, attribution>>
        /\ \A at : BuilderAt(at)' => at = "validity"
    BY <1>4 DEF StartBuild, derived, BuilderAt
  <2>2. QED
    BY <1>1, <1>3, <2>1
<1>5. CASE BuildValidity
  <2>1. /\ UNCHANGED <<eligibility, resolution, disposition, streams, attribution>>
        /\ builder # Idle /\ Then("eligibility")
    BY <1>5 DEF BuildValidity, Building
  <2>2. SetsOwned(validity')
    BY <1>5, ValidityDerived, ValidityOwned
  <2>3. QED
    BY <1>1, <1>3, <2>1, <2>2, ThenWalks
<1>6. CASE BuildEligibility
  <2>1. /\ BuilderAt("eligibility") /\ Then("resolution")
        /\ eligibility' = Matched(matches)
        /\ UNCHANGED <<validity, resolution, disposition, streams, attribution>>
    BY <1>6 DEF BuildEligibility, Building, BuilderAt
  <2>2. MatchedRun(eligibility')
    BY <2>1 DEF MatchedRun, Typed
  <2>3. QED
    BY <1>1, <1>3, <2>1, <2>2, ThenWalks DEF BuilderAt
<1>7. CASE BuildResolution
  <2>1. /\ BuilderAt("resolution") /\ Then("disposition")
        /\ resolution' = Resolution(RecordingDays(eligibility), validity, Rates)
        /\ UNCHANGED <<validity, eligibility, disposition, streams, attribution>>
    BY <1>7 DEF BuildResolution, Building, BuilderAt
  <2>2. DaysOwned(resolution')
    BY <1>1, <2>1, ResolutionOwned
  <2>3. QED
    BY <1>1, <1>3, <2>1, <2>2, ThenWalks DEF BuilderAt
<1>8. CASE BuildDisposition
  <2>1. /\ BuilderAt("disposition") /\ Then("streams")
        /\ disposition' = Disposition(eligibility, resolution)
        /\ UNCHANGED <<validity, eligibility, resolution, streams, attribution>>
    BY <1>8 DEF BuildDisposition, Building, BuilderAt
  <2>2. ListensOwned(disposition')
    BY <1>1, <2>1, DispositionOwned
  <2>3. QED
    BY <1>1, <1>3, <2>1, <2>2, ThenWalks DEF BuilderAt
<1>9. CASE BuildStreams
  <2>1. /\ BuilderAt("streams") /\ Then("fact")
        /\ streams' = AttributableStreams(disposition, Rates)
        /\ UNCHANGED <<validity, eligibility, resolution, disposition, attribution>>
    BY <1>9 DEF BuildStreams, Building, BuilderAt
  <2>2. GroupsOwned(streams')
    BY <1>1, <2>1, StreamsOwned
  <2>3. QED
    BY <1>1, <1>3, <2>1, <2>2, ThenWalks DEF BuilderAt
<1>10. CASE BuildFact
  <2>1. /\ BuilderAt("fact") /\ builder' = Idle
        /\ attribution' = Attribution(streams, Splits)
        /\ UNCHANGED <<validity, eligibility, resolution, disposition, streams>>
    BY <1>10 DEF BuildFact, Building, BuilderAt
  <2>2. AmountsOwned(attribution')
    BY <1>1, <2>1, AttributionOwned
  <2>3. QED
    BY <1>1, <1>3, <2>1, <2>2 DEF BuilderAt
<1>11. QED
  BY <1>4, <1>5, <1>6, <1>7, <1>8, <1>9, <1>10 DEF Dbt

LEMMA OwnedStep ==
  ASSUME Assumptions, OwnedInvariant, [Next]_vars
  PROVE  OwnedInvariant'
<1>1. FoundInvariant'
  BY FoundStep DEF OwnedInvariant
<1>2. CASE Dbt
  BY <1>1, <1>2, DbtOwns DEF OwnedInvariant
<1>3. CASE ~Dbt
  <2>1. Typed /\ LandingInvariant
    BY DEF OwnedInvariant, FoundInvariant, PaidInvariant, GatesInvariant, LandingInvariant
  <2>2. UNCHANGED <<validity, eligibility, resolution, disposition, streams, attribution>>
    BY <1>3, <2>1, DerivedStay, EligibilityStays, PayingStays
  <2>3. LandedRates(Rates')
    <3>1. CASE InsertFromStaging
      BY <2>1, <3>1, InsertRates DEF OwnedInvariant, OwnedSound
    <3>2. CASE ~InsertFromStaging
      BY <3>2, LandedStays DEF OwnedInvariant, OwnedSound, Rates
    <3>3. QED
      BY <3>1, <3>2
  <2>4. /\ BuilderAt("eligibility")' \/ BuilderAt("resolution")' => SetsOwned(validity)
        /\ BuilderAt("resolution")' \/ BuilderAt("disposition")' \/ resolution # NoTable
             => MatchedRun(eligibility)
        /\ BuilderAt("disposition")' \/ resolution # NoTable => DaysOwned(resolution)
        /\ BuilderAt("streams")' => ListensOwned(disposition)
        /\ BuilderAt("fact")' => GroupsOwned(streams)
    BY <1>3, <2>1, BuilderWalks, PayingStays DEF OwnedInvariant, OwnedSound
  <2>5. OwnedSound'
    BY <2>2, <2>3, <2>4 DEF OwnedSound, BuilderAt
  <2>6. QED
    BY <1>1, <2>2, <2>5 DEF OwnedInvariant
<1>4. QED
  BY <1>2, <1>3

LEMMA OwnedInit ==
  ASSUME Assumptions, Init
  PROVE  OwnedInvariant
<1>1. Rates = {}
  BY DEF Init, Rates, Tables
<1>2. OwnedSound /\ AmountsOwned(attribution)
  BY <1>1 DEF Init, OwnedSound, AmountsOwned, LandedRates, BuilderAt
<1>3. QED
  BY <1>2, FoundInit DEF OwnedInvariant

\* Every amount is of one ownership set of one generation, complete and without a defect, and
\* counts no more streams than one match run has payable listens on the days the set and the
\* rate were both in force: for every rights model, and whatever is landed, rematched or
\* killed between the tables the money is derived from (fct_royalty_attribution.sql:80).
THEOREM PaymentsAreOwned == Spec => []PaidAsOwned
<1>1. Init => OwnedInvariant
  BY OwnedInit, RightsModelAssumption, RightsAssumption, NullAssumption DEF Assumptions
<1>2. OwnedInvariant /\ [Next]_vars => OwnedInvariant'
  BY OwnedStep, RightsModelAssumption, RightsAssumption, NullAssumption DEF Assumptions
<1>3. OwnedInvariant => PaidAsOwned
  BY AmountsAreOwned, RightsModelAssumption, RightsAssumption, NullAssumption
     DEF Assumptions, OwnedInvariant
<1>4. QED
  BY <1>1, <1>2, <1>3, PTL DEF Spec

-----------------------------------------------------------------------------
(* What the gate clears                                                        *)

FlaggedIn(sets, kind) == {s \in sets : kind \in s.flags}
RecordingsOf(sets) == {s.recording : s \in sets}

\* What the gate compares with the report of a version: some kinds by recording, and some
\* by set.
CountsAgree(sets, w) ==
  /\ Cardinality(Orphans) = Cardinality(RecordingsOf(FlaggedIn(sets, "orphan_recording_mbid")))
  /\ \A kind \in Kinds :
       Cardinality(WithDefect(w, kind))
         = IF kind \in {"temporal_overlap", "temporal_gap"}
           THEN Cardinality(RecordingsOf(FlaggedIn(sets, kind)))
           ELSE Cardinality(FlaggedIn(sets, kind))

\* What was injected: the orphans themselves, and of each defect the recordings the
\* generation of the sets gave it to, as many as the report says.
AsInjected(sets, w) ==
  /\ RecordingsOf(FlaggedIn(sets, "orphan_recording_mbid")) = Orphans
  /\ \A kind \in Kinds :
       /\ Cardinality(RecordingsOf(FlaggedIn(sets, kind))) = Cardinality(WithDefect(w, kind))
       /\ \A s \in sets : RecordingsOf(FlaggedIn(sets, kind)) = WithDefect(VersionOf(s), kind)

LEMMA KindsAre ==
  Kinds = {"shares_do_not_sum_to_100", "temporal_overlap", "temporal_gap",
           "invalid_interval", "missing_rights_holder"}
<1>1. DOMAIN DefectOrder = {1, 2, 3, 4, 5}
  BY DEF DefectOrder
<1>2. Kinds = {DefectOrder[i] : i \in {1, 2, 3, 4, 5}}
  BY <1>1 DEF Kinds
<1>3. QED
  BY <1>2 DEF DefectOrder

\* An entry of the quality layer is of the one set its recording and split name.
EntryOf(v, catalogue, recording, split) ==
  LET x == SetOf(SplitsOf[v], recording, split) IN
  [recording |-> x.recording, split |-> x.split, from |-> x.from, to |-> x.to,
   flags |-> Flags(x, SetsOf(SplitsOf[v]), Holders, catalogue)]

LEMMA EntryNamed ==
  ASSUME NEW v, NEW catalogue, NEW s \in Validity(SplitsOf[v], Holders, catalogue)
  PROVE  s = EntryOf(v, catalogue, s.recording, s.split)
<1>1. PICK x \in SetsOf(SplitsOf[v]) :
        s = [recording |-> x.recording, split |-> x.split, from |-> x.from, to |-> x.to,
             flags |-> Flags(x, SetsOf(SplitsOf[v]), Holders, catalogue)]
  BY DEF Validity
<1>2. PICK q \in SplitsOf[v] : x = SetOf(SplitsOf[v], q.recording, q.split)
  BY DEF SetsOf
<1>3. x.recording = q.recording /\ x.split = q.split
  BY <1>2 DEF SetOf
<1>4. s.recording = x.recording /\ s.split = x.split
  BY <1>1
<1>5. x = SetOf(SplitsOf[v], s.recording, s.split)
  BY <1>2, <1>3, <1>4
<1>6. QED
  BY <1>1, <1>5 DEF EntryOf

\* A recording with one of the defects that are counted by set has one set.
LEMMA OneSetEach ==
  ASSUME Assumptions, NEW v \in Versions, NEW catalogue,
         NEW a \in Validity(SplitsOf[v], Holders, catalogue),
         NEW b \in Validity(SplitsOf[v], Holders, catalogue), a.recording = b.recording,
         NEW kind \in {"shares_do_not_sum_to_100", "invalid_interval", "missing_rights_holder"},
         kind \in a.flags, kind \in b.flags
  PROVE  a = b
<1> DEFINE r == a.recording
<1>1. Judged(a, v, catalogue) /\ Judged(b, v, catalogue)
  BY ValidityJudges
<1>2. GivenTo(v, r) = kind
  <2>1. kind # "orphan_recording_mbid" /\ kind # Healthy
    BY DEF Healthy
  <2>2. kind \in a.flags \ {"orphan_recording_mbid"}
    BY <2>1
  <2>3. QED
    BY <1>1, <2>2 DEF Judged
<1>3. \E p : Spans(v, r, kind) = {p}
  <2>1. kind # "temporal_overlap" /\ kind # "temporal_gap" /\ kind # Healthy
    BY DEF Healthy
  <2>2. QED
    BY <2>1 DEF Spans
<1>4. a.split = b.split
  BY <1>1, <1>2, <1>3 DEF Judged
<1>5. QED
  BY <1>4, EntryNamed

\* Every orphan has a set, and every one of its sets is flagged.
LEMMA OrphansFlagged ==
  ASSUME Assumptions, NEW v \in Versions, NEW catalogue, catalogue \cap Orphans = {}
  PROVE  LET sets == Validity(SplitsOf[v], Holders, catalogue) IN
         Orphans \subseteq RecordingsOf(FlaggedIn(sets, "orphan_recording_mbid"))
<1> DEFINE sets == Validity(SplitsOf[v], Holders, catalogue)
<1>1. SUFFICES ASSUME NEW r \in Orphans
               PROVE  \E s \in sets : s.recording = r /\ "orphan_recording_mbid" \in s.flags
  BY DEF RecordingsOf, FlaggedIn
<1>2. Spans(v, r, GivenTo(v, r)) # {}
  BY DEF Spans
<1>3. PICK p \in Spans(v, r, GivenTo(v, r)) : TRUE
  BY <1>2
<1>4. PICK x \in SetsOf(SplitsOf[v]) : x.recording = r
  BY <1>3, SetOfSpan DEF IsSet
<1> DEFINE s == [recording |-> x.recording, split |-> x.split, from |-> x.from, to |-> x.to,
                 flags |-> Flags(x, SetsOf(SplitsOf[v]), Holders, catalogue)]
<1>5. s \in sets
  BY DEF Validity
<1>6. s.recording = r
  BY <1>4
<1> HIDE DEF s
<1>7. "orphan_recording_mbid" \in s.flags
  BY <1>1, <1>5, <1>6, ValidityJudges DEF Judged
<1>8. QED
  BY <1>5, <1>6, <1>7

\* The recordings flagged with a defect are those the version gave it to: each has a set.
LEMMA RecordingsAsGiven ==
  ASSUME Assumptions, NEW v \in Versions, NEW catalogue, NEW kind \in Kinds
  PROVE  RecordingsOf(FlaggedIn(Validity(SplitsOf[v], Holders, catalogue), kind))
           = WithDefect(v, kind)
<1> DEFINE sets == Validity(SplitsOf[v], Holders, catalogue)
<1>1. kind # "orphan_recording_mbid" /\ kind # Healthy
  BY KindsAre DEF Healthy
<1>2. \A r \in Universe : Defect[v][r] = GivenTo(v, r)
  BY DEF Defect, GivenTo
<1>3. \A s \in sets : /\ s.recording \in Universe \cup Orphans
                      /\ s.flags \ {"orphan_recording_mbid"}
                           = IF GivenTo(v, s.recording) = Healthy THEN {}
                             ELSE {GivenTo(v, s.recording)}
  <2>1. \A s \in sets : Judged(s, v, catalogue)
    BY ValidityJudges
  <2> HIDE DEF sets
  <2>2. QED
    BY <2>1 DEF Judged
<1> HIDE DEF sets
<1>4. \A s \in sets : kind \in s.flags <=> GivenTo(v, s.recording) = kind
  <2>1. TAKE s \in sets
  <2>2. kind \in s.flags <=> kind \in s.flags \ {"orphan_recording_mbid"}
    BY <1>1
  <2>3. QED
    BY <1>1, <1>3, <2>2
<1>5. ASSUME NEW s \in sets, kind \in s.flags
      PROVE  s.recording \in WithDefect(v, kind)
  <2>1. GivenTo(v, s.recording) = kind
    BY <1>4, <1>5
  <2>2. s.recording \in Universe
    BY <1>1, <2>1, DefectTyped DEF GivenTo
  <2>3. QED
    BY <1>2, <2>1, <2>2 DEF WithDefect
<1>6. ASSUME NEW r \in WithDefect(v, kind)
      PROVE  \E s \in sets : s.recording = r /\ kind \in s.flags
  <2>1. r \in Universe /\ GivenTo(v, r) = kind
    BY <1>2 DEF WithDefect
  <2>2. PICK p \in Spans(v, r, GivenTo(v, r)) : TRUE
    <3>1. Spans(v, r, GivenTo(v, r)) # {}
      BY DEF Spans
    <3>2. QED
      BY <3>1
  <2>3. PICK x \in SetsOf(SplitsOf[v]) : x.recording = r
    BY <2>1, <2>2, SetOfSpan DEF IsSet
  <2> DEFINE s == [recording |-> x.recording, split |-> x.split, from |-> x.from, to |-> x.to,
                   flags |-> Flags(x, SetsOf(SplitsOf[v]), Holders, catalogue)]
  <2>4. s \in sets
    BY DEF Validity, sets
  <2>5. s.recording = r
    BY <2>3
  <2> HIDE DEF s
  <2>6. QED
    BY <1>4, <2>1, <2>4, <2>5
<1>7. RecordingsOf(FlaggedIn(sets, kind)) = WithDefect(v, kind)
  BY <1>5, <1>6 DEF RecordingsOf, FlaggedIn
<1>8. QED
  BY <1>7 DEF sets

LEMMA CountedAsInjected ==
  ASSUME Assumptions, NEW v \in Versions, NEW run \in MatchRuns, NEW sets, NEW w,
         sets = Validity(SplitsOf[v], Holders, Catalogue(run)), CountsAgree(sets, w)
  PROVE  AsInjected(sets, w)
<1>1. IsFiniteSet(sets)
  BY ValiditySound, SplitsOfSound, OwnershipSplitsSound DEF SetsSound, SplitsOf
<1>2. \A kind : /\ IsFiniteSet(FlaggedIn(sets, kind))
                /\ IsFiniteSet(RecordingsOf(FlaggedIn(sets, kind)))
                /\ (\A a, b \in FlaggedIn(sets, kind) : a.recording = b.recording => a = b)
                     => Cardinality(RecordingsOf(FlaggedIn(sets, kind)))
                          = Cardinality(FlaggedIn(sets, kind))
  <2>1. TAKE kind
  <2> DEFINE S == FlaggedIn(sets, kind)
             R == RecordingsOf(S)
             f == [s \in S |-> s.recording]
  <2>2. IsFiniteSet(S)
    BY <1>1, FS_Subset DEF FlaggedIn
  <2>3. f \in Surjection(S, R)
    BY DEF RecordingsOf, Surjection
  <2>4. (\A a, b \in S : a.recording = b.recording => a = b) => f \in Injection(S, R)
    BY DEF RecordingsOf, Injection, IsInjective
  <2> HIDE DEF S, R, f
  <2>5. QED
    BY <2>2, <2>3, <2>4, FS_Surjection DEF S, R
<1>3. RecordingsOf(FlaggedIn(sets, "orphan_recording_mbid")) = Orphans
  <2> DEFINE R == RecordingsOf(FlaggedIn(sets, "orphan_recording_mbid"))
  <2>1. Catalogue(run) \cap Orphans = {}
    BY DEF Assumptions, RightsAssumption
  <2>2. Orphans \in SUBSET R
    BY <2>1, OrphansFlagged
  <2>3. IsFiniteSet(R) /\ Cardinality(R) = Cardinality(Orphans)
    BY <1>2 DEF CountsAgree
  <2> HIDE DEF R
  <2>4. R = Orphans
    BY <2>2, <2>3, FS_Subset
  <2>5. QED
    BY <2>4 DEF R
<1>4. ASSUME NEW kind \in Kinds
      PROVE  Cardinality(RecordingsOf(FlaggedIn(sets, kind))) = Cardinality(WithDefect(w, kind))
  <2>1. CASE kind \in {"temporal_overlap", "temporal_gap"}
    BY <2>1 DEF CountsAgree
  <2>2. CASE kind \notin {"temporal_overlap", "temporal_gap"}
    <3>1. kind \in {"shares_do_not_sum_to_100", "invalid_interval", "missing_rights_holder"}
      BY <2>2, KindsAre
    <3>2. \A a, b \in FlaggedIn(sets, kind) : a.recording = b.recording => a = b
      BY <3>1, OneSetEach DEF FlaggedIn
    <3>3. Cardinality(RecordingsOf(FlaggedIn(sets, kind))) = Cardinality(FlaggedIn(sets, kind))
      BY <1>2, <3>2
    <3>4. QED
      BY <2>2, <3>3 DEF CountsAgree
  <2>3. QED
    BY <2>1, <2>2
<1>5. ASSUME NEW kind \in Kinds, NEW s \in sets
      PROVE  RecordingsOf(FlaggedIn(sets, kind)) = WithDefect(VersionOf(s), kind)
  <2>1. Judged(s, v, Catalogue(run))
    BY ValidityJudges
  <2>2. VersionOf(s) = v
    BY <2>1, VersionFound DEF Judged
  <2>3. QED
    BY <2>2, RecordingsAsGiven
<1>6. QED
  BY <1>3, <1>4, <1>5 DEF AsInjected

\* Of no sets, nothing is counted: then nothing was injected.
LEMMA DerivedAsInjected ==
  ASSUME Assumptions, NEW sets, NEW w, DerivedSets(sets), CountsAgree(sets, w)
  PROVE  AsInjected(sets, w)
<1>1. CASE sets = {}
  <2>1. \A kind : FlaggedIn(sets, kind) = {} /\ RecordingsOf(FlaggedIn(sets, kind)) = {}
    BY <1>1 DEF FlaggedIn, RecordingsOf
  <2>2. Cardinality({}) = 0 /\ (Cardinality(Orphans) = 0 => Orphans = {})
    BY FS_EmptySet DEF Assumptions, RightsModelAssumption
  <2>3. QED
    BY <1>1, <2>1, <2>2 DEF CountsAgree, AsInjected
<1>2. CASE \E v \in Versions, run \in MatchRuns :
             sets = Validity(SplitsOf[v], Holders, Catalogue(run))
  BY <1>2, CountedAsInjected
<1>3. QED
  BY <1>1, <1>2 DEF DerivedSets

\* While the layer is verified the sets stay as they were read.
ClearingSound ==
  /\ BuilderAt("detect") \/ BuilderAt("holders") => DerivedSets(validity)
  /\ BuilderAt("detect") => {"agrees", "version"} \subseteq DOMAIN builder
  /\ BuilderAt("holders") /\ builder.agrees => CountsAgree(validity, builder.version)

ClearedInvariant == FoundInvariant /\ ClearingSound

\* Detect compares exactly the counts.
LEMMA AgreesCounts ==
  Agrees => CountsAgree(validity, builder.version)
<1>1. SUFFICES ASSUME Agrees
               PROVE  CountsAgree(validity, builder.version)
  OBVIOUS
<1>2. "orphan_recording_mbid" \notin Kinds
  BY KindsAre
<1>3. \A kind : /\ Flagged(kind) = FlaggedIn(validity, kind)
                /\ {s.recording : s \in Flagged(kind)} = RecordingsOf(FlaggedIn(validity, kind))
  BY DEF Flagged, FlaggedIn, RecordingsOf
<1>4. \A v : /\ Injected("orphan_recording_mbid", v) = Cardinality(Orphans)
             /\ \A kind \in Kinds : Injected(kind, v) = Cardinality(WithDefect(v, kind))
  BY <1>2, KindsAre DEF Injected
<1>5. /\ Cardinality(Orphans) = Detected("orphan_recording_mbid")
      /\ \A kind \in Kinds : Cardinality(WithDefect(builder.version, kind)) = Detected(kind)
  BY <1>1, <1>4 DEF Agrees
<1>6. QED
  BY <1>2, <1>3, <1>5 DEF CountsAgree, Detected

LEMMA VerifyingStays ==
  ASSUME Typed, [Next]_vars, ~StartVerify, ~Detect
  PROVE  \A at \in {"detect", "holders"} :
           BuilderAt(at)' => builder' = builder /\ UNCHANGED validity
<1>1. CASE Dbt
  <2>1. CASE StartBuild
    BY <2>1 DEF StartBuild, BuilderAt
  <2>2. CASE BuildFact
    BY <2>2 DEF BuildFact, BuilderAt
  <2>3. CASE BuildValidity \/ BuildEligibility \/ BuildResolution \/ BuildDisposition
             \/ BuildStreams
    <3>1. PICK next \in {"eligibility", "resolution", "disposition", "streams", "fact"} :
            builder # Idle /\ Then(next)
      BY <2>3 DEF BuildValidity, BuildEligibility, BuildResolution, BuildDisposition,
         BuildStreams, Building
    <3>2. QED
      BY <3>1, ThenWalks
  <2>4. QED
    BY <1>1, <2>1, <2>2, <2>3 DEF Dbt
<1>2. CASE StartPublish
  BY <1>2 DEF StartPublish, BuilderAt
<1>3. CASE Reconcile
  BY <1>3 DEF Reconcile, BuilderAt
<1>4. CASE Land \/ Happen \/ UNCHANGED vars
  <2>1. builder' \in {builder, Idle} /\ UNCHANGED validity
    BY <1>4 DEF Land, StartLanding, LoadStaging, InsertFromStaging, DropStaging, WriteReport,
       Happen, EditConfig, Rematch, KillLander, KillBuilder, vars, derived
  <2>2. QED
    BY <2>1 DEF BuilderAt
<1>5. QED
  BY <1>1, <1>2, <1>3, <1>4 DEF Next, Clear

LEMMA ClearedStep ==
  ASSUME Assumptions, ClearedInvariant, [Next]_vars
  PROVE  ClearedInvariant'
<1>1. FoundInvariant' /\ Typed
  BY FoundStep
     DEF ClearedInvariant, FoundInvariant, PaidInvariant, GatesInvariant, LandingInvariant
<1>2. CASE StartVerify
  <2>1. PICK agrees : builder' = [at |-> "detect", version |-> report, agrees |-> agrees]
    BY <1>2 DEF StartVerify
  <2>2. builder'.at = "detect" /\ {"agrees", "version"} \subseteq DOMAIN builder'
    BY <2>1
  <2>3. UNCHANGED validity /\ DerivedSets(validity)
    BY <1>2 DEF StartVerify, derived, ClearedInvariant, FoundInvariant
  <2>4. QED
    BY <1>1, <2>2, <2>3 DEF ClearedInvariant, ClearingSound, BuilderAt
<1>3. CASE Detect
  <2>1. /\ BuilderAt("detect") /\ UNCHANGED validity
        /\ builder' = [builder EXCEPT !.at = "holders", !.agrees = builder.agrees /\ Agrees]
    BY <1>3 DEF Detect, Building, BuilderAt, derived
  <2>2. {"at", "agrees", "version"} \subseteq DOMAIN builder /\ DerivedSets(validity)
    BY <1>1, <2>1 DEF ClearedInvariant, ClearingSound, Typed, BuilderTyped, BuilderAt
  <2> DEFINE both == builder.agrees /\ Agrees
  <2>3. both => CountsAgree(validity, builder.version)
    BY AgreesCounts
  <2>4. builder' = [builder EXCEPT !.at = "holders", !.agrees = both]
    BY <2>1
  <2> HIDE DEF both
  <2>5. builder'.at = "holders" /\ builder'.agrees = both /\ builder'.version = builder.version
    BY <2>2, <2>4
  <2>6. QED
    BY <1>1, <2>1, <2>2, <2>3, <2>5 DEF ClearedInvariant, ClearingSound, BuilderAt
<1>4. CASE ~StartVerify /\ ~Detect
  <2>1. \A at \in {"detect", "holders"} :
          BuilderAt(at)' => builder' = builder /\ UNCHANGED validity
    BY <1>1, <1>4, VerifyingStays
  <2>2. QED
    BY <1>1, <2>1 DEF ClearedInvariant, ClearingSound, BuilderAt
<1>5. QED
  BY <1>2, <1>3, <1>4

LEMMA ClearedInit ==
  ASSUME Assumptions, Init
  PROVE  ClearedInvariant
BY FoundInit DEF Init, ClearedInvariant, ClearingSound, BuilderAt

LEMMA ClearingClears ==
  ASSUME Assumptions, ClearedInvariant, [Next]_vars, verdict = "none", verdict' = "cleared"
  PROVE  AsInjected(validity, builder.version)
<1>1. Reconcile
  BY DEF Next, Land, StartLanding, LoadStaging, InsertFromStaging, DropStaging, WriteReport,
     Dbt, StartBuild, BuildValidity, BuildEligibility, BuildResolution, BuildDisposition,
     BuildStreams, BuildFact, UntouchedByDbt, StartPublish, Clear, StartVerify, Detect,
     Happen, EditConfig, Rematch, KillLander, KillBuilder, vars
<1>2. BuilderAt("holders") /\ builder.agrees
  BY <1>1 DEF Reconcile, Building, BuilderAt
<1>3. QED
  BY <1>2, DerivedAsInjected DEF ClearedInvariant, ClearingSound

\* When verify_rights clears the layer, what the quality layer flagged is what was injected:
\* exactly the orphans, and of each defect exactly the recordings the generation of the sets
\* gave it to, as many as the report says, though the gate compares only counts, the report
\* may be of another generation than the sets, with other quotas, and the catalogue of another
\* match run (verify_rights.py:396). It holds of every rights model.
THEOREM ClearingIsAsInjected == Spec => ClearedIsAsInjected
<1>1. Init => ClearedInvariant
  BY ClearedInit, RightsModelAssumption, RightsAssumption, NullAssumption DEF Assumptions
<1>2. ClearedInvariant /\ [Next]_vars => ClearedInvariant'
  BY ClearedStep, RightsModelAssumption, RightsAssumption, NullAssumption DEF Assumptions
<1>3. ClearedInvariant /\ [Next]_vars /\ verdict = "none" /\ verdict' = "cleared"
        => /\ {s.recording : s \in Flagged("orphan_recording_mbid")} = Orphans
           /\ \A kind \in Kinds :
                LET found == {s.recording : s \in Flagged(kind)} IN
                /\ Cardinality(found) = Injected(kind, builder.version)
                /\ \A s \in validity : found = WithDefect(VersionOf(s), kind)
  <2>1. SUFFICES ASSUME ClearedInvariant, [Next]_vars, verdict = "none", verdict' = "cleared"
                 PROVE  /\ {s.recording : s \in Flagged("orphan_recording_mbid")} = Orphans
                        /\ \A kind \in Kinds :
                             LET found == {s.recording : s \in Flagged(kind)} IN
                             /\ Cardinality(found) = Injected(kind, builder.version)
                             /\ \A s \in validity : found = WithDefect(VersionOf(s), kind)
    OBVIOUS
  <2>2. AsInjected(validity, builder.version)
    BY <2>1, ClearingClears, RightsModelAssumption, RightsAssumption, NullAssumption
       DEF Assumptions
  <2>3. \A kind : {s.recording : s \in Flagged(kind)} = RecordingsOf(FlaggedIn(validity, kind))
    BY DEF Flagged, FlaggedIn, RecordingsOf
  <2>4. \A kind \in Kinds : Injected(kind, builder.version)
                             = Cardinality(WithDefect(builder.version, kind))
    BY KindsAre DEF Injected
  <2>5. QED
    BY <2>2, <2>3, <2>4 DEF AsInjected
<1>4. QED
  BY <1>1, <1>2, <1>3, PTL DEF Spec, ClearedIsAsInjected

=============================================================================

------------------------- MODULE PublicationProofs -------------------------
(***************************************************************************)
(* What a publication, the registry, the delta mart and the CURRENT        *)
(* pointer may rely on, for every value of the constants.  With any number *)
(* of sessions: every variable has its type, what was registered is in the *)
(* fact, the registry only grows, every set of changes compares what was   *)
(* published, and CURRENT names rows.  With one session at a time: nothing *)
(* is added to what was published, replaced or restamped, the digest of a  *)
(* frozen entry is of its rows, publishing again is validation, a          *)
(* promotion that is reported is in force, the programs implement the      *)
(* ledger of module PublicationLedger, a registered restatement reconciles *)
(* with the delta mart, and is priced from matches of its version.         *)
(***************************************************************************)
EXTENDS Publication, TLAPS

-----------------------------------------------------------------------------
(* Type correctness *)

\* A session without a program is well-typed.
LEMMA IdleType ==
  ASSUME NEW outcome \in Outcomes
  PROVE  Idle(outcome) \in SessionStates
BY RunsAssumption, SessionsAssumption
   DEF Idle, NoCommand, Commands, Flags, SessionStates, Steps, PublishSteps, FreezeSteps,
       RestateSteps, DbtSteps, Contents, Changes, Publications, Unpublished

\* The ways a step moves its session along keep the sessions well-typed: going to
\* the next step,
LEMMA GotoType ==
  ASSUME session \in [Sessions -> SessionStates], NEW s \in Sessions,
         NEW pc \in Steps, Goto(s, pc)
  PROVE  session' \in [Sessions -> SessionStates]
BY DEF Goto, SessionStates

\* ... so does ending the program, whatever the outcome,
LEMMA StopType ==
  ASSUME session \in [Sessions -> SessionStates], NEW s \in Sessions,
         NEW outcome \in Outcomes, Stop(s, outcome)
  PROVE  session' \in [Sessions -> SessionStates]
BY IdleType DEF Stop

\* ... entering dbt,
LEMMA CallDbtType ==
  ASSUME session \in [Sessions -> SessionStates], NEW s \in Sessions,
         NEW first \in Steps, NEW then \in Steps, CallDbt(s, first, then)
  PROVE  session' \in [Sessions -> SessionStates]
BY DEF CallDbt, SessionStates

\* ... and starting a program.
LEMMA BeginType ==
  ASSUME session \in [Sessions -> SessionStates], NEW s \in Sessions,
         NEW cmd \in Commands, NEW pc \in Steps, Begin(s, cmd, pc)
  PROVE  session' \in [Sessions -> SessionStates]
<1>1. Idle("none") \in SessionStates
  BY IdleType DEF Outcomes
<1>2. [Idle("none") EXCEPT !.cmd = cmd, !.pc = pc] \in SessionStates
  BY <1>1 DEF SessionStates
<1> QED BY <1>2 DEF Begin

\* What each dbt model writes is well-typed.
LEMMA LayerType ==
  ASSUME LayerTypeOK
  PROVE  /\ restated # NoTable /\ BuildEligibility => derived' \in DerivedTables
         /\ BuildResolution => derived' \in DerivedTables
         /\ BuildDisposition => derived' \in DerivedTables
         /\ BuildStreams => derived' \in DerivedTables
<1> USE DEF LayerTypeOK, DerivedTables
<1>1. restated # NoTable /\ BuildEligibility => derived' \in DerivedTables
  BY DEF BuildEligibility
<1>2. BuildResolution => derived' \in DerivedTables
  BY DEF BuildResolution
<1>3. BuildDisposition => derived' \in DerivedTables
  BY DEF BuildDisposition, Statements
<1>4. BuildStreams => derived' \in DerivedTables
  BY DEF BuildStreams
<1> QED BY <1>1, <1>2, <1>3, <1>4

\* The temporary relation of the fact holds statements.
LEMMA SelectAttributionType ==
  ASSUME LayerTypeOK, NEW run \in Runs
  PROVE  SelectAttribution(run) \in Contents
BY DEF LayerTypeOK, DerivedTables, SelectAttribution, Priced, Contents

\* Merging statements under a run id leaves publications.
LEMMA MergeAttributionType ==
  ASSUME LayerTypeOK, NEW run \in Runs, NEW rows \in Contents, MergeAttribution(run, rows)
  PROVE  fact' \in [Runs -> Publications]
<1>1. fact[run] \in Publications
  BY DEF LayerTypeOK
<1>2. [content |-> fact[run].content \cup rows, stamp |-> fact[run].stamp + 1] \in Publications
  BY <1>1 DEF Publications, Contents
<1> QED BY <1>2 DEF LayerTypeOK, MergeAttribution

\* The temporary relation of the delta mart holds sets of changes.
LEMMA SelectRestatementType ==
  ASSUME LayerTypeOK, NEW run \in Runs, NEW rid \in RestatementIds
  PROVE  SelectRestatement(run, rid) \in SUBSET Changes
<1>1. /\ fact[run].content \in Contents
      /\ fact[PriorRun].content \in Contents
  BY RunsAssumption DEF LayerTypeOK, Publications
<1> QED BY <1>1 DEF SelectRestatement, Changes

\* Every dbt model and test, in any session, keeps the types.
LEMMA DbtType ==
  ASSUME TypeOK, NEW s \in Sessions, Dbt(s)
  PROVE  TypeOK'
<1> USE DEF TypeOK
<1>s. /\ session[s] \in SessionStates
      /\ Run(s) \in Runs
      /\ Rid(s) \in RestatementIds
  BY DEF SessionStates, Commands, Run, Rid
<1>t. {"idle", "resolution", "disposition", "streams", "select_fact", "merge_fact",
       "compare", "select_delta", "merge_delta", "reconciliation", "verify"} \subseteq Steps
  BY DEF Steps, DbtSteps, PublishSteps
<1>o. {"done", "refused"} \subseteq Outcomes
  BY DEF Outcomes
<1>1. CASE Eligibility(s)
  BY <1>1, <1>s, <1>t, <1>o, GotoType, StopType, LayerType
     DEF Eligibility, LayerTypeOK, pubVars
<1>2. CASE Resolution(s)
  BY <1>2, <1>s, <1>t, GotoType, LayerType DEF Resolution, LayerTypeOK, pubVars
<1>3. CASE Disposition(s)
  BY <1>3, <1>s, <1>t, GotoType, LayerType DEF Disposition, LayerTypeOK, pubVars
<1>4. CASE Streams(s)
  BY <1>4, <1>s, <1>t, GotoType, LayerType DEF Streams, LayerTypeOK, pubVars
<1>5. CASE SelectFact(s)
  <2>1. session' \in [Sessions -> SessionStates]
    BY <1>5, <1>s, <1>t, SelectAttributionType DEF SelectFact, SessionStates
  <2> QED BY <1>5, <2>1 DEF SelectFact, LayerTypeOK, layerVars, pubVars
<1>6. CASE MergeFact(s)
  <2>1. session[s].rows \in Contents
    BY <1>s DEF SessionStates
  <2>2. fact' \in [Runs -> Publications]
    BY <1>6, <1>s, <2>1, MergeAttributionType DEF MergeFact
  <2>3. session' \in [Sessions -> SessionStates]
    <3>1. (IF session[s].then = "compare" THEN "compare" ELSE "select_delta") \in Steps
      BY <1>t
    <3>2. {} \in Contents
      BY DEF Contents
    <3> QED BY <1>6, <1>s, <3>1, <3>2 DEF MergeFact, SessionStates
  <2> QED BY <1>6, <2>2, <2>3 DEF MergeFact, LayerTypeOK, pubVars
<1>7. CASE SelectDelta(s)
  <2>1. session' \in [Sessions -> SessionStates]
    <3>1. CASE session' = [session EXCEPT ![s].pc = "merge_delta",
                                          ![s].changes = SelectRestatement(Run(s), Rid(s))]
      BY <3>1, <1>s, <1>t, SelectRestatementType DEF SessionStates
    <3>2. CASE Stop(s, "refused")
      BY <3>2, <1>o, StopType
    <3> QED BY <1>7, <3>1, <3>2 DEF SelectDelta
  <2> QED BY <1>7, <2>1 DEF SelectDelta, LayerTypeOK, layerVars, pubVars
<1>8. CASE MergeDelta(s)
  <2>1. delta' \in [RestatementIds -> SUBSET Changes]
    BY <1>8, <1>s DEF MergeDelta, MergeRestatement, LayerTypeOK, SessionStates
  <2>2. session' \in [Sessions -> SessionStates]
    BY <1>8, <1>s, <1>t DEF MergeDelta, SessionStates
  <2> QED BY <1>8, <2>1, <2>2 DEF MergeDelta, LayerTypeOK, pubVars
<1>9. CASE Reconciliation(s)
  BY <1>9, <1>s, <1>t, <1>o, GotoType, StopType
     DEF Reconciliation, BuildReconciliation, LayerTypeOK, pubVars
<1>10. CASE Verify(s)
  <2>1. session[s].then \in Steps
    BY <1>s DEF SessionStates
  <2>2. session' \in [Sessions -> SessionStates]
    BY <1>10, <2>1, <1>o, GotoType, StopType DEF Verify, GotoIf
  <2> QED BY <1>10, <2>2 DEF Verify, LayerTypeOK, layerVars, pubVars
<1>11. CASE Test(s)
  BY <1>11, <1>o, StopType DEF Test, LayerTypeOK, layerVars, pubVars
<1> QED
  BY <1>1, <1>2, <1>3, <1>4, <1>5, <1>6, <1>7, <1>8, <1>9, <1>10, <1>11 DEF Dbt

\* Every step of publish.py keeps the types.
LEMMA PublishType ==
  ASSUME TypeOK, NEW s \in Sessions, Publish(s)
  PROVE  TypeOK'
<1> USE DEF TypeOK
<1>s. /\ session[s] \in SessionStates
      /\ Run(s) \in Runs
  BY DEF SessionStates, Commands, Run
<1>f. fact[Run(s)] \in Publications
  BY <1>s DEF LayerTypeOK
<1>t. {"existing", "registered", "promote", "ensure", "first", "point", "compare", "away",
       "back", "unharmed", "test", "disposition", "select_fact"} \subseteq Steps
  BY DEF Steps, DbtSteps, PublishSteps
<1>a. AfterRerun(s) \in Steps /\ AfterPoint(s) \in Steps
  BY <1>t DEF AfterRerun, AfterPoint
<1>o. {"done", "refused", "crashed"} \subseteq Outcomes
  BY DEF Outcomes
<1>1. CASE VerifyFrozenInputs(s)
  BY <1>1, <1>t, <1>o, GotoType, StopType
     DEF VerifyFrozenInputs, GotoIf, LayerTypeOK, layerVars, pubVars
<1>2. CASE ReadExisting(s)
  <2>1. session' \in [Sessions -> SessionStates]
    BY <1>2, <1>f, <1>t DEF ReadExisting, SessionStates
  <2> QED BY <1>2, <2>1 DEF ReadExisting, LayerTypeOK, layerVars, pubVars
<1>3. CASE CompareWithRegistry(s)
  <2>1. session' \in [Sessions -> SessionStates]
    BY <1>3, <1>t, <1>o, GotoType, StopType DEF CompareWithRegistry, GotoIf
  <2> QED BY <1>3, <2>1 DEF CompareWithRegistry, LayerTypeOK, layerVars, pubVars
<1>4. CASE Promote(s)
  BY <1>4, <1>s, <1>o, StopType DEF Promote, LayerTypeOK, layerVars
<1>5. CASE EnsurePointerTable(s)
  BY <1>5, <1>t, CallDbtType DEF EnsurePointerTable, LayerTypeOK, layerVars
<1>6. CASE ReadFirst(s)
  <2>1. session' \in [Sessions -> SessionStates]
    <3>1. CASE fact[Run(s)].content = {}
      BY <1>6, <3>1, <1>o, StopType DEF ReadFirst
    <3>2. CASE fact[Run(s)].content # {}
      <4>1. (IF Given(s, "move_pointer") THEN "point" ELSE AfterPoint(s)) \in Steps
        BY <1>t, <1>a
      <4> QED BY <1>6, <3>2, <4>1, <1>t, <1>f DEF ReadFirst, SessionStates
    <3> QED BY <3>1, <3>2
  <2> QED BY <1>6, <2>1 DEF ReadFirst, LayerTypeOK, layerVars, pubVars
<1>7. CASE Point(s)
  BY <1>7, <1>s, <1>a, <1>o, GotoType, StopType
     DEF Point, SetPointer, LayerTypeOK, layerVars
<1>8. CASE CompareRerun(s)
  BY <1>8, <1>a, <1>o, GotoType, StopType
     DEF CompareRerun, GotoIf, LayerTypeOK, layerVars, pubVars
<1>9. CASE PointAway(s)
  <2>1. session' \in [Sessions -> SessionStates]
    BY <1>9, <1>f, <1>t DEF PointAway, SessionStates
  <2> QED BY <1>9, <2>1 DEF PointAway, LayerTypeOK, layerVars
<1>10. CASE PointBack(s)
  BY <1>10, <1>s, <1>t, <1>o, GotoType, StopType
     DEF PointBack, SetPointer, LayerTypeOK, layerVars
<1>11. CASE CompareUnharmed(s)
  BY <1>11, <1>t, <1>o, GotoType, StopType
     DEF CompareUnharmed, GotoIf, LayerTypeOK, layerVars, pubVars
<1> QED
  BY <1>1, <1>2, <1>3, <1>4, <1>5, <1>6, <1>7, <1>8, <1>9, <1>10, <1>11 DEF Publish

\* Every step of freeze_baseline.py keeps the types.
LEMMA FreezeType ==
  ASSUME TypeOK, NEW s \in Sessions, Freeze(s)
  PROVE  TypeOK'
<1> USE DEF TypeOK
<1>s. /\ session[s] \in SessionStates
      /\ session[s].made \in Publications
      /\ session[s].seen \in Publications
      /\ Run(s) \in Runs
  BY DEF SessionStates, Commands, Run
<1>f. fact[Run(s)] \in Publications
  BY <1>s DEF LayerTypeOK
<1>t. {"digest", "create", "register", "readback"} \subseteq Steps
  BY DEF Steps, FreezeSteps
<1>o. {"done", "refused"} \subseteq Outcomes
  BY DEF Outcomes
<1>1. CASE ReadIdentity(s)
  <2>1. session' \in [Sessions -> SessionStates]
    BY <1>1, <1>f, <1>t DEF ReadIdentity, SessionStates
  <2> QED BY <1>1, <2>1 DEF ReadIdentity, LayerTypeOK, layerVars, pubVars
<1>2. CASE ReadDigest(s)
  <2>1. session' \in [Sessions -> SessionStates]
    <3> DEFINE made == [content |-> fact[Run(s)].content, stamp |-> session[s].seen.stamp]
    <3>1. made \in Publications
      BY <1>f, <1>s DEF Publications
    <3>2. CASE session' = [session EXCEPT ![s].pc = "create", ![s].made = made]
      BY <3>1, <3>2, <1>t DEF SessionStates
    <3>3. CASE Stop(s, "refused")
      BY <3>3, <1>o, StopType
    <3> QED BY <1>2, <3>2, <3>3 DEF ReadDigest
  <2> QED BY <1>2, <2>1 DEF ReadDigest, LayerTypeOK, layerVars, pubVars
<1>3. CASE CreateRegistry(s)
  BY <1>3, <1>t, GotoType DEF CreateRegistry, LayerTypeOK, layerVars
<1>4. CASE RegisterBaseline(s)
  <2> DEFINE id == session[s].cmd.id
             entry == [run |-> Run(s), rid |-> NotGiven, norm |-> NormOf[silver],
                       rows |-> session[s].made, frozen |-> TRUE]
  <2>1. entry \in Entries
    BY <1>s, SessionsAssumption DEF Entries, LayerTypeOK
  <2>2. registry[id] \in Entries => [registry[id] EXCEPT !.frozen = FALSE] \in Entries
    BY DEF Entries
  <2>3. registry' \in [PublicationIds -> Entries \cup {NoEntry}]
    BY <1>4, <2>1, <2>2 DEF RegisterBaseline
  <2> QED BY <1>4, <1>t, <2>3, GotoType DEF RegisterBaseline, LayerTypeOK, layerVars
<1>5. CASE ReadBack(s)
  BY <1>5, <1>o, StopType DEF ReadBack, LayerTypeOK, layerVars, pubVars
<1> QED BY <1>1, <1>2, <1>3, <1>4, <1>5 DEF Freeze

\* Every step of publish_restatement.py keeps the types.
LEMMA RestateType ==
  ASSUME TypeOK, NEW s \in Sessions, Restate(s)
  PROVE  TypeOK'
<1> USE DEF TypeOK
<1>s. /\ session[s] \in SessionStates
      /\ session[s].made \in Publications
      /\ session[s].cmd \in Commands
      /\ Run(s) \in Runs
      /\ Rid(s) \in RestatementIds
  BY DEF SessionStates, Commands, Run, Rid
<1>f. fact[Run(s)] \in Publications
  BY <1>s DEF LayerTypeOK
<1>t. {"before", "matches", "identify", "after", "enter", "move", "test", "eligibility",
       "select_delta"} \subseteq Steps
  BY DEF Steps, RestateSteps, PublishSteps, DbtSteps
<1>o. {"refused", "crashed"} \subseteq Outcomes
  BY DEF Outcomes
<1>1. CASE ReadBaseline(s)
  <2>1. session' \in [Sessions -> SessionStates]
    <3>1. CASE /\ registry[PriorPublication] # NoEntry
               /\ session' = [session EXCEPT ![s].pc = "before",
                                             ![s].seen = registry[PriorPublication].rows]
      <4>1. registry[PriorPublication].rows \in Publications
        BY <3>1, SessionsAssumption DEF Entries
      <4> QED BY <3>1, <4>1, <1>t DEF SessionStates
    <3>2. CASE Stop(s, "refused")
      BY <3>2, <1>o, StopType
    <3> QED BY <1>1, <3>1, <3>2 DEF ReadBaseline
  <2> QED BY <1>1, <2>1 DEF ReadBaseline, LayerTypeOK, layerVars, pubVars
<1>2. CASE DigestBefore(s)
  BY <1>2, <1>t, <1>o, GotoType, StopType
     DEF DigestBefore, GotoIf, LayerTypeOK, layerVars, pubVars
<1>3. CASE VerifyRestatedMatches(s)
  BY <1>3, <1>t, <1>o, CallDbtType, StopType
     DEF VerifyRestatedMatches, LayerTypeOK, layerVars, pubVars
<1>4. CASE Identify(s)
  <2>1. session' \in [Sessions -> SessionStates]
    <3>1. CASE fact[Run(s)].content = {}
      BY <1>4, <3>1, <1>o, StopType DEF Identify
    <3>2. CASE fact[Run(s)].content # {}
      BY <1>4, <3>2, <1>t, <1>f DEF Identify, SessionStates
    <3> QED BY <3>1, <3>2
  <2> QED BY <1>4, <2>1 DEF Identify, LayerTypeOK, layerVars, pubVars
<1>5. CASE DigestAfter(s)
  BY <1>5, <1>t, <1>o, GotoType, StopType
     DEF DigestAfter, GotoIf, LayerTypeOK, layerVars, pubVars
<1>6. CASE RegisterRestatement(s)
  <2> DEFINE entry == [run |-> Run(s), rid |-> Rid(s), norm |-> session[s].cmd.norm,
                       rows |-> session[s].made, frozen |-> TRUE]
  <2>1. entry \in Entries
    BY <1>s DEF Entries, Commands
  <2>2. registry' \in [PublicationIds -> Entries \cup {NoEntry}]
    BY <1>6, <2>1 DEF RegisterRestatement
  <2> QED BY <1>6, <1>t, <2>2, GotoType DEF RegisterRestatement, LayerTypeOK, layerVars
<1>7. CASE MovePointer(s)
  BY <1>7, <1>s, <1>t, <1>o, GotoType, StopType
     DEF MovePointer, GotoIf, LayerTypeOK, layerVars
<1> QED BY <1>1, <1>2, <1>3, <1>4, <1>5, <1>6, <1>7 DEF Restate

\* Starting a program, or replacing a match table, keeps the types.
LEMMA StartType ==
  ASSUME TypeOK, NEW s \in Sessions, Start(s)
  PROVE  TypeOK'
<1> USE DEF TypeOK
<1>c. NoCommand \in Commands
  BY RunsAssumption, SessionsAssumption DEF NoCommand, Commands
<1>t. {"inputs", "identity", "baseline", "eligibility"} \subseteq Steps
  BY DEF Steps, PublishSteps, FreezeSteps, RestateSteps, DbtSteps
<1>1. CASE StartPublish(s)
  <2>1. PICK run \in {PriorRun, RehearsalRun},
             flags \in SUBSET {"move_pointer", "prove_idempotency", "prove_pointer_move"} :
          Begin(s, [NoCommand EXCEPT !.name = "publish", !.run = run, !.flags = flags],
                "inputs")
    BY <1>1 DEF StartPublish
  <2>2. [NoCommand EXCEPT !.name = "publish", !.run = run, !.flags = flags] \in Commands
    BY RunsAssumption, SessionsAssumption DEF NoCommand, Commands, Flags
  <2> QED BY <1>1, <1>t, <2>1, <2>2, BeginType DEF StartPublish, LayerTypeOK, layerVars, pubVars
<1>2. CASE StartFreeze(s)
  <2>1. PICK id \in FreezeIds :
          Begin(s, [NoCommand EXCEPT !.name = "freeze", !.run = PriorRun, !.id = id],
                "identity")
    BY <1>2 DEF StartFreeze
  <2>2. [NoCommand EXCEPT !.name = "freeze", !.run = PriorRun, !.id = id] \in Commands
    BY RunsAssumption, SessionsAssumption DEF NoCommand, Commands
  <2> QED BY <1>2, <1>t, <2>1, <2>2, BeginType DEF StartFreeze, LayerTypeOK, layerVars, pubVars
<1>3. CASE StartRestate(s)
  <2>1. PICK args \in RestateArgs, flags \in SUBSET {"allow_new_publication"} :
          Begin(s, [name |-> "restate", run |-> NewRun[args], rid |-> args.rid,
                    norm |-> args.norm, id |-> NewPublication, flags |-> flags],
                "baseline")
    BY <1>3 DEF StartRestate
  <2>2. [name |-> "restate", run |-> NewRun[args], rid |-> args.rid, norm |-> args.norm,
         id |-> NewPublication, flags |-> flags] \in Commands
    BY SessionsAssumption DEF Commands, Flags
  <2> QED BY <1>3, <1>t, <2>1, <2>2, BeginType DEF StartRestate, LayerTypeOK, layerVars, pubVars
<1>4. CASE StartBuild(s)
  <2>1. [NoCommand EXCEPT !.name = "build", !.run = PublishedRestatement] \in Commands
    BY RunsAssumption, SessionsAssumption DEF NoCommand, Commands
  <2> QED BY <1>4, <1>t, <2>1, BeginType DEF StartBuild, LayerTypeOK, layerVars, pubVars
<1>5. CASE Rematch(s)
  BY <1>5, SessionsAssumption DEF Rematch, LayerTypeOK, pubVars
<1>6. CASE Reprocess(s)
  BY <1>6, SessionsAssumption DEF Reprocess, LayerTypeOK, pubVars
<1> QED BY <1>1, <1>2, <1>3, <1>4, <1>5, <1>6 DEF Start

\* The warehouse starts well-typed.
LEMMA InitType == Init => TypeOK
<1> SUFFICES ASSUME Init PROVE TypeOK
  OBVIOUS
<1>u. PolicyUniverse \in Universes
  BY SessionsAssumption
<1>1. silver \in Universes /\ restated \in Universes \cup {NoTable} /\ derived \in DerivedTables
  BY <1>u DEF Init, DerivedTables, Statements
<1>2. fact \in [Runs -> Publications]
  BY <1>u DEF Init, Publications, Contents, Statements, Unpublished
<1>3. delta \in [RestatementIds -> SUBSET Changes] /\ recon \in {"absent", "exact", "inexact"}
  BY DEF Init
<1>4. session \in [Sessions -> SessionStates]
  BY IdleType DEF Init, Outcomes
<1>5. /\ hasRegistry \in BOOLEAN
      /\ registry \in [PublicationIds -> Entries \cup {NoEntry}]
      /\ pointer \in Runs \cup {Parked, NoRow, NoTable}
  BY SessionsAssumption DEF Init
<1> QED BY <1>1, <1>2, <1>3, <1>4, <1>5 DEF TypeOK, LayerTypeOK

\* A killed program leaves well-typed tables, and every other step does.
LEMMA StepType == TypeOK /\ [Next]_vars => TypeOK'
<1> SUFFICES ASSUME TypeOK, [Next]_vars PROVE TypeOK'
  OBVIOUS
<1>1. ASSUME NEW s \in Sessions, Start(s) PROVE TypeOK'
  BY <1>1, StartType
<1>2. ASSUME NEW s \in Sessions, Continue(s) PROVE TypeOK'
  BY <1>2, DbtType, PublishType, FreezeType, RestateType DEF Continue
<1>3. ASSUME NEW s \in Sessions, Abort(s) PROVE TypeOK'
  BY <1>3, StopType DEF Abort, TypeOK, LayerTypeOK, Outcomes, layerVars, pubVars
<1>4. CASE UNCHANGED vars
  BY <1>4 DEF vars, layerVars, pubVars, TypeOK, LayerTypeOK
<1> QED BY <1>1, <1>2, <1>3, <1>4 DEF Next

\* Whatever the sessions do, in any order, and wherever they are killed, the
\* tables, the registry, the pointer and the programs keep their types.
THEOREM TypeCorrect == Spec => []TypeOK
<1> QED BY InitType, StepType, PTL DEF Spec

-----------------------------------------------------------------------------
(* The fact only accumulates *)

FactGrows == \A run \in Runs : fact[run].content \subseteq fact'[run].content

\* A step either leaves the fact alone or merges the temporary relation of its
\* session: there is no other writer.
LEMMA OnlyMergeWritesTheFact ==
  ASSUME TypeOK, NEW s \in Sessions, Start(s) \/ Continue(s) \/ Abort(s), ~MergeFact(s)
  PROVE  fact' = fact
<1>1. CASE Start(s)
  BY <1>1 DEF Start, StartPublish, StartFreeze, StartRestate, StartBuild, Rematch, Reprocess,
              layerVars
<1>2. CASE Dbt(s)
  BY <1>2 DEF Dbt, Eligibility, Resolution, Disposition, Streams, SelectFact, SelectDelta,
              MergeDelta, Reconciliation, Verify, Test, layerVars
<1>3. CASE Publish(s)
  BY <1>3 DEF Publish, VerifyFrozenInputs, ReadExisting, CompareWithRegistry, Promote,
              EnsurePointerTable, ReadFirst, Point, CompareRerun, PointAway, PointBack,
              CompareUnharmed, SetPointer, layerVars
<1>4. CASE Freeze(s)
  BY <1>4 DEF Freeze, ReadIdentity, ReadDigest, CreateRegistry, RegisterBaseline, ReadBack,
              layerVars
<1>5. CASE Restate(s)
  BY <1>5 DEF Restate, ReadBaseline, DigestBefore, VerifyRestatedMatches, Identify,
              DigestAfter, RegisterRestatement, MovePointer, layerVars
<1>6. CASE Abort(s)
  BY <1>6 DEF Abort, layerVars
<1> QED BY <1>1, <1>2, <1>3, <1>4, <1>5, <1>6 DEF Continue

\* The merge has no delete branch: rows that stand under a run id stay there.
LEMMA RowsStay ==
  ASSUME TypeOK, [Next]_vars
  PROVE  FactGrows
<1>1. ASSUME NEW s \in Sessions, MergeFact(s)
      PROVE  FactGrows
  <2>1. fact \in [Runs -> Publications] /\ Run(s) \in Runs
    BY DEF TypeOK, LayerTypeOK, SessionStates, Commands, Run
  <2>2. MergeAttribution(Run(s), session[s].rows)
    BY <1>1 DEF MergeFact
  <2> QED BY <2>1, <2>2 DEF MergeAttribution, FactGrows, Publications
<1>2. ASSUME fact' = fact
      PROVE  FactGrows
  BY <1>2 DEF FactGrows
<1>3. CASE UNCHANGED vars
  BY <1>2, <1>3 DEF vars, layerVars
<1> QED BY <1>1, <1>2, <1>3, OnlyMergeWritesTheFact DEF Next

-----------------------------------------------------------------------------
(* What a program has read to register *)

\* The steps at which a program holds an identity it is about to register.
Registering == {"create", "register", "after", "enter"}

\* What a program read to register has not left the fact, and it is there
\* whenever the program can reach the registry with it: the freezer from its
\* digest on, the restater from v2's identity on, across the dbt run between.
Holding(x) ==
  /\ x.then \in {"idle", "first", "identify", "compare", "after"}
  /\ x.made.content \subseteq fact[x.cmd.run].content
  /\ x.pc \in {"create", "register"} \/ x.then = "after" => x.made.content # {}
  /\ x.pc \in {"after", "enter"} => x.then = "after"

Backed == RegisteredIsBacked /\ \A s \in Sessions : Holding(session[s])

\* A session that goes to a step at which nothing is registered holds what it held,
LEMMA GotoHolds ==
  ASSUME TypeOK, NEW s \in Sessions, Holding(session[s]), FactGrows,
         NEW pc \in Steps \ Registering, Goto(s, pc)
  PROVE  Holding(session[s])'
<1>1. session'[s] = [session[s] EXCEPT !.pc = pc] /\ session[s] \in SessionStates
  BY DEF Goto, TypeOK
<1>2. session[s].cmd.run \in Runs
  BY <1>1 DEF SessionStates, Commands
<1> QED BY <1>1, <1>2 DEF Holding, FactGrows, Registering, SessionStates

\* ... and one that ends its program holds nothing.
LEMMA IdleHolds ==
  ASSUME TypeOK, NEW s \in Sessions, NEW outcome \in Outcomes, Stop(s, outcome)
  PROVE  Holding(session[s])'
<1>1. session'[s] = Idle(outcome)
  BY DEF Stop, TypeOK
<1> QED BY <1>1 DEF Holding, Idle, Unpublished

\* What a step of dbt does to what its session holds.
LEMMA DbtHolds ==
  ASSUME TypeOK, NEW s \in Sessions, Holding(session[s]), FactGrows, Dbt(s)
  PROVE  Holding(session[s])'
<1> DEFINE x == session[s]
<1>s. /\ session \in [Sessions -> SessionStates]
      /\ x \in SessionStates
      /\ x.cmd.run \in Runs
  BY DEF TypeOK, SessionStates, Commands
<1>t. {"resolution", "disposition", "streams", "select_fact", "merge_fact", "compare",
       "select_delta", "merge_delta", "reconciliation", "verify"} \subseteq Steps \ Registering
  BY DEF Steps, DbtSteps, PublishSteps, Registering
<1>o. {"done", "refused"} \subseteq Outcomes
  BY DEF Outcomes
\* A record that differs in its step and its temporary relations.
<1>k. ASSUME NEW pc \in Steps \ Registering, session'[s].cmd = x.cmd, session'[s].then = x.then,
             session'[s].made = x.made, session'[s].pc = pc
      PROVE  Holding(session[s])'
  BY <1>k, <1>s DEF Holding, FactGrows, Registering
<1>1. CASE Eligibility(s)
  BY <1>1, <1>t, <1>o, GotoHolds, IdleHolds DEF Eligibility
<1>2. CASE Resolution(s)
  BY <1>2, <1>t, GotoHolds DEF Resolution
<1>3. CASE Disposition(s)
  BY <1>3, <1>t, GotoHolds DEF Disposition
<1>4. CASE Streams(s)
  BY <1>4, <1>t, GotoHolds DEF Streams
<1>5. CASE SelectFact(s)
  <2>1. session'[s] = [x EXCEPT !.pc = "merge_fact", !.rows = SelectAttribution(Run(s))]
    BY <1>5, <1>s DEF SelectFact
  <2> QED BY <2>1, <1>s, <1>t, <1>k DEF SessionStates
<1>6. CASE MergeFact(s)
  <2> DEFINE pc == IF x.then = "compare" THEN "compare" ELSE "select_delta"
  <2>1. session'[s] = [x EXCEPT !.rows = {}, !.pc = pc]
    BY <1>6, <1>s DEF MergeFact
  <2>2. pc \in Steps \ Registering
    BY <1>t
  <2> HIDE DEF pc
  <2> QED BY <2>1, <2>2, <1>s, <1>k DEF SessionStates
<1>7. CASE SelectDelta(s)
  <2>1. CASE session' = [session EXCEPT ![s].pc = "merge_delta",
                                        ![s].changes = SelectRestatement(Run(s), Rid(s))]
    <3>1. session'[s] = [x EXCEPT !.pc = "merge_delta",
                                  !.changes = SelectRestatement(Run(s), Rid(s))]
      BY <2>1, <1>s
    <3> QED BY <3>1, <1>s, <1>t, <1>k DEF SessionStates
  <2>2. CASE Stop(s, "refused")
    BY <2>2, <1>o, IdleHolds
  <2> QED BY <1>7, <2>1, <2>2 DEF SelectDelta
<1>8. CASE MergeDelta(s)
  <2>1. session'[s] = [x EXCEPT !.changes = {}, !.pc = "reconciliation"]
    BY <1>8, <1>s DEF MergeDelta
  <2> QED BY <2>1, <1>s, <1>t, <1>k DEF SessionStates
<1>9. CASE Reconciliation(s)
  BY <1>9, <1>t, <1>o, GotoHolds, IdleHolds DEF Reconciliation
<1>10. CASE Verify(s)
  <2>1. CASE Goto(s, x.then)
    <3>1. session'[s] = [x EXCEPT !.pc = x.then]
      BY <2>1, <1>s DEF Goto
    <3> QED BY <3>1, <1>s DEF Holding, FactGrows, SessionStates
  <2>2. CASE \E outcome \in Outcomes : Stop(s, outcome)
    BY <2>2, IdleHolds
  <2> QED BY <1>10, <1>o, <2>1, <2>2 DEF Verify, GotoIf
<1>11. CASE Test(s)
  BY <1>11, <1>o, IdleHolds DEF Test
<1> QED
  BY <1>1, <1>2, <1>3, <1>4, <1>5, <1>6, <1>7, <1>8, <1>9, <1>10, <1>11 DEF Dbt

\* The publisher holds nothing to register: it only validates.
LEMMA PublishHolds ==
  ASSUME TypeOK, NEW s \in Sessions, Holding(session[s]), FactGrows, Publish(s)
  PROVE  Holding(session[s])'
<1> DEFINE x == session[s]
<1>s. /\ session \in [Sessions -> SessionStates]
      /\ x \in SessionStates
      /\ x.cmd.run \in Runs
  BY DEF TypeOK, SessionStates, Commands
<1>t. {"existing", "registered", "promote", "ensure", "first", "point", "compare", "away",
       "back", "unharmed", "test", "disposition", "select_fact"} \subseteq Steps \ Registering
  BY DEF Steps, DbtSteps, PublishSteps, Registering
<1>a. AfterRerun(s) \in Steps \ Registering /\ AfterPoint(s) \in Steps \ Registering
  BY <1>t DEF AfterRerun, AfterPoint
<1>o. {"done", "refused", "crashed"} \subseteq Outcomes
  BY DEF Outcomes
<1>k. ASSUME NEW pc \in Steps \ Registering, session'[s].cmd = x.cmd,
             session'[s].then = x.then, session'[s].made = x.made, session'[s].pc = pc
      PROVE  Holding(session[s])'
  BY <1>k, <1>s DEF Holding, FactGrows, Registering
<1>1. CASE VerifyFrozenInputs(s)
  BY <1>1, <1>t, <1>o, GotoHolds, IdleHolds DEF VerifyFrozenInputs, GotoIf
<1>2. CASE ReadExisting(s)
  <2>1. session'[s] = [x EXCEPT !.pc = "registered", !.seen = fact[Run(s)]]
    BY <1>2, <1>s DEF ReadExisting
  <2> QED BY <2>1, <1>s, <1>t, <1>k DEF SessionStates
<1>3. CASE CompareWithRegistry(s)
  BY <1>3, <1>t, <1>o, GotoHolds, IdleHolds DEF CompareWithRegistry, GotoIf
<1>4. CASE Promote(s)
  BY <1>4, <1>o, IdleHolds DEF Promote
<1>5. CASE EnsurePointerTable(s)
  <2>1. session'[s] = [x EXCEPT !.pc = "disposition", !.then = "first"] /\ x.pc = "ensure"
    BY <1>5, <1>s DEF EnsurePointerTable, CallDbt, At
  <2> QED BY <2>1, <1>s DEF Holding, FactGrows, SessionStates
<1>6. CASE ReadFirst(s)
  <2> DEFINE pc == IF Given(s, "move_pointer") THEN "point" ELSE AfterPoint(s)
  <2>1. pc \in Steps \ Registering
    BY <1>t, <1>a
  <2>2. CASE fact[Run(s)].content = {}
    BY <1>6, <2>2, <1>o, IdleHolds DEF ReadFirst
  <2>3. CASE fact[Run(s)].content # {}
    <3>1. session'[s] = [x EXCEPT !.seen = fact[Run(s)], !.then = "compare", !.pc = pc]
      BY <1>6, <2>3, <1>s DEF ReadFirst
    <3> HIDE DEF pc
    <3>2. /\ session'[s].cmd = x.cmd /\ session'[s].then = "compare"
          /\ session'[s].made = x.made /\ session'[s].pc = pc
      BY <3>1, <1>s DEF SessionStates
    <3> QED BY <3>2, <2>1, <1>s DEF Holding, FactGrows, Registering
  <2> QED BY <2>2, <2>3
<1>7. CASE Point(s)
  BY <1>7, <1>a, <1>o, GotoHolds, IdleHolds DEF Point, SetPointer
<1>8. CASE CompareRerun(s)
  BY <1>8, <1>a, <1>o, GotoHolds, IdleHolds DEF CompareRerun, GotoIf
<1>9. CASE PointAway(s)
  <2>1. session'[s] = [x EXCEPT !.pc = "back", !.seen = fact[Run(s)]]
    BY <1>9, <1>s DEF PointAway
  <2> QED BY <2>1, <1>s, <1>t, <1>k DEF SessionStates
<1>10. CASE PointBack(s)
  BY <1>10, <1>t, <1>o, GotoHolds, IdleHolds DEF PointBack, SetPointer
<1>11. CASE CompareUnharmed(s)
  BY <1>11, <1>t, <1>o, GotoHolds, IdleHolds DEF CompareUnharmed, GotoIf
<1> QED
  BY <1>1, <1>2, <1>3, <1>4, <1>5, <1>6, <1>7, <1>8, <1>9, <1>10, <1>11 DEF Publish

\* The freezer holds the rows its digest covered, from the digest to the MERGE.
LEMMA FreezeHolds ==
  ASSUME TypeOK, NEW s \in Sessions, Holding(session[s]), FactGrows, Freeze(s)
  PROVE  Holding(session[s])'
<1> DEFINE x == session[s]
<1>s. /\ session \in [Sessions -> SessionStates]
      /\ x \in SessionStates
      /\ x.cmd.run \in Runs
  BY DEF TypeOK, SessionStates, Commands
<1>t. {"digest", "readback"} \subseteq Steps \ Registering
  BY DEF Steps, FreezeSteps, Registering
<1>o. {"done", "refused"} \subseteq Outcomes
  BY DEF Outcomes
<1>1. CASE ReadIdentity(s)
  <2>1. session'[s] = [x EXCEPT !.pc = "digest", !.seen = fact[Run(s)]]
    BY <1>1, <1>s DEF ReadIdentity
  <2> QED BY <2>1, <1>s DEF Holding, FactGrows, SessionStates
<1>2. CASE ReadDigest(s)
  <2> DEFINE made == [content |-> fact[Run(s)].content, stamp |-> x.seen.stamp]
  <2>1. CASE fact[Run(s)].content # {} /\ session' = [session EXCEPT ![s].pc = "create",
                                                                    ![s].made = made]
    <3>1. session'[s] = [x EXCEPT !.pc = "create", !.made = made] /\ x.pc # "after"
      BY <2>1, <1>2, <1>s DEF ReadDigest, At
    <3>2. /\ session'[s].cmd = x.cmd /\ session'[s].then = x.then
          /\ session'[s].made.content = fact[x.cmd.run].content /\ session'[s].pc = "create"
      BY <3>1, <1>s DEF SessionStates, Run
    <3> QED BY <3>2, <2>1, <1>s DEF Holding, FactGrows, Run
  <2>2. CASE Stop(s, "refused")
    BY <2>2, <1>o, IdleHolds
  <2> QED BY <1>2, <2>1, <2>2 DEF ReadDigest
<1>3. CASE CreateRegistry(s)
  <2>1. session'[s] = [x EXCEPT !.pc = "register"] /\ x.pc = "create"
    BY <1>3, <1>s DEF CreateRegistry, Goto, At
  <2> QED BY <2>1, <1>s DEF Holding, FactGrows, SessionStates
<1>4. CASE RegisterBaseline(s)
  BY <1>4, <1>t, GotoHolds DEF RegisterBaseline
<1>5. CASE ReadBack(s)
  BY <1>5, <1>o, IdleHolds DEF ReadBack
<1> QED BY <1>1, <1>2, <1>3, <1>4, <1>5 DEF Freeze

\* The restater holds v2's rows from their identity, across dbt, to the MERGE.
LEMMA RestateHolds ==
  ASSUME TypeOK, NEW s \in Sessions, Holding(session[s]), FactGrows, Restate(s)
  PROVE  Holding(session[s])'
<1> DEFINE x == session[s]
<1>s. /\ session \in [Sessions -> SessionStates]
      /\ x \in SessionStates
      /\ x.cmd.run \in Runs
  BY DEF TypeOK, SessionStates, Commands
<1>t. {"before", "matches", "move", "test"} \subseteq Steps \ Registering
  BY DEF Steps, RestateSteps, PublishSteps, Registering
<1>o. {"refused", "crashed"} \subseteq Outcomes
  BY DEF Outcomes
<1>1. CASE ReadBaseline(s)
  <2> DEFINE rows == registry[PriorPublication].rows
  <2>1. CASE session' = [session EXCEPT ![s].pc = "before", ![s].seen = rows]
    <3>1. session'[s] = [x EXCEPT !.pc = "before", !.seen = rows]
      BY <2>1, <1>s
    <3> QED BY <3>1, <1>s DEF Holding, FactGrows, SessionStates
  <2>2. CASE Stop(s, "refused")
    BY <2>2, <1>o, IdleHolds
  <2> QED BY <1>1, <2>1, <2>2 DEF ReadBaseline
<1>2. CASE DigestBefore(s)
  BY <1>2, <1>t, <1>o, GotoHolds, IdleHolds DEF DigestBefore, GotoIf
<1>3. CASE VerifyRestatedMatches(s)
  <2>1. CASE CallDbt(s, "eligibility", "identify")
    <3>1. session'[s] = [x EXCEPT !.pc = "eligibility", !.then = "identify"]
      BY <2>1, <1>s DEF CallDbt
    <3> QED BY <3>1, <1>s DEF Holding, FactGrows, SessionStates
  <2>2. CASE Stop(s, "refused")
    BY <2>2, <1>o, IdleHolds
  <2> QED BY <1>3, <2>1, <2>2 DEF VerifyRestatedMatches
<1>4. CASE Identify(s)
  <2>1. CASE fact[Run(s)].content = {}
    BY <1>4, <2>1, <1>o, IdleHolds DEF Identify
  <2>2. CASE fact[Run(s)].content # {}
    <3>1. session'[s] = [x EXCEPT !.made = fact[Run(s)], !.pc = "select_delta", !.then = "after"]
      BY <1>4, <2>2, <1>s DEF Identify
    <3>2. /\ session'[s].cmd = x.cmd /\ session'[s].then = "after"
          /\ session'[s].made = fact[x.cmd.run] /\ session'[s].pc = "select_delta"
      BY <3>1, <1>s DEF SessionStates, Run
    <3> QED BY <3>2, <2>2, <1>s DEF Holding, FactGrows, Run
  <2> QED BY <2>1, <2>2
<1>5. CASE DigestAfter(s)
  <2>1. CASE Goto(s, "enter")
    <3>1. session'[s] = [x EXCEPT !.pc = "enter"] /\ x.pc = "after"
      BY <2>1, <1>5, <1>s DEF Goto, DigestAfter, At
    <3> QED BY <3>1, <1>s DEF Holding, FactGrows, SessionStates
  <2>2. CASE Stop(s, "refused")
    BY <2>2, <1>o, IdleHolds
  <2> QED BY <1>5, <2>1, <2>2 DEF DigestAfter, GotoIf
<1>6. CASE RegisterRestatement(s)
  BY <1>6, <1>t, GotoHolds DEF RegisterRestatement
<1>7. CASE MovePointer(s)
  BY <1>7, <1>t, <1>o, GotoHolds, IdleHolds DEF MovePointer, GotoIf
<1> QED BY <1>1, <1>2, <1>3, <1>4, <1>5, <1>6, <1>7 DEF Restate

\* A program that starts holds nothing yet.
LEMMA StartHolds ==
  ASSUME TypeOK, NEW s \in Sessions, Holding(session[s]), FactGrows, Start(s)
  PROVE  Holding(session[s])'
<1>t. {"inputs", "identity", "baseline", "eligibility"} \subseteq Steps \ Registering
  BY DEF Steps, PublishSteps, FreezeSteps, RestateSteps, DbtSteps, Registering
<1>1. ASSUME NEW cmd, NEW pc \in Steps \ Registering, Begin(s, cmd, pc)
      PROVE  Holding(session[s])'
  <2>1. session'[s] = [Idle("none") EXCEPT !.cmd = cmd, !.pc = pc]
    BY <1>1 DEF Begin, TypeOK
  <2>2. /\ session'[s].then = "idle" /\ session'[s].pc = pc
        /\ session'[s].made = Unpublished
    BY <2>1 DEF Idle
  <2> QED BY <2>2 DEF Holding, Unpublished, Registering
<1>2. ASSUME session'= session
      PROVE  Holding(session[s])'
  <2>1. session[s].cmd.run \in Runs
    BY DEF TypeOK, SessionStates, Commands
  <2> QED BY <1>2, <2>1 DEF Holding, FactGrows
<1> QED
  BY <1>1, <1>2, <1>t DEF Start, StartPublish, StartFreeze, StartRestate, StartBuild, Rematch,
                          Reprocess

-----------------------------------------------------------------------------
(* Registered publications are backed, with any number of sessions *)

\* A step of one session leaves the programs of the others where they are.
LEMMA OthersWait ==
  ASSUME TypeOK, NEW s \in Sessions, Start(s) \/ Continue(s) \/ Abort(s),
         NEW t \in Sessions \ {s}
  PROVE  session'[t] = session[t]
<1> USE DEF TypeOK, Goto, Stop, GotoIf, CallDbt
<1>1. CASE Start(s)
  BY <1>1 DEF Start, StartPublish, StartFreeze, StartRestate, StartBuild, Rematch, Reprocess,
              Begin
<1>2. CASE Dbt(s)
  <2>1. CASE Eligibility(s) \/ Resolution(s) \/ Disposition(s) \/ Streams(s)
    BY <2>1 DEF Eligibility, Resolution, Disposition, Streams
  <2>2. CASE SelectFact(s) \/ MergeFact(s) \/ SelectDelta(s) \/ MergeDelta(s)
    BY <2>2 DEF SelectFact, MergeFact, SelectDelta, MergeDelta
  <2>3. CASE Reconciliation(s) \/ Verify(s) \/ Test(s)
    BY <2>3 DEF Reconciliation, Verify, Test
  <2> QED BY <1>2, <2>1, <2>2, <2>3 DEF Dbt
<1>3. CASE Publish(s)
  <2>1. CASE VerifyFrozenInputs(s) \/ ReadExisting(s) \/ CompareWithRegistry(s)
    BY <2>1 DEF VerifyFrozenInputs, ReadExisting, CompareWithRegistry
  <2>2. CASE Promote(s) \/ EnsurePointerTable(s) \/ ReadFirst(s) \/ Point(s)
    BY <2>2 DEF Promote, EnsurePointerTable, ReadFirst, Point, SetPointer
  <2>3. CASE CompareRerun(s) \/ PointAway(s) \/ PointBack(s) \/ CompareUnharmed(s)
    BY <2>3 DEF CompareRerun, PointAway, PointBack, CompareUnharmed, SetPointer
  <2> QED BY <1>3, <2>1, <2>2, <2>3 DEF Publish
<1>4. CASE Freeze(s)
  BY <1>4 DEF Freeze, ReadIdentity, ReadDigest, CreateRegistry, RegisterBaseline, ReadBack
<1>5. CASE Restate(s)
  BY <1>5 DEF Restate, ReadBaseline, DigestBefore, VerifyRestatedMatches, Identify,
              DigestAfter, RegisterRestatement, MovePointer
<1>6. CASE Abort(s)
  BY <1>6 DEF Abort
<1> QED BY <1>1, <1>2, <1>3, <1>4, <1>5, <1>6 DEF Continue

\* Only the freezer and the restater write the registry.
LEMMA OnlyTwoRegister ==
  ASSUME NEW s \in Sessions, Start(s) \/ Continue(s) \/ Abort(s),
         ~RegisterBaseline(s), ~RegisterRestatement(s)
  PROVE  registry' = registry
<1>1. CASE Start(s)
  BY <1>1 DEF Start, StartPublish, StartFreeze, StartRestate, StartBuild, Rematch, Reprocess,
              pubVars
<1>2. CASE Dbt(s)
  BY <1>2 DEF Dbt, Eligibility, Resolution, Disposition, Streams, SelectFact, MergeFact,
              SelectDelta, MergeDelta, Reconciliation, Verify, Test, pubVars
<1>3. CASE Publish(s)
  BY <1>3 DEF Publish, VerifyFrozenInputs, ReadExisting, CompareWithRegistry, Promote,
              EnsurePointerTable, ReadFirst, Point, CompareRerun, PointAway, PointBack,
              CompareUnharmed, SetPointer, pubVars
<1>4. CASE Freeze(s)
  BY <1>4 DEF Freeze, ReadIdentity, ReadDigest, CreateRegistry, ReadBack, pubVars
<1>5. CASE Restate(s)
  BY <1>5 DEF Restate, ReadBaseline, DigestBefore, VerifyRestatedMatches, Identify,
              DigestAfter, MovePointer, pubVars
<1>6. CASE Abort(s)
  BY <1>6 DEF Abort, pubVars
<1> QED BY <1>1, <1>2, <1>3, <1>4, <1>5, <1>6 DEF Continue

\* An entry is one that was there, whatever happened to its frozen flag, or the
\* one a session at its MERGE writes of what it holds.
LEMMA WhereEntriesComeFrom ==
  ASSUME TypeOK, NEW s \in Sessions, Start(s) \/ Continue(s) \/ Abort(s),
         NEW id \in PublicationIds, registry'[id] # NoEntry
  PROVE  \/ /\ registry[id] # NoEntry
            /\ registry'[id].run = registry[id].run
            /\ registry'[id].rows = registry[id].rows
         \/ /\ session[s].pc \in {"register", "enter"}
            /\ registry'[id].run = Run(s)
            /\ registry'[id].rows = session[s].made
<1>s. registry \in [PublicationIds -> Entries \cup {NoEntry}]
  BY DEF TypeOK
<1>1. CASE registry'[id] = registry[id]
  BY <1>1
<1>2. CASE RegisterBaseline(s)
  <2>1. CASE id # session[s].cmd.id
    BY <1>1, <1>2, <1>s, <2>1 DEF RegisterBaseline
  <2>2. CASE id = session[s].cmd.id /\ registry[id] = NoEntry
    <3>1. registry'[id] = [run |-> Run(s), rid |-> NotGiven, norm |-> NormOf[silver],
                           rows |-> session[s].made, frozen |-> TRUE]
      BY <1>2, <1>s, <2>2 DEF RegisterBaseline
    <3> QED BY <1>2, <3>1 DEF RegisterBaseline, At
  <2>3. CASE id = session[s].cmd.id /\ registry[id] # NoEntry
    <3>1. registry[id] \in Entries
      BY <2>3, <1>s
    <3>2. registry'[id] \in {registry[id], [registry[id] EXCEPT !.frozen = FALSE]}
      BY <1>2, <1>s, <2>3 DEF RegisterBaseline
    <3> QED BY <2>3, <3>1, <3>2 DEF Entries
  <2> QED BY <2>1, <2>2, <2>3
<1>3. CASE RegisterRestatement(s)
  <2>1. CASE id # NewPublication \/ registry[id] # NoEntry
    BY <1>1, <1>3, <1>s, <2>1 DEF RegisterRestatement
  <2>2. CASE id = NewPublication /\ registry[id] = NoEntry
    <3>1. registry'[id] = [run |-> Run(s), rid |-> Rid(s), norm |-> session[s].cmd.norm,
                           rows |-> session[s].made, frozen |-> TRUE]
      BY <1>3, <1>s, <2>2 DEF RegisterRestatement
    <3> QED BY <1>3, <3>1 DEF RegisterRestatement, At
  <2> QED BY <2>1, <2>2
<1> QED BY <1>1, <1>2, <1>3, OnlyTwoRegister

\* The strengthened invariant is kept by every step.
LEMMA BackedStep == TypeOK /\ Backed /\ [Next]_vars => Backed'
<1> SUFFICES ASSUME TypeOK, Backed, [Next]_vars PROVE Backed'
  OBVIOUS
<1>g. FactGrows
  BY RowsStay
<1>s. \A t \in Sessions : session[t].cmd.run \in Runs
  BY DEF TypeOK, SessionStates, Commands
<1>e. \A id \in PublicationIds : registry[id] # NoEntry => registry[id].run \in Runs
  BY DEF TypeOK, Entries
<1>w. ASSUME NEW t \in Sessions, session'[t] = session[t]
      PROVE  Holding(session[t])'
  BY <1>w, <1>g, <1>s DEF Backed, Holding, FactGrows
<1>1. ASSUME NEW s \in Sessions, Start(s) \/ Continue(s) \/ Abort(s)
      PROVE  Backed'
  <2>1. Holding(session[s])'
    <3>1. Holding(session[s])
      BY DEF Backed
    <3>2. CASE Abort(s)
      BY <3>2, IdleHolds DEF Abort, Outcomes
    <3> QED BY <1>1, <1>g, <3>1, <3>2, StartHolds, DbtHolds, PublishHolds, FreezeHolds,
               RestateHolds DEF Continue
  <2>2. \A t \in Sessions \ {s} : Holding(session[t])'
    BY <1>1, <1>w, OthersWait
  <2>3. RegisteredIsBacked'
    <3> SUFFICES ASSUME NEW id \in PublicationIds, registry'[id] # NoEntry
                 PROVE  /\ registry'[id].rows.content # {}
                        /\ registry'[id].rows.content \subseteq fact'[registry'[id].run].content
      BY DEF RegisteredIsBacked
    <3>1. CASE /\ registry[id] # NoEntry
               /\ registry'[id].run = registry[id].run
               /\ registry'[id].rows = registry[id].rows
      BY <3>1, <1>g, <1>e DEF Backed, RegisteredIsBacked, FactGrows
    <3>2. CASE /\ session[s].pc \in {"register", "enter"}
               /\ registry'[id].run = Run(s)
               /\ registry'[id].rows = session[s].made
      BY <3>2, <1>g, <1>s DEF Backed, Holding, FactGrows, Run
    <3> QED BY <1>1, <3>1, <3>2, WhereEntriesComeFrom
  <2> QED BY <2>1, <2>2, <2>3 DEF Backed
<1>2. CASE UNCHANGED vars
  <2>1. RegisteredIsBacked'
    BY <1>2, <1>g, <1>e DEF Backed, RegisteredIsBacked, FactGrows, vars, pubVars
  <2> QED BY <1>2, <2>1, <1>w DEF Backed, vars
<1> QED BY <1>1, <1>2 DEF Next

\* However many sessions run, and wherever they are killed: the rows a registry
\* entry was written for are there, and have not left the fact.
THEOREM RegisteredRowsRemain == Spec => []RegisteredIsBacked
<1>1. Init => Backed
  BY DEF Init, Backed, RegisteredIsBacked, Holding, Idle, Unpublished
<1>2. Backed => RegisteredIsBacked
  BY DEF Backed
<1> QED BY <1>1, <1>2, BackedStep, TypeCorrect, PTL DEF Spec

-----------------------------------------------------------------------------
(* One session at a time *)

\* The select of fct_royalty_attribution is still true when its rows are merged:
\* nobody published under the run id in between.
FreshMerge ==
  \A s \in Sessions :
    At(s, "merge_fact") /\ session[s].rows # {} => fact[Run(s)].content = {}

\* What is registered, and what is about to be, is exactly what is published.
Exact ==
  /\ \A id \in PublicationIds :
       registry[id] # NoEntry =>
         /\ registry[id].rows.content # {}
         /\ registry[id].rows.content = fact[registry[id].run].content
  /\ \A s \in Sessions :
       session[s].made.content # {} => session[s].made.content = fact[Run(s)].content

\* Only the select takes a session to the merge.
LEMMA OnlySelectReachesTheMerge ==
  ASSUME TypeOK, NEW s \in Sessions, Holding(session[s]),
         Start(s) \/ Continue(s) \/ Abort(s), At(s, "merge_fact")'
  PROVE  SelectFact(s) \/ session' = session
<1>s. session \in [Sessions -> SessionStates]
  BY DEF TypeOK
<1>m. session'[s].pc = "merge_fact"
  BY DEF At
<1>g. \A pc : Goto(s, pc) => session'[s].pc = pc
  BY <1>s DEF Goto, SessionStates
<1>p. \A outcome : Stop(s, outcome) => session'[s].pc = "idle"
  BY <1>s DEF Stop, Idle
<1>i. \A condition, pc, otherwise :
        GotoIf(s, condition, pc, otherwise) => session'[s].pc \in {pc, "idle"}
  BY <1>g, <1>p DEF GotoIf
<1>c. \A first, then : CallDbt(s, first, then) => session'[s].pc = first
  BY <1>s DEF CallDbt, SessionStates
<1>b. \A cmd, pc : Begin(s, cmd, pc) => session'[s].pc = pc
  BY <1>s DEF Begin, Idle
<1>r. session[s].then # "merge_fact"
  BY DEF Holding
<1>a. AfterRerun(s) # "merge_fact" /\ AfterPoint(s) # "merge_fact"
  BY DEF AfterRerun, AfterPoint
<1>1. CASE Start(s)
  BY <1>1, <1>m, <1>b
     DEF Start, StartPublish, StartFreeze, StartRestate, StartBuild, Rematch, Reprocess
<1>2. CASE Dbt(s)
  <2>1. CASE Eligibility(s) \/ Resolution(s) \/ Disposition(s) \/ Streams(s)
    BY <2>1, <1>m, <1>g, <1>p DEF Eligibility, Resolution, Disposition, Streams
  <2>2. CASE MergeFact(s)
    BY <2>2, <1>s, <1>m DEF MergeFact, SessionStates
  <2>3. CASE SelectDelta(s) \/ MergeDelta(s)
    BY <2>3, <1>s, <1>m, <1>p DEF SelectDelta, MergeDelta, SessionStates
  <2>4. CASE Reconciliation(s) \/ Test(s)
    BY <2>4, <1>m, <1>g, <1>p DEF Reconciliation, Test
  <2>5. CASE Verify(s)
    BY <1>r, <2>5, <1>m, <1>p, <1>i DEF Verify
  <2> QED BY <1>2, <2>1, <2>2, <2>3, <2>4, <2>5 DEF Dbt
<1>3. CASE Publish(s)
  <2>1. CASE VerifyFrozenInputs(s) \/ ReadExisting(s) \/ CompareWithRegistry(s)
    <3>1. CASE ReadExisting(s)
      BY <3>1, <1>s, <1>m DEF ReadExisting, SessionStates
    <3>2. CASE VerifyFrozenInputs(s)
      BY <3>2, <1>m, <1>i DEF VerifyFrozenInputs
    <3>3. CASE CompareWithRegistry(s)
      BY <3>3, <1>m, <1>g, <1>p, <1>i DEF CompareWithRegistry
    <3> QED BY <2>1, <3>1, <3>2, <3>3
  <2>2. CASE Promote(s) \/ EnsurePointerTable(s) \/ Point(s)
    BY <2>2, <1>a, <1>m, <1>g, <1>p, <1>c DEF Promote, EnsurePointerTable, Point, SetPointer
  <2>3. CASE ReadFirst(s)
    BY <2>3, <1>a, <1>s, <1>m, <1>p DEF ReadFirst, SessionStates
  <2>4. CASE CompareRerun(s) \/ PointBack(s) \/ CompareUnharmed(s)
    BY <2>4, <1>a, <1>m, <1>g, <1>p, <1>i
       DEF CompareRerun, PointBack, CompareUnharmed, SetPointer
  <2>5. CASE PointAway(s)
    BY <2>5, <1>s, <1>m DEF PointAway, SessionStates
  <2> QED BY <1>3, <2>1, <2>2, <2>3, <2>4, <2>5 DEF Publish
<1>4. CASE Freeze(s)
  <2>1. CASE ReadIdentity(s) \/ ReadDigest(s)
    BY <2>1, <1>s, <1>m, <1>p DEF ReadIdentity, ReadDigest, SessionStates
  <2>2. CASE CreateRegistry(s) \/ RegisterBaseline(s) \/ ReadBack(s)
    BY <2>2, <1>m, <1>g, <1>p DEF CreateRegistry, RegisterBaseline, ReadBack
  <2> QED BY <1>4, <2>1, <2>2 DEF Freeze
<1>5. CASE Restate(s)
  <2>1. CASE ReadBaseline(s) \/ Identify(s)
    BY <2>1, <1>s, <1>m, <1>p DEF ReadBaseline, Identify, SessionStates
  <2>2. CASE DigestBefore(s) \/ VerifyRestatedMatches(s) \/ DigestAfter(s)
    BY <2>2, <1>m, <1>i, <1>p, <1>c DEF DigestBefore, VerifyRestatedMatches, DigestAfter
  <2>3. CASE RegisterRestatement(s) \/ MovePointer(s)
    BY <2>3, <1>m, <1>g, <1>i DEF RegisterRestatement, MovePointer
  <2> QED BY <1>5, <2>1, <2>2, <2>3 DEF Restate
<1>6. CASE Abort(s)
  BY <1>6, <1>m, <1>p DEF Abort
<1> QED BY <1>1, <1>2, <1>3, <1>4, <1>5, <1>6 DEF Continue

\* What a session holds to register after a step is what it held, nothing, or the
\* rows that stand under its run.
LEMMA WhereMadeComesFrom ==
  ASSUME TypeOK, NEW s \in Sessions, Start(s) \/ Continue(s) \/ Abort(s)
  PROVE  \/ session'[s].made = session[s].made /\ session'[s].cmd = session[s].cmd
         \/ session'[s].made.content = {}
         \/ /\ session'[s].made.content = fact[Run(s)].content
            /\ session'[s].cmd = session[s].cmd
<1> DEFINE Kept == session'[s].made = session[s].made /\ session'[s].cmd = session[s].cmd
           None == session'[s].made.content = {}
           Read == /\ session'[s].made.content = fact[Run(s)].content
                   /\ session'[s].cmd = session[s].cmd
<1>s. session \in [Sessions -> SessionStates]
  BY DEF TypeOK
<1>g. \A pc : Goto(s, pc) => Kept
  BY <1>s DEF Goto, SessionStates
<1>p. \A outcome : Stop(s, outcome) => None
  BY <1>s DEF Stop, Idle, Unpublished
<1>i. \A condition, pc, otherwise : GotoIf(s, condition, pc, otherwise) => Kept \/ None
  BY <1>g, <1>p DEF GotoIf
<1>c. \A first, then : CallDbt(s, first, then) => Kept
  BY <1>s DEF CallDbt, SessionStates
<1>b. \A cmd, pc : Begin(s, cmd, pc) => None
  BY <1>s DEF Begin, Idle, Unpublished
<1>1. CASE Start(s)
  BY <1>1, <1>b DEF Start, StartPublish, StartFreeze, StartRestate, StartBuild, Rematch, Reprocess
<1>2. CASE Dbt(s)
  <2>1. CASE Eligibility(s) \/ Resolution(s) \/ Disposition(s) \/ Streams(s)
    BY <2>1, <1>g, <1>p DEF Eligibility, Resolution, Disposition, Streams
  <2>2. CASE SelectFact(s) \/ MergeFact(s) \/ SelectDelta(s) \/ MergeDelta(s)
    BY <2>2, <1>s, <1>p DEF SelectFact, MergeFact, SelectDelta, MergeDelta, SessionStates
  <2>3. CASE Reconciliation(s) \/ Verify(s) \/ Test(s)
    BY <2>3, <1>g, <1>p, <1>i DEF Reconciliation, Verify, Test
  <2> QED BY <1>2, <2>1, <2>2, <2>3 DEF Dbt
<1>3. CASE Publish(s)
  <2>1. CASE VerifyFrozenInputs(s) \/ CompareWithRegistry(s)
    BY <2>1, <1>g, <1>p, <1>i DEF VerifyFrozenInputs, CompareWithRegistry
  <2>2. CASE Promote(s) \/ EnsurePointerTable(s) \/ Point(s) \/ PointBack(s)
    BY <2>2, <1>g, <1>p, <1>c DEF Promote, EnsurePointerTable, Point, PointBack, SetPointer
  <2>3. CASE ReadExisting(s) \/ ReadFirst(s) \/ PointAway(s)
    BY <2>3, <1>s, <1>p DEF ReadExisting, ReadFirst, PointAway, SessionStates
  <2>4. CASE CompareRerun(s) \/ CompareUnharmed(s)
    BY <2>4, <1>i DEF CompareRerun, CompareUnharmed
  <2> QED BY <1>3, <2>1, <2>2, <2>3, <2>4 DEF Publish
<1>4. CASE Freeze(s)
  <2>1. CASE ReadIdentity(s)
    BY <2>1, <1>s DEF ReadIdentity, SessionStates
  <2>2. CASE ReadDigest(s)
    <3> DEFINE made == [content |-> fact[Run(s)].content, stamp |-> session[s].seen.stamp]
    <3>1. CASE session' = [session EXCEPT ![s].pc = "create", ![s].made = made]
      BY <3>1, <1>s DEF SessionStates
    <3> QED BY <2>2, <3>1, <1>p DEF ReadDigest
  <2>3. CASE CreateRegistry(s) \/ RegisterBaseline(s) \/ ReadBack(s)
    BY <2>3, <1>g, <1>p DEF CreateRegistry, RegisterBaseline, ReadBack
  <2> QED BY <1>4, <2>1, <2>2, <2>3 DEF Freeze
<1>5. CASE Restate(s)
  <2>1. CASE ReadBaseline(s) \/ Identify(s)
    BY <2>1, <1>s, <1>p DEF ReadBaseline, Identify, SessionStates
  <2>2. CASE DigestBefore(s) \/ VerifyRestatedMatches(s) \/ DigestAfter(s)
    BY <2>2, <1>i, <1>p, <1>c DEF DigestBefore, VerifyRestatedMatches, DigestAfter
  <2>3. CASE RegisterRestatement(s) \/ MovePointer(s)
    BY <2>3, <1>g, <1>i DEF RegisterRestatement, MovePointer
  <2> QED BY <1>5, <2>1, <2>2, <2>3 DEF Restate
<1>6. CASE Abort(s)
  BY <1>6, <1>p DEF Abort
<1> QED BY <1>1, <1>2, <1>3, <1>4, <1>5, <1>6 DEF Continue

\* A fresh merge touches only a run id nothing was published under.
LEMMA FreshMergeIsImmutable ==
  ASSUME TypeOK, FreshMerge, [Next]_vars, NEW run \in Runs, fact[run].content # {}
  PROVE  fact'[run] = fact[run]
<1>1. ASSUME NEW s \in Sessions, MergeFact(s)
      PROVE  fact'[run] = fact[run]
  <2>1. fact \in [Runs -> Publications] /\ At(s, "merge_fact")
    BY <1>1 DEF TypeOK, LayerTypeOK, MergeFact
  <2>2. CASE session[s].rows = {}
    BY <1>1, <2>2 DEF MergeFact, MergeAttribution
  <2>3. CASE run # Run(s)
    BY <1>1, <2>1, <2>3 DEF MergeFact, MergeAttribution
  <2> QED BY <2>1, <2>2, <2>3 DEF FreshMerge
<1>2. CASE UNCHANGED vars
  BY <1>2 DEF vars, layerVars
<1> QED BY <1>1, <1>2, OnlyMergeWritesTheFact DEF Next

Serial == Backed /\ FreshMerge /\ Exact

\* With one session, what it selected against is what it merges into, and what it
\* read is what it registers: every step, a kill included, keeps the invariant.
LEMMA SerialStep ==
  ASSUME \A p, q \in Sessions : p = q
  PROVE  TypeOK /\ Serial /\ [Next]_vars => Serial'
<1> SUFFICES ASSUME TypeOK, Serial, [Next]_vars PROVE Serial'
  OBVIOUS
<1>b. Backed'
  BY BackedStep DEF Serial
<1>m. \A run \in Runs : fact[run].content # {} => fact'[run] = fact[run]
  BY FreshMergeIsImmutable DEF Serial
<1>s. \A s \in Sessions : /\ session[s] \in SessionStates
                          /\ Run(s) \in Runs
  BY DEF TypeOK, SessionStates, Commands, Run
<1>1. CASE UNCHANGED vars
  BY <1>1, <1>b DEF Serial, FreshMerge, Exact, At, Run, vars, layerVars, pubVars
<1>2. ASSUME NEW s \in Sessions, Start(s) \/ Continue(s) \/ Abort(s)
      PROVE  FreshMerge' /\ Exact'
  <2>1. FreshMerge'
    <3> SUFFICES ASSUME At(s, "merge_fact")', session'[s].rows # {}
                 PROVE  fact'[Run(s)'].content = {}
      BY DEF FreshMerge
    <3>1. CASE SelectFact(s)
      <4>1. session'[s] = [session[s] EXCEPT !.pc = "merge_fact",
                                             !.rows = SelectAttribution(Run(s))]
        BY <3>1 DEF SelectFact, TypeOK
      <4>2. /\ session'[s].rows = SelectAttribution(Run(s))
            /\ session'[s].cmd = session[s].cmd
        BY <4>1, <1>s DEF SessionStates
      <4>3. fact' = fact
        BY <3>1 DEF SelectFact, layerVars
      <4> QED BY <4>2, <4>3 DEF SelectAttribution, Run
    <3>2. CASE session' = session
      <4>1. ~MergeFact(s)
        <5>1. MergeFact(s) => session'[s].pc \in {"compare", "select_delta"}
          BY <1>s DEF MergeFact, TypeOK, SessionStates
        <5> QED BY <5>1 DEF At
      <4>2. fact' = fact
        BY <1>2, <4>1, OnlyMergeWritesTheFact
      <4> QED BY <3>2, <4>2 DEF Serial, FreshMerge, At, Run
    <3> QED BY <1>2, <3>1, <3>2, OnlySelectReachesTheMerge DEF Serial, Backed
  <2>2. \A t \in Sessions :
          session'[t].made.content # {} => session'[t].made.content = fact'[Run(t)'].content
    <3> SUFFICES ASSUME session'[s].made.content # {}
                 PROVE  session'[s].made.content = fact'[Run(s)'].content
      OBVIOUS
    <3>1. CASE session'[s].made = session[s].made /\ session'[s].cmd = session[s].cmd
      BY <3>1, <1>m, <1>s DEF Serial, Exact, Run
    <3>2. CASE /\ session'[s].made.content = fact[Run(s)].content
               /\ session'[s].cmd = session[s].cmd
      BY <3>2, <1>m, <1>s DEF Run
    <3> QED BY <1>2, <3>1, <3>2, WhereMadeComesFrom
  <2>3. ASSUME NEW id \in PublicationIds, registry'[id] # NoEntry
        PROVE  /\ registry'[id].rows.content # {}
               /\ registry'[id].rows.content = fact'[registry'[id].run].content
    <3>1. CASE /\ registry[id] # NoEntry
               /\ registry'[id].run = registry[id].run
               /\ registry'[id].rows = registry[id].rows
      <4>1. registry[id].run \in Runs
        BY <3>1 DEF TypeOK, Entries
      <4> QED BY <3>1, <4>1, <1>m DEF Serial, Exact
    <3>2. CASE /\ session[s].pc \in {"register", "enter"}
               /\ registry'[id].run = Run(s)
               /\ registry'[id].rows = session[s].made
      <4>1. session[s].made.content # {}
        BY <3>2 DEF Serial, Backed, Holding
      <4> QED BY <3>2, <4>1, <1>m, <1>s DEF Serial, Exact
    <3> QED BY <1>2, <2>3, <3>1, <3>2, WhereEntriesComeFrom
  <2> QED BY <2>1, <2>2, <2>3 DEF Exact
<1> QED BY <1>1, <1>2, <1>b DEF Serial, Next

\* The invariant holds before the baseline is frozen.
LEMMA SerialInit == Init => Serial
BY DEF Init, Serial, Backed, RegisteredIsBacked, Holding, FreshMerge, Exact, At, Idle,
       Unpublished

\* "A completed publication is never updated" -- of a warehouse on which one session
\* at a time works, killed wherever it may be.
THEOREM PublicationsAreImmutable ==
  ASSUME \A p, q \in Sessions : p = q
  PROVE  Spec => PublishedRowsAreImmutable
<1>1. TypeOK /\ Serial /\ [Next]_vars
        => [\A run \in Runs : fact[run].content # {} => fact'[run] = fact[run]]_vars
  BY FreshMergeIsImmutable DEF Serial
<1> QED BY <1>1, SerialInit, SerialStep, TypeCorrect, PTL DEF Spec, PublishedRowsAreImmutable

\* The digest of a frozen entry is the digest of the rows in the fact, under the
\* same condition.
THEOREM FrozenEntriesAreProofs ==
  ASSUME \A p, q \in Sessions : p = q
  PROVE  Spec => []FrozenEntriesMatchTheFact
<1>1. Serial => FrozenEntriesMatchTheFact
  BY DEF Serial, Exact, FrozenEntriesMatchTheFact
<1> QED BY <1>1, SerialInit, SerialStep, TypeCorrect, PTL DEF Spec

-----------------------------------------------------------------------------
(* The moves, from the state x of a session to its state y: how one step   *)
(* moves its session, one disjunct per edge of the programs.  An invariant *)
(* about sessions is proved against these instead of against each action.  *)

Ended(y) == \E outcome \in Outcomes : y = Idle(outcome)

\* A program at its first step.
Begun(y) ==
  /\ y.then = "idle" /\ y.changes = {} /\ y.seen = Unpublished /\ y.made = Unpublished
  /\ \/ /\ y.cmd.name = "publish" /\ y.pc = "inputs"
        /\ y.cmd.run \in {PriorRun, RehearsalRun}
     \/ /\ y.cmd.name = "freeze" /\ y.pc = "identity"
        /\ y.cmd.run = PriorRun /\ y.cmd.id \in FreezeIds
     \/ /\ y.cmd.name = "restate" /\ y.pc = "baseline"
        /\ y.cmd.flags \subseteq {"allow_new_publication"}
        /\ \E args \in RestateArgs :
             y.cmd.run = NewRun[args] /\ y.cmd.rid = args.rid /\ y.cmd.norm = args.norm
     \/ /\ y.cmd.name = "build" /\ y.pc = "eligibility"
        /\ y.cmd.run = PublishedRestatement /\ y.cmd.rid = LegacyId

DbtMove(x, y) ==
  /\ y.cmd = x.cmd /\ y.then = x.then /\ y.seen = x.seen /\ y.made = x.made
  /\ \/ /\ <<x.pc, y.pc>> \in {<<"eligibility", "resolution">>, <<"resolution", "disposition">>,
                               <<"disposition", "streams">>, <<"streams", "select_fact">>,
                               <<"select_fact", "merge_fact">>, <<"merge_fact", "select_delta">>,
                               <<"reconciliation", "verify">>}
        /\ y.changes = x.changes
     \/ /\ x.pc = "merge_fact" /\ y.pc = "compare" /\ x.then = "compare"
        /\ y.changes = x.changes
     \/ /\ x.pc = "select_delta" /\ y.pc = "merge_delta"
        /\ y.changes = SelectRestatement(x.cmd.run, x.cmd.rid)
     \/ x.pc = "merge_delta" /\ y.pc = "reconciliation" /\ y.changes = {}
     \/ x.pc = "verify" /\ y.pc = x.then /\ y.changes = x.changes

RerunNext(cmd) == IF "prove_pointer_move" \in cmd.flags THEN "away" ELSE "test"
PointNext(cmd) == IF "prove_idempotency" \in cmd.flags THEN "select_fact" ELSE RerunNext(cmd)

\* The publisher, validating what exists ...
ValidationMove(x, y) ==
  /\ y.cmd = x.cmd /\ y.then = x.then /\ y.changes = x.changes /\ y.made = x.made
  /\ \/ x.pc = "inputs" /\ y.pc = "existing" /\ y.seen = x.seen
     \/ x.pc = "existing" /\ y.pc = "registered" /\ y.seen = fact[x.cmd.run]
     \/ /\ x.pc = "registered" /\ y.pc = "ensure" /\ y.seen = x.seen
        /\ ~CountFails(x.seen) /\ x.seen.content = {} /\ EntriesOf(x.cmd.run) = {}
     \/ /\ x.pc = "registered" /\ y.pc = "promote" /\ y.seen = x.seen
        /\ x.seen.content # {} /\ EntriesOf(x.cmd.run) # {}

\* ... and publishing what does not.
BuildMove(x, y) ==
  /\ y.cmd = x.cmd /\ y.changes = x.changes /\ y.made = x.made
  /\ \/ /\ x.pc = "ensure" /\ y.pc = "disposition"
        /\ y.then = "first"
     \/ /\ x.pc = "first" /\ y.pc \in {"point", PointNext(x.cmd)}
        /\ "move_pointer" \in x.cmd.flags => y.pc = "point"
        /\ y.then = "compare" /\ fact[x.cmd.run].content # {}
     \/ /\ x.pc = "point" /\ y.pc = PointNext(x.cmd) /\ pointer' = x.cmd.run
        /\ y.then = x.then
     \/ /\ x.pc = "compare" /\ y.pc = RerunNext(x.cmd)
        /\ y.then = x.then
     \/ /\ x.pc = "away" /\ y.pc = "back"
        /\ y.then = x.then
     \/ /\ x.pc = "back" /\ y.pc = "unharmed" /\ pointer' = x.cmd.run
        /\ y.then = x.then
     \/ /\ x.pc = "unharmed" /\ y.pc = "test"
        /\ y.then = x.then

FreezeMove(x, y) ==
  /\ y.cmd = x.cmd /\ y.then = x.then /\ y.changes = x.changes
  /\ <<x.pc, y.pc>> \in {<<"identity", "digest">>, <<"digest", "create">>,
                         <<"create", "register">>, <<"register", "readback">>}

RestateMove(x, y) ==
  /\ y.cmd = x.cmd /\ y.changes = x.changes
  /\ \/ /\ <<x.pc, y.pc>> \in {<<"baseline", "before">>, <<"before", "matches">>,
                               <<"after", "enter">>, <<"enter", "move">>, <<"move", "test">>}
        /\ x.pc = "move" => pointer' \in {x.cmd.run, NoRow}
        /\ y.then = x.then
     \/ x.pc = "matches" /\ y.pc = "eligibility" /\ y.then = "identify"
     \/ x.pc = "identify" /\ y.pc = "select_delta" /\ y.then = "after"

Moves(x, y) ==
  \/ y = x /\ pointer' = pointer
  \/ Ended(y) \/ Begun(y)
  \/ DbtMove(x, y) \/ ValidationMove(x, y) \/ BuildMove(x, y)
  \/ FreezeMove(x, y) \/ RestateMove(x, y)

-----------------------------------------------------------------------------
(* Every step of a session is one of its moves *)

\* What a session carries to its next step.
Carried(x, y) ==
  y.cmd = x.cmd /\ y.then = x.then /\ y.changes = x.changes /\ y.seen = x.seen /\ y.made = x.made

LEMMA GotoCarries ==
  ASSUME TypeOK, NEW s \in Sessions, NEW pc, Goto(s, pc)
  PROVE  session'[s].pc = pc /\ Carried(session[s], session'[s])
BY DEF Goto, TypeOK, SessionStates, Carried

LEMMA StopEnds ==
  ASSUME TypeOK, NEW s \in Sessions, NEW outcome \in Outcomes, Stop(s, outcome)
  PROVE  Ended(session'[s])
BY DEF Stop, TypeOK, Ended

LEMMA CallDbtMoves ==
  ASSUME TypeOK, NEW s \in Sessions, NEW first, NEW then, CallDbt(s, first, then)
  PROVE  /\ session'[s].pc = first /\ session'[s].then = then
         /\ session'[s].cmd = session[s].cmd /\ session'[s].changes = session[s].changes
         /\ session'[s].made = session[s].made
BY DEF CallDbt, TypeOK, SessionStates

LEMMA BeginFields ==
  ASSUME TypeOK, NEW s \in Sessions, NEW cmd, NEW pc, Begin(s, cmd, pc)
  PROVE  /\ session'[s].cmd = cmd /\ session'[s].pc = pc /\ session'[s].then = "idle"
         /\ session'[s].changes = {} /\ session'[s].seen = Unpublished
         /\ session'[s].made = Unpublished
BY DEF Begin, TypeOK, Idle

LEMMA StartMoves ==
  ASSUME TypeOK, NEW s \in Sessions, Start(s)
  PROVE  (session'[s] = session[s] /\ pointer' = pointer) \/ Begun(session'[s])
<1>1. CASE StartPublish(s)
  <2>1. PICK run \in {PriorRun, RehearsalRun},
             flags \in SUBSET {"move_pointer", "prove_idempotency", "prove_pointer_move"} :
          Begin(s, [NoCommand EXCEPT !.name = "publish", !.run = run, !.flags = flags],
                "inputs")
    BY <1>1 DEF StartPublish
  <2> DEFINE cmd == [NoCommand EXCEPT !.name = "publish", !.run = run, !.flags = flags]
  <2>2. cmd.name = "publish" /\ cmd.run = run
    BY DEF NoCommand
  <2> HIDE DEF cmd
  <2>3. Begin(s, cmd, "inputs")
    BY <2>1 DEF cmd
  <2> QED BY <2>2, <2>3, BeginFields DEF Begun
<1>2. CASE StartFreeze(s)
  <2>1. PICK id \in FreezeIds :
          Begin(s, [NoCommand EXCEPT !.name = "freeze", !.run = PriorRun, !.id = id],
                "identity")
    BY <1>2 DEF StartFreeze
  <2> DEFINE cmd == [NoCommand EXCEPT !.name = "freeze", !.run = PriorRun, !.id = id]
  <2>2. cmd.name = "freeze" /\ cmd.run = PriorRun /\ cmd.id = id
    BY DEF NoCommand
  <2> HIDE DEF cmd
  <2>3. Begin(s, cmd, "identity")
    BY <2>1 DEF cmd
  <2> QED BY <2>2, <2>3, BeginFields DEF Begun
<1>3. CASE StartRestate(s)
  <2>1. PICK args \in RestateArgs, flags \in SUBSET {"allow_new_publication"} :
          Begin(s, [name |-> "restate", run |-> NewRun[args], rid |-> args.rid,
                    norm |-> args.norm, id |-> NewPublication, flags |-> flags],
                "baseline")
    BY <1>3 DEF StartRestate
  <2> DEFINE cmd == [name |-> "restate", run |-> NewRun[args], rid |-> args.rid,
                     norm |-> args.norm, id |-> NewPublication, flags |-> flags]
  <2>2. /\ cmd.name = "restate" /\ cmd.run = NewRun[args] /\ cmd.rid = args.rid
        /\ cmd.norm = args.norm /\ cmd.flags = flags
    OBVIOUS
  <2> HIDE DEF cmd
  <2>3. Begin(s, cmd, "baseline")
    BY <2>1 DEF cmd
  <2>4. session'[s].cmd = cmd
    BY <2>3, BeginFields
  <2>5. /\ session'[s].cmd.run = NewRun[args] /\ session'[s].cmd.rid = args.rid
        /\ session'[s].cmd.norm = args.norm
    BY <2>2, <2>4
  <2>6. /\ session'[s].cmd.name = "restate" /\ session'[s].pc = "baseline"
        /\ session'[s].cmd.flags \subseteq {"allow_new_publication"}
    BY <2>2, <2>3, <2>4, BeginFields
  <2>7. /\ session'[s].then = "idle" /\ session'[s].changes = {}
        /\ session'[s].seen = Unpublished /\ session'[s].made = Unpublished
    BY <2>3, BeginFields
  <2> QED BY <2>5, <2>6, <2>7 DEF Begun
<1>4. CASE StartBuild(s)
  <2> DEFINE cmd == [NoCommand EXCEPT !.name = "build", !.run = PublishedRestatement]
  <2>1. cmd.name = "build" /\ cmd.run = PublishedRestatement /\ cmd.rid = LegacyId
    BY DEF NoCommand
  <2> HIDE DEF cmd
  <2>2. Begin(s, cmd, "eligibility")
    BY <1>4 DEF StartBuild, cmd
  <2> QED BY <2>1, <2>2, BeginFields DEF Begun
<1>5. CASE Rematch(s) \/ Reprocess(s)
  BY <1>5 DEF Rematch, Reprocess, pubVars
<1> QED BY <1>1, <1>2, <1>3, <1>4, <1>5 DEF Start

LEMMA DbtMoves ==
  ASSUME TypeOK, NEW s \in Sessions, Dbt(s)
  PROVE  Ended(session'[s]) \/ DbtMove(session[s], session'[s])
<1>s. session \in [Sessions -> SessionStates] /\ session[s] \in SessionStates
  BY DEF TypeOK
<1>o. {"done", "refused"} \subseteq Outcomes
  BY DEF Outcomes
<1>1. CASE Eligibility(s) \/ Resolution(s) \/ Disposition(s) \/ Streams(s)
  BY <1>1, <1>o, GotoCarries, StopEnds
     DEF Eligibility, Resolution, Disposition, Streams, At, DbtMove, Carried
<1>2. CASE SelectFact(s)
  BY <1>2, <1>s DEF SelectFact, At, DbtMove, SessionStates
<1>3. CASE MergeFact(s)
  BY <1>3, <1>s DEF MergeFact, At, DbtMove, SessionStates
<1>4. CASE SelectDelta(s)
  <2>1. CASE session' = [session EXCEPT ![s].pc = "merge_delta",
                                        ![s].changes = SelectRestatement(Run(s), Rid(s))]
    BY <1>4, <2>1, <1>s DEF SelectDelta, At, DbtMove, SessionStates, Run, Rid
  <2>2. CASE Stop(s, "refused")
    BY <2>2, <1>o, StopEnds
  <2> QED BY <1>4, <2>1, <2>2 DEF SelectDelta
<1>5. CASE MergeDelta(s)
  BY <1>5, <1>s DEF MergeDelta, At, DbtMove, SessionStates
<1>6. CASE Reconciliation(s) \/ Test(s)
  BY <1>6, <1>o, GotoCarries, StopEnds DEF Reconciliation, Test, At, DbtMove, Carried
<1>7. CASE Verify(s)
  BY <1>7, <1>o, GotoCarries, StopEnds DEF Verify, GotoIf, At, DbtMove, Carried
<1> QED BY <1>1, <1>2, <1>3, <1>4, <1>5, <1>6, <1>7 DEF Dbt

LEMMA PublishMoves ==
  ASSUME TypeOK, NEW s \in Sessions, Publish(s)
  PROVE  \/ Ended(session'[s])
         \/ ValidationMove(session[s], session'[s])
         \/ BuildMove(session[s], session'[s])
<1>s. session \in [Sessions -> SessionStates] /\ session[s] \in SessionStates
  BY DEF TypeOK
<1>o. {"done", "refused", "crashed"} \subseteq Outcomes
  BY DEF Outcomes
<1>a. AfterRerun(s) = RerunNext(session[s].cmd) /\ AfterPoint(s) = PointNext(session[s].cmd)
  BY DEF AfterRerun, AfterPoint, RerunNext, PointNext, Given
<1>1. CASE VerifyFrozenInputs(s)
  BY <1>1, <1>o, GotoCarries, StopEnds
     DEF VerifyFrozenInputs, GotoIf, At, ValidationMove, Carried
<1>2. CASE ReadExisting(s)
  BY <1>2, <1>s DEF ReadExisting, At, ValidationMove, SessionStates, Run
<1>3. CASE CompareWithRegistry(s)
  <2>1. CASE Goto(s, "ensure") /\ ~CountFails(session[s].seen)
             /\ session[s].seen.content = {} /\ EntriesOf(Run(s)) = {}
    BY <1>3, <2>1, GotoCarries DEF CompareWithRegistry, At, ValidationMove, Carried, Run
  <2>2. CASE Goto(s, "promote") /\ session[s].seen.content # {} /\ EntriesOf(Run(s)) # {}
    BY <1>3, <2>2, GotoCarries DEF CompareWithRegistry, At, ValidationMove, Carried, Run
  <2>3. CASE \E outcome \in Outcomes : Stop(s, outcome)
    BY <2>3, StopEnds
  <2> QED BY <1>3, <1>o, <2>1, <2>2, <2>3 DEF CompareWithRegistry, GotoIf
<1>4. CASE Promote(s)
  BY <1>4, <1>o, StopEnds DEF Promote
<1>5. CASE EnsurePointerTable(s)
  BY <1>5, CallDbtMoves DEF EnsurePointerTable, At, BuildMove
<1>6. CASE ReadFirst(s)
  <2> DEFINE pc == IF Given(s, "move_pointer") THEN "point" ELSE AfterPoint(s)
  <2>1. CASE fact[Run(s)].content = {}
    BY <1>6, <2>1, <1>o, StopEnds DEF ReadFirst
  <2>2. CASE fact[Run(s)].content # {}
    <3>1. session' = [session EXCEPT ![s].seen = fact[Run(s)], ![s].then = "compare",
                                     ![s].pc = pc]
      BY <1>6, <2>2 DEF ReadFirst
    <3>2. /\ pc \in {"point", PointNext(session[s].cmd)}
          /\ "move_pointer" \in session[s].cmd.flags => pc = "point"
      BY <1>a DEF Given
    <3> HIDE DEF pc
    <3>3. /\ session'[s].pc = pc /\ session'[s].then = "compare"
          /\ session'[s].cmd = session[s].cmd /\ session'[s].changes = session[s].changes
          /\ session'[s].made = session[s].made
      BY <3>1, <1>s DEF SessionStates
    <3> QED BY <1>6, <2>2, <3>2, <3>3 DEF ReadFirst, At, BuildMove, Run
  <2> QED BY <2>1, <2>2
<1>7. CASE Point(s)
  BY <1>7, <1>a, <1>o, GotoCarries, StopEnds DEF Point, SetPointer, At, BuildMove, Carried, Run
<1>8. CASE CompareRerun(s)
  BY <1>8, <1>a, <1>o, GotoCarries, StopEnds DEF CompareRerun, GotoIf, At, BuildMove, Carried
<1>9. CASE PointAway(s)
  BY <1>9, <1>s DEF PointAway, At, BuildMove, SessionStates
<1>10. CASE PointBack(s)
  BY <1>10, <1>o, GotoCarries, StopEnds DEF PointBack, SetPointer, At, BuildMove, Carried, Run
<1>11. CASE CompareUnharmed(s)
  BY <1>11, <1>o, GotoCarries, StopEnds DEF CompareUnharmed, GotoIf, At, BuildMove, Carried
<1> QED
  BY <1>1, <1>2, <1>3, <1>4, <1>5, <1>6, <1>7, <1>8, <1>9, <1>10, <1>11 DEF Publish

LEMMA FreezeMoves ==
  ASSUME TypeOK, NEW s \in Sessions, Freeze(s)
  PROVE  Ended(session'[s]) \/ FreezeMove(session[s], session'[s])
<1>s. session \in [Sessions -> SessionStates] /\ session[s] \in SessionStates
  BY DEF TypeOK
<1>o. {"done", "refused"} \subseteq Outcomes
  BY DEF Outcomes
<1>1. CASE ReadIdentity(s)
  BY <1>1, <1>s DEF ReadIdentity, At, FreezeMove, SessionStates
<1>2. CASE ReadDigest(s)
  <2> DEFINE made == [content |-> fact[Run(s)].content, stamp |-> session[s].seen.stamp]
  <2>1. CASE session' = [session EXCEPT ![s].pc = "create", ![s].made = made]
    BY <1>2, <2>1, <1>s DEF ReadDigest, At, FreezeMove, SessionStates
  <2>2. CASE Stop(s, "refused")
    BY <2>2, <1>o, StopEnds
  <2> QED BY <1>2, <2>1, <2>2 DEF ReadDigest
<1>3. CASE CreateRegistry(s) \/ RegisterBaseline(s)
  BY <1>3, GotoCarries DEF CreateRegistry, RegisterBaseline, At, FreezeMove, Carried
<1>4. CASE ReadBack(s)
  BY <1>4, <1>o, StopEnds DEF ReadBack
<1> QED BY <1>1, <1>2, <1>3, <1>4 DEF Freeze

LEMMA RestateMoves ==
  ASSUME TypeOK, NEW s \in Sessions, Restate(s)
  PROVE  Ended(session'[s]) \/ RestateMove(session[s], session'[s])
<1>s. session \in [Sessions -> SessionStates] /\ session[s] \in SessionStates
  BY DEF TypeOK
<1>o. {"refused", "crashed"} \subseteq Outcomes
  BY DEF Outcomes
<1>1. CASE ReadBaseline(s)
  <2> DEFINE rows == registry[PriorPublication].rows
  <2>1. CASE session' = [session EXCEPT ![s].pc = "before", ![s].seen = rows]
    BY <1>1, <2>1, <1>s DEF ReadBaseline, At, RestateMove, SessionStates
  <2>2. CASE Stop(s, "refused")
    BY <2>2, <1>o, StopEnds
  <2> QED BY <1>1, <2>1, <2>2 DEF ReadBaseline
<1>2. CASE VerifyRestatedMatches(s)
  BY <1>2, <1>o, CallDbtMoves, StopEnds DEF VerifyRestatedMatches, At, RestateMove
<1>3. CASE Identify(s)
  <2>1. CASE session' = [session EXCEPT ![s].made = fact[Run(s)],
                           ![s].pc = "select_delta", ![s].then = "after"]
    BY <1>3, <2>1, <1>s DEF Identify, At, RestateMove, SessionStates
  <2>2. CASE Stop(s, "refused")
    BY <2>2, <1>o, StopEnds
  <2> QED BY <1>3, <2>1, <2>2 DEF Identify
<1>4. CASE DigestBefore(s) \/ DigestAfter(s) \/ RegisterRestatement(s)
  BY <1>4, <1>o, GotoCarries, StopEnds
     DEF DigestBefore, DigestAfter, RegisterRestatement, GotoIf, At, RestateMove, Carried
<1>5. CASE MovePointer(s)
  BY <1>5, <1>o, GotoCarries, StopEnds DEF MovePointer, GotoIf, At, RestateMove, Carried, Run
<1> QED BY <1>1, <1>2, <1>3, <1>4, <1>5 DEF Restate

\* The moves cover every step.
LEMMA StepsAreMoves ==
  ASSUME TypeOK, NEW s \in Sessions, Start(s) \/ Continue(s) \/ Abort(s)
  PROVE  Moves(session[s], session'[s])
<1>1. CASE Abort(s)
  BY <1>1, StopEnds DEF Abort, Outcomes, Moves
<1> QED BY <1>1, StartMoves, DbtMoves, PublishMoves, FreezeMoves, RestateMoves DEF Continue, Moves

-----------------------------------------------------------------------------
(* The registry *)

\* Neither MERGE of the registry changes an entry, but for its frozen flag.
LEMMA EntriesStay ==
  ASSUME TypeOK, [Next]_vars, NEW id \in PublicationIds, registry[id] # NoEntry
  PROVE  registry'[id] \in {registry[id], [registry[id] EXCEPT !.frozen = FALSE]}
<1>s. registry \in [PublicationIds -> Entries \cup {NoEntry}]
  BY DEF TypeOK
<1>1. CASE registry' = registry
  BY <1>1
<1>2. ASSUME NEW s \in Sessions, RegisterBaseline(s)
      PROVE  registry'[id] \in {registry[id], [registry[id] EXCEPT !.frozen = FALSE]}
  BY <1>2, <1>s DEF RegisterBaseline
<1>3. ASSUME NEW s \in Sessions, RegisterRestatement(s)
      PROVE  registry'[id] = registry[id]
  BY <1>3, <1>s DEF RegisterRestatement
<1> QED BY <1>1, <1>2, <1>3, OnlyTwoRegister DEF Next, vars, pubVars

\* However many sessions freeze and restate at once: an entry, once written, keeps
\* everything but its frozen flag. (The two MERGEs of freeze_baseline.py and
\* publish_restatement.py.)
THEOREM RegistryOnlyGrows == Spec => RegistryIsAppendOnly
<1> DEFINE Kept == \A id \in PublicationIds :
                     registry[id] # NoEntry =>
                       registry'[id] \in {registry[id], [registry[id] EXCEPT !.frozen = FALSE]}
<1>1. TypeOK /\ [Next]_vars => [Kept]_vars
  BY EntriesStay
<1> QED BY <1>1, TypeCorrect, PTL DEF Spec, RegistryIsAppendOnly

-----------------------------------------------------------------------------
(* The delta mart and the pointer, with any number of sessions *)

\* Programs keep to their own steps, and come back from dbt where they left.
Walking(x) ==
  /\ x.then \in {"idle", "first", "identify", "compare", "after"}
  /\ x.pc \in PublishSteps \ {"test"} \/ x.then \in {"first", "compare"}
       => x.cmd.name = "publish"
  /\ x.pc \in RestateSteps \/ x.then \in {"identify", "after"} => x.cmd.name = "restate"
  /\ x.pc \in FreezeSteps => x.cmd.name = "freeze" /\ x.cmd.run = PriorRun
  /\ x.cmd.name = "restate" => x.cmd.flags \subseteq {"allow_new_publication"}
  /\ x.pc \in {"point", "compare", "away", "back", "unharmed"} => x.then = "compare"
  /\ x.pc \in {"after", "enter", "move"} => x.then = "after"
  /\ x.changes # {} => x.pc = "merge_delta"

\* Two sides of a change were published: the baseline's, and those of the run.
Compares(change, run) ==
  /\ change.prior # {} /\ change.prior \subseteq fact[PriorRun].content
  /\ change.new \subseteq fact[run].content

\* What a program read of the fact before it moves CURRENT, or merges a delta, has
\* not left the fact.
Standing(x) ==
  /\ x.pc = "registered" => x.seen.content \subseteq fact[x.cmd.run].content
  /\ x.pc = "promote" \/ x.then = "compare" => fact[x.cmd.run].content # {}
  /\ \A change \in x.changes : Compares(change, x.cmd.run)

Accounted ==
  /\ Backed
  /\ fact[PriorRun].content # {}
  /\ \A s \in Sessions : Walking(session[s]) /\ Standing(session[s])
  /\ DeltasComparePublications
  /\ CurrentHasRows

\* The only writer of the delta mart.
LEMMA OnlyMergeWritesTheDelta ==
  ASSUME NEW s \in Sessions, Start(s) \/ Continue(s) \/ Abort(s), ~MergeDelta(s)
  PROVE  delta' = delta
<1>1. CASE Start(s)
  BY <1>1 DEF Start, StartPublish, StartFreeze, StartRestate, StartBuild, Rematch, Reprocess,
              layerVars
<1>2. CASE Dbt(s)
  BY <1>2 DEF Dbt, Eligibility, Resolution, Disposition, Streams, SelectFact, MergeFact,
              SelectDelta, Reconciliation, Verify, Test, layerVars
<1>3. CASE Publish(s)
  BY <1>3 DEF Publish, VerifyFrozenInputs, ReadExisting, CompareWithRegistry, Promote,
              EnsurePointerTable, ReadFirst, Point, CompareRerun, PointAway, PointBack,
              CompareUnharmed, SetPointer, layerVars
<1>4. CASE Freeze(s)
  BY <1>4 DEF Freeze, ReadIdentity, ReadDigest, CreateRegistry, RegisterBaseline, ReadBack,
              layerVars
<1>5. CASE Restate(s)
  BY <1>5 DEF Restate, ReadBaseline, DigestBefore, VerifyRestatedMatches, Identify,
              DigestAfter, RegisterRestatement, MovePointer, layerVars
<1>6. CASE Abort(s)
  BY <1>6 DEF Abort, layerVars
<1> QED BY <1>1, <1>2, <1>3, <1>4, <1>5, <1>6 DEF Continue

\* The writers of the pointer, and what each writes.
LEMMA WhereThePointerGoes ==
  ASSUME NEW s \in Sessions, Start(s) \/ Continue(s) \/ Abort(s)
  PROVE  \/ pointer' = pointer
         \/ session[s].pc \in {"promote", "point", "back", "move"} /\ pointer' = Run(s)
         \/ session[s].pc = "ensure" /\ pointer' = NoRow
         \/ session[s].pc = "away" /\ pointer' = Parked
<1>1. CASE Start(s)
  BY <1>1 DEF Start, StartPublish, StartFreeze, StartRestate, StartBuild, Rematch, Reprocess,
              pubVars
<1>2. CASE Dbt(s)
  BY <1>2 DEF Dbt, Eligibility, Resolution, Disposition, Streams, SelectFact, MergeFact,
              SelectDelta, MergeDelta, Reconciliation, Verify, Test, pubVars
<1>3. CASE Publish(s)
  BY <1>3 DEF Publish, VerifyFrozenInputs, ReadExisting, CompareWithRegistry, Promote,
              EnsurePointerTable, ReadFirst, Point, CompareRerun, PointAway, PointBack,
              CompareUnharmed, SetPointer, At, pubVars
<1>4. CASE Freeze(s)
  BY <1>4 DEF Freeze, ReadIdentity, ReadDigest, CreateRegistry, RegisterBaseline, ReadBack,
              pubVars
<1>5. CASE Restate(s)
  BY <1>5 DEF Restate, ReadBaseline, DigestBefore, VerifyRestatedMatches, Identify,
              DigestAfter, RegisterRestatement, MovePointer, At, pubVars
<1>6. CASE Abort(s)
  BY <1>6 DEF Abort, pubVars
<1> QED BY <1>1, <1>2, <1>3, <1>4, <1>5, <1>6 DEF Continue

LEMMA WalkingMove ==
  ASSUME NEW x, NEW y, Walking(x), Moves(x, y)
  PROVE  Walking(y)
<1> USE DEF Walking, PublishSteps, FreezeSteps, RestateSteps
<1>1. CASE Ended(y)
  BY <1>1 DEF Ended, Idle, NoCommand
<1>2. CASE Begun(y)
  BY <1>2 DEF Begun
<1>3. CASE DbtMove(x, y)
  BY <1>3 DEF DbtMove
<1>4. CASE ValidationMove(x, y)
  BY <1>4 DEF ValidationMove
<1>5. CASE BuildMove(x, y)
  BY <1>5 DEF BuildMove, PointNext, RerunNext
<1>6. CASE FreezeMove(x, y)
  BY <1>6 DEF FreezeMove
<1>7. CASE RestateMove(x, y)
  BY <1>7 DEF RestateMove
<1> QED BY <1>1, <1>2, <1>3, <1>4, <1>5, <1>6, <1>7 DEF Moves

\* Rows that stand still stand after a step of another session.
LEMMA StandingStays ==
  ASSUME TypeOK, FactGrows, NEW t \in Sessions, Standing(session[t]), session'[t] = session[t]
  PROVE  Standing(session[t])'
<1>1. session[t].cmd.run \in Runs /\ PriorRun \in Runs
  BY RunsAssumption DEF TypeOK, SessionStates, Commands
<1>2. \A change \in session[t].changes : Compares(change, session[t].cmd.run)'
  BY <1>1 DEF Standing, Compares, FactGrows
<1> QED BY <1>1, <1>2 DEF Standing, FactGrows

LEMMA StandingMove ==
  ASSUME TypeOK, FactGrows, fact[PriorRun].content # {}, NEW s \in Sessions,
         Walking(session[s]), Standing(session[s]), Moves(session[s], session'[s])
  PROVE  Standing(session[s])'
<1> DEFINE x == session[s]
           y == session'[s]
           Stood(change) == /\ change.prior # {} /\ change.prior \subseteq fact'[PriorRun].content
                            /\ change.new \subseteq fact'[x.cmd.run].content
<1>s. x.cmd.run \in Runs /\ PriorRun \in Runs
  BY RunsAssumption DEF TypeOK, SessionStates, Commands
<1>k. \A change \in x.changes : Stood(change)
  BY <1>s DEF Standing, Compares, FactGrows
<1>w. ASSUME y.cmd = x.cmd, \A change \in y.changes : Stood(change),
             y.pc = "registered" => y.seen.content \subseteq fact'[x.cmd.run].content,
             y.pc = "promote" \/ y.then = "compare" => fact'[x.cmd.run].content # {}
      PROVE  Standing(session[s])'
  BY <1>w DEF Standing, Compares
<1>g. fact[x.cmd.run].content # {} => fact'[x.cmd.run].content # {}
  BY <1>s DEF FactGrows
<1>1. CASE Ended(y)
  BY <1>1 DEF Ended, Idle, Standing
<1>2. CASE Begun(y)
  BY <1>2 DEF Begun, Standing
<1>3. CASE DbtMove(x, y)
  <2>1. ASSUME NEW change \in y.changes PROVE Stood(change)
    <3>1. CASE y.changes = SelectRestatement(x.cmd.run, x.cmd.rid)
      BY <2>1, <3>1, <1>s DEF SelectRestatement, FactGrows
    <3> QED BY <1>3, <1>k, <2>1, <3>1 DEF DbtMove
  <2>2. y.pc \notin {"registered", "promote"}
    BY <1>3 DEF DbtMove, Walking
  <2> QED BY <1>3, <1>g, <1>w, <2>1, <2>2 DEF DbtMove, Standing
<1>4. CASE ValidationMove(x, y)
  <2>1. y.pc = "registered" => y.seen.content \subseteq fact'[x.cmd.run].content
    BY <1>4, <1>s DEF ValidationMove, FactGrows
  <2>2. y.pc = "promote" => fact'[x.cmd.run].content # {}
    BY <1>4, <1>s DEF ValidationMove, FactGrows, Standing
  <2> QED BY <1>4, <1>k, <1>g, <1>w, <2>1, <2>2 DEF ValidationMove, Standing
<1>5. CASE BuildMove(x, y)
  <2>1. y.pc \notin {"registered", "promote"}
    BY <1>5 DEF BuildMove, PointNext, RerunNext
  <2> QED BY <1>5, <1>k, <1>g, <1>w, <2>1 DEF BuildMove, Standing
<1>6. CASE FreezeMove(x, y)
  BY <1>6, <1>k, <1>g, <1>w DEF FreezeMove, Standing
<1>7. CASE RestateMove(x, y)
  BY <1>7, <1>k, <1>g, <1>w DEF RestateMove, Standing
<1> QED BY <1>1, <1>2, <1>3, <1>4, <1>5, <1>6, <1>7, StandingStays DEF Moves

\* The strengthened invariant is kept by every step.
LEMMA AccountedStep == TypeOK /\ Accounted /\ [Next]_vars => Accounted'
<1> SUFFICES ASSUME TypeOK, Accounted, [Next]_vars PROVE Accounted'
  OBVIOUS
<1>b. Backed'
  BY BackedStep DEF Accounted
<1>g. FactGrows /\ PriorRun \in Runs
  BY RowsStay, RunsAssumption
<1>p. fact'[PriorRun].content # {}
  BY <1>g DEF Accounted, FactGrows
<1>r. \A s \in Sessions : session[s].cmd.run \in Runs
  BY DEF TypeOK, SessionStates, Commands
<1>d. (delta' = delta) => DeltasComparePublications'
  BY <1>g DEF Accounted, DeltasComparePublications, FactGrows
<1>c. (pointer' = pointer) => CurrentHasRows'
  BY <1>g DEF Accounted, CurrentHasRows, FactGrows
<1>1. ASSUME NEW s \in Sessions, Start(s) \/ Continue(s) \/ Abort(s)
      PROVE  Accounted'
  <2>1. \A t \in Sessions : Walking(session[t])' /\ Standing(session[t])'
    <3> SUFFICES ASSUME NEW t \in Sessions PROVE Walking(session[t])' /\ Standing(session[t])'
      OBVIOUS
    <3>1. CASE t = s
      BY <3>1, <1>1, <1>g, StepsAreMoves, WalkingMove, StandingMove DEF Accounted
    <3>2. CASE t # s
      BY <3>2, <1>1, <1>g, <1>r, OthersWait, StandingStays DEF Accounted
    <3> QED BY <3>1, <3>2
  <2>2. DeltasComparePublications'
    <3>1. CASE MergeDelta(s)
      <4>1. delta' = [delta EXCEPT ![Rid(s)] = @ \cup session[s].changes] /\ fact' = fact
        BY <3>1 DEF MergeDelta, MergeRestatement
      <4>2. \A change \in session[s].changes : Compares(change, session[s].cmd.run)
        BY DEF Accounted, Standing
      <4>3. delta \in [RestatementIds -> SUBSET Changes]
        BY DEF TypeOK, LayerTypeOK
      <4> QED BY <4>1, <4>2, <4>3, <1>r DEF Accounted, DeltasComparePublications, Compares
    <3> QED BY <1>1, <1>d, <3>1, OnlyMergeWritesTheDelta
  <2>3. CurrentHasRows'
    <3>1. CASE session[s].pc \in {"promote", "point", "back", "move"} /\ pointer' = Run(s)
      <4>1. fact[Run(s)].content # {}
        BY <3>1, <1>r DEF Accounted, Walking, Standing, Backed, Holding, Run
      <4> QED BY <3>1, <4>1, <1>g, <1>r DEF CurrentHasRows, FactGrows, Run
    <3>2. CASE pointer' \in {NoRow, Parked}
      BY <3>2, SessionsAssumption DEF CurrentHasRows
    <3> QED BY <1>1, <1>c, <3>1, <3>2, WhereThePointerGoes
  <2> QED BY <1>b, <1>p, <2>1, <2>2, <2>3 DEF Accounted
<1>2. CASE UNCHANGED vars
  <2>1. \A t \in Sessions : Walking(session[t])' /\ Standing(session[t])'
    BY <1>2, <1>g, <1>r, StandingStays DEF Accounted, vars
  <2> QED BY <1>2, <1>b, <1>p, <1>c, <1>d, <2>1 DEF Accounted, vars, layerVars, pubVars
<1> QED BY <1>1, <1>2 DEF Next

\* It holds before the baseline is frozen.
LEMMA AccountedInit == Init => Accounted
<1> SUFFICES ASSUME Init PROVE Accounted
  OBVIOUS
<1>1. Backed
  BY SerialInit DEF Serial
<1>2. fact[PriorRun].content # {}
  BY RunsAssumption DEF Init
<1>3. \A s \in Sessions : Walking(session[s]) /\ Standing(session[s])
  BY DEF Init, Idle, NoCommand, Walking, Standing, PublishSteps, RestateSteps, FreezeSteps
<1>4. DeltasComparePublications
  BY DEF Init, DeltasComparePublications
<1>5. CurrentHasRows
  BY <1>2, SessionsAssumption DEF Init, CurrentHasRows
<1> QED BY <1>1, <1>2, <1>3, <1>4, <1>5 DEF Accounted

\* However many sessions build and restate at once, and wherever they are killed: a
\* row of fct_restatements compares rows of the baseline with rows of a publication,
\* both in the fact, and never an empty baseline.
THEOREM DeltasTellPublications == Spec => []DeltasComparePublications
<1>1. Accounted => DeltasComparePublications
  BY DEF Accounted
<1> QED BY <1>1, AccountedInit, AccountedStep, TypeCorrect, PTL DEF Spec

\* ... and fct_royalty_attribution_current is never an empty publication: each of the
\* four places that move the pointer does so after it saw rows that are still there.
THEOREM CurrentIsNeverEmpty == Spec => []CurrentHasRows
<1>1. Accounted => CurrentHasRows
  BY DEF Accounted
<1> QED BY <1>1, AccountedInit, AccountedStep, TypeCorrect, PTL DEF Spec

-----------------------------------------------------------------------------
(* One session at a time *)

\* A publisher past its promotion, except while a proof parks CURRENT.
Promoted(x) ==
  /\ x.cmd.name = "publish" /\ "move_pointer" \in x.cmd.flags
  /\ x.then = "compare" \/ x.pc = "test"
  /\ x.pc \notin {"point", "back"}

\* What a lone session found, before it writes, is still so when it writes: the
\* restatement has no delta yet, and the one about to be merged is of the
\* publications that stand; a publication that is being built is not registered;
\* what was promoted is in force until the program ends, except while a proof parks
\* it; and a program that runs has no outcome yet.
Alone(x) ==
  /\ x.changes # {} =>
       /\ delta[x.cmd.rid] = {}
       /\ x.changes = {[prior |-> fact[PriorRun].content, new |-> fact[x.cmd.run].content]}
  /\ Promoted(x) => pointer = x.cmd.run
  /\ x.cmd.name = "restate" /\ x.pc = "test" => pointer \in {x.cmd.run, NoRow}
  /\ x.cmd.name # "none" => x.outcome = "none"
  /\ x.cmd.name = "publish" /\ x.pc \notin {"inputs", "existing", "registered", "promote"}
       => EntriesOf(x.cmd.run) = {}

Lone == Serial /\ Accounted /\ \A s \in Sessions : Alone(session[s])

\* A session has changes to merge only from its select to its merge.
LEMMA ChangesAreFresh ==
  ASSUME NEW x, NEW y, Walking(x), Moves(x, y), y.changes # {}
  PROVE  \/ y = x /\ x.pc = "merge_delta"
         \/ /\ x.pc = "select_delta" /\ y.cmd = x.cmd
            /\ y.changes = SelectRestatement(x.cmd.run, x.cmd.rid)
<1>w. x.changes # {} => x.pc = "merge_delta"
  BY DEF Walking
<1>1. CASE Ended(y)
  BY <1>1 DEF Ended, Idle
<1>2. CASE Begun(y)
  BY <1>2 DEF Begun
<1>3. CASE DbtMove(x, y)
  BY <1>3, <1>w DEF DbtMove
<1>4. CASE ValidationMove(x, y)
  BY <1>4, <1>w DEF ValidationMove
<1>5. CASE BuildMove(x, y)
  BY <1>5, <1>w DEF BuildMove
<1>6. CASE FreezeMove(x, y)
  BY <1>6, <1>w DEF FreezeMove
<1>7. CASE RestateMove(x, y)
  BY <1>7, <1>w DEF RestateMove
<1> QED BY <1>1, <1>2, <1>3, <1>4, <1>5, <1>6, <1>7, <1>w DEF Moves

\* A publisher starts to build only what it found unregistered.
LEMMA BuildsTheUnregistered ==
  ASSUME NEW x, NEW y, Walking(x), Moves(x, y), Alone(x), y.cmd.name = "publish",
         y.pc \notin {"inputs", "existing", "registered", "promote"}
  PROVE  y.cmd = x.cmd /\ EntriesOf(x.cmd.run) = {}
<1>1. CASE Ended(y)
  BY <1>1 DEF Ended, Idle, NoCommand
<1>2. CASE Begun(y)
  BY <1>2 DEF Begun
<1>3. CASE DbtMove(x, y)
  BY <1>3 DEF DbtMove, Alone
<1>4. CASE ValidationMove(x, y)
  BY <1>4 DEF ValidationMove
<1>5. CASE BuildMove(x, y)
  BY <1>5 DEF BuildMove, Alone
<1>6. CASE FreezeMove(x, y)
  BY <1>6 DEF FreezeMove, Alone
<1>7. CASE RestateMove(x, y)
  BY <1>7 DEF RestateMove, Alone
<1> QED BY <1>1, <1>2, <1>3, <1>4, <1>5, <1>6, <1>7 DEF Moves, Alone

\* The steps that end a program well.
EndsWell(s) ==
  \/ Promote(s) \/ Test(s) \/ ReadBack(s)
  \/ CompareWithRegistry(s) /\ ~Given(s, "move_pointer")
  \/ Verify(s) /\ session[s].cmd.name = "build"

\* A program has no outcome before its last step.
LEMMA WhereOutcomesComeFrom ==
  ASSUME TypeOK, NEW s \in Sessions, Start(s) \/ Continue(s) \/ Abort(s)
  PROVE  \/ /\ session'[s].cmd = session[s].cmd
            /\ session'[s].outcome = session[s].outcome
         \/ session'[s].outcome = "none"
         \/ \E outcome \in Outcomes :
              session'[s] = Idle(outcome) /\ (outcome = "done" => EndsWell(s))
<1> DEFINE Open == /\ session'[s].cmd = session[s].cmd
                   /\ session'[s].outcome = session[s].outcome
           Over == \E outcome \in Outcomes :
              session'[s] = Idle(outcome) /\ (outcome = "done" => EndsWell(s))
<1>s. session \in [Sessions -> SessionStates] /\ session[s] \in SessionStates
  BY DEF TypeOK
<1>g. \A pc : Goto(s, pc) => Open
  BY <1>s DEF Goto, SessionStates
<1>r. Stop(s, "refused") \/ Stop(s, "crashed") \/ Stop(s, "none") => Over
  BY <1>s DEF Stop, Outcomes
<1>d. Stop(s, "done") /\ EndsWell(s) => Over
  BY <1>s DEF Stop, Outcomes
<1>c. \A first, then : CallDbt(s, first, then) => Open
  BY <1>s DEF CallDbt, SessionStates
<1>b. \A cmd, pc : Begin(s, cmd, pc) => session'[s].outcome = "none"
  BY <1>s DEF Begin, Idle
<1>0. CASE session' = session
  BY <1>0
<1> HIDE DEF Open, Over
<1>1. CASE Start(s)
  BY <1>1, <1>b, <1>0 DEF Start, StartPublish, StartFreeze, StartRestate, StartBuild, Rematch,
                          Reprocess
<1>2. CASE Dbt(s)
  <2>1. CASE Eligibility(s) \/ Resolution(s) \/ Disposition(s) \/ Streams(s) \/ Reconciliation(s)
    BY <2>1, <1>g, <1>r DEF Eligibility, Resolution, Disposition, Streams, Reconciliation, Open,
                            Over
  <2>2. CASE SelectFact(s) \/ MergeFact(s) \/ MergeDelta(s)
    BY <2>2, <1>s DEF SelectFact, MergeFact, MergeDelta, SessionStates, Open
  <2>3. CASE SelectDelta(s)
    <3> DEFINE changes == SelectRestatement(Run(s), Rid(s))
    <3>1. CASE session' = [session EXCEPT ![s].pc = "merge_delta", ![s].changes = changes]
      <4> HIDE DEF changes
      <4> QED BY <3>1, <1>s DEF SessionStates, Open
    <3> QED BY <2>3, <3>1, <1>r DEF SelectDelta, Over, Open
  <2>4. CASE Verify(s)
    BY <2>4, <1>g, <1>r, <1>d DEF Verify, GotoIf, EndsWell, Over, Open
  <2>5. CASE Test(s)
    BY <2>5, <1>r, <1>d DEF Test, EndsWell, Over, Open
  <2> QED BY <1>2, <2>1, <2>2, <2>3, <2>4, <2>5 DEF Dbt
<1>3. CASE Publish(s)
  <2>1. CASE VerifyFrozenInputs(s) \/ Point(s) \/ CompareRerun(s) \/ PointBack(s)
             \/ CompareUnharmed(s) \/ EnsurePointerTable(s)
    BY <2>1, <1>g, <1>r, <1>c DEF VerifyFrozenInputs, Point, CompareRerun, PointBack, SetPointer,
                                  CompareUnharmed, EnsurePointerTable, GotoIf, Over, Open
  <2>2. CASE ReadExisting(s) \/ PointAway(s)
    BY <2>2, <1>s DEF ReadExisting, PointAway, SessionStates, Open
  <2>3. CASE CompareWithRegistry(s)
    BY <2>3, <1>g, <1>r, <1>d DEF CompareWithRegistry, GotoIf, EndsWell, Over, Open
  <2>4. CASE Promote(s)
    BY <2>4, <1>r, <1>d DEF Promote, EndsWell, Over, Open
  <2>5. CASE ReadFirst(s)
    BY <2>5, <1>s, <1>r DEF ReadFirst, SessionStates, Over, Open
  <2> QED BY <1>3, <2>1, <2>2, <2>3, <2>4, <2>5 DEF Publish
<1>4. CASE Freeze(s)
  <2>1. CASE CreateRegistry(s) \/ RegisterBaseline(s)
    BY <2>1, <1>g DEF CreateRegistry, RegisterBaseline, Open
  <2>2. CASE ReadIdentity(s)
    BY <2>2, <1>s DEF ReadIdentity, SessionStates, Open
  <2>3. CASE ReadDigest(s)
    <3> DEFINE made == [content |-> fact[Run(s)].content, stamp |-> session[s].seen.stamp]
    <3>1. CASE session' = [session EXCEPT ![s].pc = "create", ![s].made = made]
      <4> HIDE DEF made
      <4> QED BY <3>1, <1>s DEF SessionStates, Open
    <3> QED BY <2>3, <3>1, <1>r DEF ReadDigest, Over, Open
  <2>4. CASE ReadBack(s)
    BY <2>4, <1>r, <1>d DEF ReadBack, EndsWell, Over, Open
  <2> QED BY <1>4, <2>1, <2>2, <2>3, <2>4 DEF Freeze
<1>5. CASE Restate(s)
  <2>1. CASE DigestBefore(s) \/ VerifyRestatedMatches(s) \/ DigestAfter(s)
             \/ RegisterRestatement(s) \/ MovePointer(s)
    BY <2>1, <1>g, <1>r, <1>c DEF DigestBefore, VerifyRestatedMatches, DigestAfter,
                                  RegisterRestatement, MovePointer, GotoIf, Over, Open
  <2>2. CASE ReadBaseline(s) \/ Identify(s)
    BY <2>2, <1>s, <1>r DEF ReadBaseline, Identify, SessionStates, Over, Open
  <2> QED BY <1>5, <2>1, <2>2 DEF Restate
<1>6. CASE Abort(s)
  BY <1>6, <1>r DEF Abort, Over, Open
<1> QED BY <1>1, <1>2, <1>3, <1>4, <1>5, <1>6 DEF Continue, Open, Over

LEMMA AloneStep ==
  ASSUME TypeOK, Lone, NEW s \in Sessions, Start(s) \/ Continue(s) \/ Abort(s)
  PROVE  Alone(session[s])'
<1> DEFINE x == session[s]
           y == session'[s]
<1>w. Walking(x) /\ Alone(x)
  BY DEF Lone, Accounted
<1>m. Moves(x, y)
  BY StepsAreMoves
<1>1. ASSUME y.changes # {}
      PROVE  /\ delta'[y.cmd.rid] = {}
             /\ y.changes = {[prior |-> fact'[PriorRun].content,
                              new |-> fact'[y.cmd.run].content]}
  <2>1. CASE /\ x.pc = "select_delta" /\ y.cmd = x.cmd
             /\ y.changes = SelectRestatement(x.cmd.run, x.cmd.rid)
    <3>1. fact' = fact /\ delta' = delta
      BY <2>1, OnlyMergeWritesTheFact, OnlyMergeWritesTheDelta DEF MergeFact, MergeDelta, At
    <3> QED BY <1>1, <2>1, <3>1 DEF SelectRestatement
  <2>2. CASE y = x /\ x.pc = "merge_delta"
    <3>1. ~MergeFact(s)
      BY <2>2 DEF MergeFact, At
    <3>2. ~MergeDelta(s)
      BY <2>2 DEF MergeDelta, TypeOK, SessionStates
    <3>3. fact' = fact /\ delta' = delta
      BY <3>1, <3>2, OnlyMergeWritesTheFact, OnlyMergeWritesTheDelta
    <3> QED BY <1>1, <2>2, <3>3, <1>w DEF Alone
  <2> QED BY <1>1, <1>w, <1>m, <2>1, <2>2, ChangesAreFresh
<1>p. x.pc \notin {"promote", "point", "back", "move", "ensure", "away"} => pointer' = pointer
  BY WhereThePointerGoes
<1>2. ASSUME Promoted(y)
      PROVE  pointer' = y.cmd.run
  <2> USE DEF Promoted
  <2>1. CASE y = x /\ pointer' = pointer
    BY <1>2, <2>1, <1>w DEF Alone
  <2>2. CASE BuildMove(x, y)
    BY <1>2, <2>2, <1>p, <1>w DEF BuildMove, PointNext, RerunNext, Alone, Walking
  <2>3. CASE RestateMove(x, y)
    BY <1>2, <2>3, <1>w DEF RestateMove, Walking, RestateSteps
  <2>4. CASE DbtMove(x, y)
    BY <1>2, <2>4, <1>w, <1>p DEF DbtMove, Walking, Alone
  <2>5. CASE Ended(y)
    BY <1>2, <2>5 DEF Ended, Idle, NoCommand
  <2>6. CASE Begun(y)
    BY <1>2, <2>6 DEF Begun
  <2>7. CASE ValidationMove(x, y)
    BY <1>2, <2>7, <1>w, <1>p DEF ValidationMove, Alone
  <2>8. CASE FreezeMove(x, y)
    BY <1>2, <2>8, <1>w DEF FreezeMove, Walking, FreezeSteps
  <2> QED BY <1>m, <2>1, <2>2, <2>3, <2>4, <2>5, <2>6, <2>7, <2>8 DEF Moves
<1>3. ASSUME y.cmd.name = "publish",
             y.pc \notin {"inputs", "existing", "registered", "promote"}
      PROVE  EntriesOf(session[s].cmd.run)' = {}
  <2>1. y.cmd = x.cmd /\ EntriesOf(x.cmd.run) = {}
    BY <1>3, <1>m, <1>w, BuildsTheUnregistered
  <2>2. x.pc \notin {"register", "enter"}
    BY <1>3, <2>1, <1>w DEF Walking, FreezeSteps, RestateSteps
  <2>3. registry' = registry
    BY <2>2, OnlyTwoRegister DEF RegisterBaseline, RegisterRestatement, At
  <2> QED BY <2>1, <2>3 DEF EntriesOf
<1>4. ASSUME y.cmd.name = "restate", y.pc = "test"
      PROVE  pointer' \in {y.cmd.run, NoRow}
  <2>1. CASE y = x /\ pointer' = pointer
    BY <1>4, <2>1, <1>w DEF Alone
  <2>2. CASE RestateMove(x, y)
    BY <1>4, <2>2 DEF RestateMove
  <2>3. CASE Ended(y)
    BY <1>4, <2>3 DEF Ended, Idle, NoCommand
  <2>6. CASE Begun(y)
    BY <1>4, <2>6 DEF Begun
  <2>4. CASE DbtMove(x, y) \/ ValidationMove(x, y) \/ FreezeMove(x, y)
    BY <1>4, <2>4, <1>w DEF DbtMove, ValidationMove, FreezeMove, Walking
  <2>5. CASE BuildMove(x, y)
    BY <1>4, <2>5, <1>w DEF BuildMove, Walking, PublishSteps
  <2> QED BY <1>m, <2>1, <2>2, <2>3, <2>4, <2>5, <2>6 DEF Moves
<1>5. y.cmd.name # "none" => y.outcome = "none"
  <2>1. ASSUME NEW outcome, y = Idle(outcome)
        PROVE  y.cmd.name = "none"
    BY <2>1 DEF Idle, NoCommand
  <2>2. x.cmd.name # "none" => x.outcome = "none"
    BY <1>w DEF Alone
  <2>3. \/ y.cmd = x.cmd /\ y.outcome = x.outcome
        \/ y.outcome = "none"
        \/ \E outcome \in Outcomes : y = Idle(outcome)
    BY WhereOutcomesComeFrom
  <2> QED BY <2>1, <2>2, <2>3
<1> QED BY <1>1, <1>2, <1>3, <1>4, <1>5 DEF Alone

LEMMA LoneStep ==
  ASSUME \A p, q \in Sessions : p = q
  PROVE  TypeOK /\ Lone /\ [Next]_vars => Lone'
<1> SUFFICES ASSUME TypeOK, Lone, [Next]_vars PROVE Lone'
  OBVIOUS
<1>1. Serial' /\ Accounted'
  BY SerialStep, AccountedStep DEF Lone
<1>2. ASSUME NEW s \in Sessions, Start(s) \/ Continue(s) \/ Abort(s)
      PROVE  \A t \in Sessions : Alone(session[t])'
  <2>1. Alone(session[s])'
    BY <1>2, AloneStep
  <2>2. Sessions = {s}
    OBVIOUS
  <2> QED BY <2>1, <2>2
<1>3. ASSUME UNCHANGED vars
      PROVE  \A t \in Sessions : Alone(session[t])'
  BY <1>3 DEF Lone, Alone, EntriesOf, vars, layerVars, pubVars
<1> QED BY <1>1, <1>2, <1>3 DEF Lone, Next

LEMMA LoneInit == Init => Lone
<1>1. Init => \A s \in Sessions : Alone(session[s])
  BY DEF Init, Alone, Promoted, Idle, NoCommand
<1> QED BY <1>1, SerialInit, AccountedInit DEF Lone

\* Only dbt rebuilds tables.
LEMMA OnlyDbtRebuilds ==
  ASSUME NEW s \in Sessions, Start(s) \/ Continue(s) \/ Abort(s), ~Dbt(s)
  PROVE  derived' = derived /\ recon' = recon
<1>1. CASE Start(s)
  BY <1>1 DEF Start, StartPublish, StartFreeze, StartRestate, StartBuild, Rematch, Reprocess,
              layerVars
<1>2. CASE Publish(s)
  BY <1>2 DEF Publish, VerifyFrozenInputs, ReadExisting, CompareWithRegistry, Promote,
              EnsurePointerTable, ReadFirst, Point, CompareRerun, PointAway, PointBack,
              CompareUnharmed, SetPointer, layerVars
<1>3. CASE Freeze(s)
  BY <1>3 DEF Freeze, ReadIdentity, ReadDigest, CreateRegistry, RegisterBaseline, ReadBack,
              layerVars
<1>4. CASE Restate(s)
  BY <1>4 DEF Restate, ReadBaseline, DigestBefore, VerifyRestatedMatches, Identify,
              DigestAfter, RegisterRestatement, MovePointer, layerVars
<1>5. CASE Abort(s)
  BY <1>5 DEF Abort, layerVars
<1> QED BY <1>1, <1>2, <1>3, <1>4, <1>5 DEF Continue

\* "Validated, not rebuilt" (publish.py): under one session at a time, a publisher whose
\* run is registered with the rows that stand in the fact writes nothing but the pointer,
\* at every step it takes and whatever its flags.
THEOREM RepublishingValidates ==
  ASSUME \A p, q \in Sessions : p = q
  PROVE  Spec => RepublishingOnlyValidates
<1> DEFINE Validated(s) ==
             /\ session[s].cmd.name = "publish"
             /\ \E id \in EntriesOf(Run(s)) : registry[id].rows.content = fact[Run(s)].content
           Quiet == \A s \in Sessions :
                      Validated(s) => UNCHANGED <<derived, fact, delta, recon, registry>>
<1>1. TypeOK /\ Lone /\ [Next]_vars => [Quiet]_vars
  <2> SUFFICES ASSUME TypeOK, Lone, NEW s \in Sessions, Start(s) \/ Continue(s) \/ Abort(s),
                      NEW t \in Sessions, Validated(t)
               PROVE  UNCHANGED <<derived, fact, delta, recon, registry>>
    BY DEF Next
  <2>1. t = s
    OBVIOUS
  <2>2. session[s].pc \in {"inputs", "existing", "registered", "promote"}
    BY <2>1 DEF Lone, Alone, Run
  <2>3. ~Dbt(s) /\ ~RegisterBaseline(s) /\ ~RegisterRestatement(s)
    BY <2>2 DEF Dbt, Eligibility, Resolution, Disposition, Streams, SelectFact, MergeFact,
                SelectDelta, MergeDelta, Reconciliation, Verify, Test, RegisterBaseline,
                RegisterRestatement, At
  <2> QED BY <2>3, OnlyDbtRebuilds, OnlyMergeWritesTheFact, OnlyMergeWritesTheDelta,
             OnlyTwoRegister DEF Dbt
<1> QED BY <1>1, LoneInit, LoneStep, TypeCorrect, PTL DEF Spec, RepublishingOnlyValidates

\* "pointer_moved" (publish.py's report): with one session at a time, a publisher told to
\* move CURRENT, and a restater, end well only with CURRENT on what they published, also
\* where a publisher died before with CURRENT parked. (A restater leaves CURRENT unset
\* where it was never set.)
THEOREM ReportsOfThePointerAreTrue ==
  ASSUME \A p, q \in Sessions : p = q
  PROVE  Spec => ReportedPromotionIsInForce
<1> DEFINE True(s) ==
             session'[s].outcome = "done" =>
               /\ session[s].cmd.name = "publish" /\ Given(s, "move_pointer")
                    => pointer' = Run(s)
               /\ session[s].cmd.name = "restate" => pointer' \in {Run(s), NoRow}
           Reported == \A s \in Sessions : True(s)
<1>1. TypeOK /\ Lone /\ [Next]_vars => [Reported]_vars
  <2> SUFFICES ASSUME TypeOK, Lone, NEW s \in Sessions, Start(s) \/ Continue(s) \/ Abort(s)
               PROVE  True(s)
    BY DEF Next
  <2>w. Walking(session[s]) /\ Alone(session[s])
    BY DEF Lone, Accounted
  <2>1. SUFFICES ASSUME session'[s].outcome = "done", session[s].cmd.name # "none"
                 PROVE  True(s)
    OBVIOUS
  <2>2. EndsWell(s) /\ session'[s] = Idle("done")
    <3>1. PICK outcome \in Outcomes :
            session'[s] = Idle(outcome) /\ (outcome = "done" => EndsWell(s))
      <4>1. session[s].outcome = "none"
        BY <2>1, <2>w DEF Alone
      <4> QED BY <2>1, <4>1, WhereOutcomesComeFrom
    <3>2. outcome = "done"
      BY <2>1, <3>1 DEF Idle
    <3> QED BY <3>1, <3>2
  <2>3. CASE Promote(s)
    <3>1. pointer' = Run(s)
      BY <2>2, <2>3 DEF Promote, Stop, Idle, TypeOK
    <3> QED BY <2>3, <2>w, <3>1 DEF Promote, At, Walking, PublishSteps
  <2>4. CASE Test(s)
    BY <2>4, <2>w DEF Test, At, Alone, Promoted, Given, Run, pubVars
  <2>5. CASE ReadBack(s)
    BY <2>5, <2>w DEF ReadBack, At, Walking, FreezeSteps
  <2>6. CASE CompareWithRegistry(s) /\ ~Given(s, "move_pointer")
    BY <2>6, <2>w DEF CompareWithRegistry, At, Walking, PublishSteps
  <2>7. CASE Verify(s) /\ session[s].cmd.name = "build"
    BY <2>7
  <2> QED BY <2>2, <2>3, <2>4, <2>5, <2>6, <2>7 DEF EndsWell
<1> QED BY <1>1, LoneInit, LoneStep, TypeCorrect, PTL DEF Spec, ReportedPromotionIsInForce

-----------------------------------------------------------------------------
(* The programs implement the ledger *)

LEMMA LedgerInit == Init => L!Init
<1> SUFFICES ASSUME Init PROVE L!Init
  OBVIOUS
<1>1. Contented \in [Runs -> Contents]
  BY InitType DEF TypeOK, LayerTypeOK, Contented, Publications
<1>2. PriorRun \in Runs /\ Contented[PriorRun] # {}
  BY RunsAssumption DEF Init, Contented
<1>3. delta = [rid \in RestatementIds |-> {}]
  BY DEF Init
<1> QED BY <1>1, <1>2, <1>3 DEF Init, L!Init

\* A merge of rows publishes, under a run id nothing was published under.
LEMMA MergePublishes ==
  ASSUME TypeOK, TypeOK', Lone, NEW s \in Sessions, MergeFact(s)
  PROVE  L!Publish(Run(s)) \/ UNCHANGED L!ledgerVars
<1>s. /\ fact \in [Runs -> Publications] /\ fact' \in [Runs -> Publications]
      /\ Run(s) \in Runs
  BY DEF TypeOK, LayerTypeOK, SessionStates, Commands, Run
<1>1. CASE session[s].rows = {}
  <2>1. fact' = fact /\ delta' = delta /\ pointer' = pointer
    BY <1>1 DEF MergeFact, MergeAttribution, pubVars
  <2> QED BY <2>1 DEF L!ledgerVars, Contented
<1>2. CASE session[s].rows # {}
  <2>1. fact[Run(s)].content = {}
    BY <1>2 DEF Lone, Serial, FreshMerge, MergeFact
  <2>2. /\ fact'[Run(s)].content # {}
        /\ \A other \in Runs \ {Run(s)} : fact'[other] = fact[other]
        /\ delta' = delta /\ pointer' = pointer
    BY <1>2, <1>s DEF MergeFact, MergeAttribution, pubVars
  <2>3. Contented' \in [Runs -> Contents]
    BY <1>s DEF Contented, Publications
  <2> QED BY <1>s, <2>1, <2>2, <2>3 DEF L!Publish, Contented
<1> QED BY <1>1, <1>2

\* A merge of changes records a restatement, once, of the statements that stand.
LEMMA MergeRecords ==
  ASSUME TypeOK, Lone, NEW s \in Sessions, MergeDelta(s)
  PROVE  L!RecordRestatement(Rid(s), Run(s)) \/ UNCHANGED L!ledgerVars
<1>s. delta \in [RestatementIds -> SUBSET Changes] /\ Run(s) \in Runs /\ PriorRun \in Runs
      /\ Rid(s) \in RestatementIds
  BY RunsAssumption DEF TypeOK, LayerTypeOK, SessionStates, Commands, Run, Rid
<1>u. /\ fact' = fact /\ pointer' = pointer
      /\ delta' = [delta EXCEPT ![Rid(s)] = @ \cup session[s].changes]
  BY DEF MergeDelta, MergeRestatement, pubVars
<1>1. CASE session[s].changes = {}
  <2>1. delta' = delta
    BY <1>s, <1>u, <1>1
  <2> QED BY <1>u, <2>1 DEF L!ledgerVars, Contented
<1>2. CASE session[s].changes # {}
  <2>1. /\ delta[Rid(s)] = {}
        /\ session[s].changes =
             {[prior |-> fact[PriorRun].content, new |-> fact[Run(s)].content]}
    BY <1>2 DEF Lone, Alone, Run, Rid
  <2>2. delta' = [delta EXCEPT ![Rid(s)] =
                    {[prior |-> Contented[PriorRun], new |-> Contented[Run(s)]]}]
    BY <1>s, <1>u, <2>1 DEF Contented
  <2> QED BY <1>u, <2>1, <2>2 DEF L!RecordRestatement, Contented
<1> QED BY <1>1, <1>2

\* Moving CURRENT promotes a publication that has rows, or withdraws.
LEMMA PointerPromotes ==
  ASSUME TypeOK, Lone, NEW s \in Sessions, Start(s) \/ Continue(s) \/ Abort(s),
         fact' = fact, delta' = delta
  PROVE  L!Promote(Run(s)) \/ L!Withdraw \/ UNCHANGED L!ledgerVars
<1>s. Run(s) \in Runs /\ Contented' = Contented
  BY DEF TypeOK, SessionStates, Commands, Run, Contented
<1>1. CASE pointer' = pointer
  BY <1>1, <1>s DEF L!ledgerVars
<1>2. CASE session[s].pc \in {"promote", "point", "back", "move"} /\ pointer' = Run(s)
  <2>1. fact[Run(s)].content # {}
    BY <1>2, <1>s DEF Lone, Accounted, Walking, Standing, Backed, Holding, Run
  <2> QED BY <1>2, <1>s, <2>1 DEF L!Promote, Contented
<1>3. CASE pointer' \in {NoRow, Parked}
  BY <1>3, <1>s DEF L!Withdraw
<1> QED BY <1>1, <1>2, <1>3, WhereThePointerGoes

LEMMA LedgerStep == TypeOK /\ TypeOK' /\ Lone /\ [Next]_vars => [L!Next]_L!ledgerVars
<1> SUFFICES ASSUME TypeOK, TypeOK', Lone, [Next]_vars PROVE L!Next \/ UNCHANGED L!ledgerVars
  OBVIOUS
<1>1. ASSUME NEW s \in Sessions, Start(s) \/ Continue(s) \/ Abort(s)
      PROVE  L!Next \/ UNCHANGED L!ledgerVars
  <2>s. Run(s) \in Runs /\ Rid(s) \in RestatementIds
    BY DEF TypeOK, SessionStates, Commands, Run, Rid
  <2>1. CASE MergeFact(s)
    BY <2>1, <2>s, MergePublishes DEF L!Next
  <2>2. CASE MergeDelta(s)
    BY <2>2, <2>s, MergeRecords DEF L!Next
  <2>3. CASE ~MergeFact(s) /\ ~MergeDelta(s)
    BY <1>1, <2>3, <2>s, OnlyMergeWritesTheFact, OnlyMergeWritesTheDelta, PointerPromotes
       DEF L!Next
  <2> QED BY <2>1, <2>2, <2>3
<1>2. CASE UNCHANGED vars
  BY <1>2 DEF vars, layerVars, pubVars, L!ledgerVars, Contented
<1> QED BY <1>1, <1>2 DEF Next

\* Under one session at a time, killed wherever it may be, publish.py, freeze_baseline.py,
\* publish_restatement.py and plain builds implement the ledger: each of their steps adds
\* one statement, promotes one that stands, withdraws, records one restatement of the
\* statements that stand, or is invisible.
THEOREM ProgramsImplementTheLedger ==
  ASSUME \A p, q \in Sessions : p = q
  PROVE  Spec => Ledger
<1> QED BY LedgerInit, LedgerStep, LoneInit, LoneStep, TypeCorrect, PTL
        DEF Spec, Ledger, L!Spec

-----------------------------------------------------------------------------
(* What a publication pays *)

Pays(st) == Min({Amount[u] : u \in Sources(st)})

LEMMA NothingPaysNothing == Paid({}) = 0
<1> DEFINE sum(iter) == iter = [s \in SUBSET {} |->
             IF s = {} THEN 0
             ELSE LET x == CHOOSE x \in s : TRUE IN Pays(x) + iter[s \ {x}]]
           iter == CHOOSE iter : sum(iter)
           h == [s \in SUBSET {} |-> 0]
<1>1. Paid({}) = iter[{}]
  BY DEF Paid, MapThenSumSet, MapThenFoldSet, Pays
<1>2. sum(h)
  OBVIOUS
<1>3. sum(iter)
  BY <1>2
<1> QED BY <1>1, <1>3

LEMMA OneStatementPays ==
  ASSUME NEW st \in Statements
  PROVE  Paid({st}) = Pays(st) /\ Pays(st) \in Nat
         /\ (Priced(st) # {} /\ (\A u \in Universes \ Barren : Amount[u] > 0) => Pays(st) > 0)
<1> DEFINE sum(iter) == iter = [s \in SUBSET {st} |->
             IF s = {} THEN 0
             ELSE LET x == CHOOSE x \in s : TRUE IN Pays(x) + iter[s \ {x}]]
           iter == CHOOSE iter : sum(iter)
           h == [s \in SUBSET {st} |-> IF s = {} THEN 0 ELSE Pays(st)]
<1>0. Pays(st) \in Nat
         /\ (Priced(st) # {} /\ (\A u \in Universes \ Barren : Amount[u] > 0) => Pays(st) > 0)
  <2>1. {st.listens, st.owners} \subseteq Universes
    BY DEF Statements
  <2> DEFINE a == Amount[st.listens]
             b == Amount[st.owners]
  <2>2. a \in Nat /\ b \in Nat
    BY <2>1, UniversesAssumption
  <2>3. {Amount[u] : u \in Sources(st)} = {a, b}
    BY DEF Sources
  <2>4. Pays(st) = CHOOSE x \in {a, b} : \A y \in {a, b} : x <= y
    BY <2>3 DEF Pays, Min
  <2>5. \E x \in {a, b} : \A y \in {a, b} : x <= y
    <3>1. a <= b \/ b <= a
      BY <2>2
    <3> QED BY <3>1, <2>2
  <2>6. Pays(st) \in {a, b}
    BY <2>4, <2>5
  <2>7. Priced(st) # {} => st.listens \notin Barren /\ st.owners \notin Barren
    BY DEF Priced, Sources
  <2> QED BY <2>1, <2>2, <2>6, <2>7
<1>1. Paid({st}) = iter[{st}]
  BY DEF Paid, MapThenSumSet, MapThenFoldSet, Pays
<1>2. sum(h)
  <2>1. \A s \in SUBSET {st} : s = {} \/ s = {st}
    OBVIOUS
  <2>2. (CHOOSE x \in {st} : TRUE) = st
    OBVIOUS
  <2>3. {st} \ {st} = {}
    OBVIOUS
  <2>4. Pays(st) + h[{}] = Pays(st)
    BY <1>0
  <2>5. ASSUME NEW s \in SUBSET {st}
        PROVE h[s] = IF s = {} THEN 0
             ELSE LET x == CHOOSE x \in s : TRUE IN Pays(x) + h[s \ {x}]
    <3>1. CASE s = {}
      BY <3>1
    <3>2. CASE s = {st}
      BY <3>2, <2>2, <2>3, <2>4
    <3> QED BY <3>1, <3>2, <2>1
  <2> QED BY <2>5
<1>3. sum(iter)
  BY <1>2
<1>4. iter[{st}] = Pays(st)
  <2> DEFINE next(s) == IF s = {} THEN 0
                        ELSE LET x == CHOOSE x \in s : TRUE IN Pays(x) + iter[s \ {x}]
  <2>4. iter = [s \in SUBSET {st} |-> next(s)]
    BY <1>3
  <2>5. iter[{}] = next({}) /\ iter[{st}] = next({st})
    <3> HIDE DEF next, iter
    <3> QED BY <2>4
  <2>1. iter[{}] = 0
    BY <2>5
  <2> DEFINE first == CHOOSE x \in {st} : TRUE
  <2>2. iter[{st}] = Pays(first) + iter[{st} \ {first}]
    <3> HIDE DEF iter
    <3> QED BY <2>5
  <2>3. first = st
    OBVIOUS
  <2> HIDE DEF iter, next, first
  <2>6. {st} \ {first} = {}
    BY <2>3
  <2>7. iter[{st}] = Pays(st) + 0
    BY <2>1, <2>2, <2>3, <2>6
  <2> QED BY <2>7, <1>0
<1> QED BY <1>0, <1>1, <1>4

-----------------------------------------------------------------------------
(* The registered restatement *)

\* The restatement ids and the runs published under them: by a plain build, and by the
\* restater.
Paired(run, rid) ==
  \/ run = PublishedRestatement /\ rid = LegacyId
  \/ \E args \in RestateArgs : run = NewRun[args] /\ rid = args.rid

\* Every restatement id is published under one run id, and rows pay.
OneRunEach == \A a, b \in Runs, rid \in RestatementIds : Paired(a, rid) /\ Paired(b, rid) => a = b
RowsPay == \A u \in Universes \ Barren : Amount[u] > 0

\* A publication is one statement, and a new one has rows.
Makes(rows, st) == rows = {st} /\ Priced(st) = {st}
OneStatement ==
  \A run \in Runs :
    \/ fact[run].content = {}
    \/ \E st \in Statements :
         fact[run].content = {st} /\ (run # PriorRun => Priced(st) = {st})

\* The delta mart compares the baseline that stands with what stands now under the run of
\* its id, or with the nothing that stood there.
Telling ==
  \A rid \in RestatementIds : \A change \in delta[rid] :
    /\ change.prior = fact[PriorRun].content
    /\ \E run \in Runs : Paired(run, rid) /\ change.new \in {{}, fact[run].content}

Told(x) ==
  delta[x.cmd.rid] = {[prior |-> fact[PriorRun].content, new |-> fact[x.cmd.run].content]}

\* Past its reconciliation, a restater's delta is of the publications that stand.
Restating(x) ==
  /\ x.cmd.name = "publish" => x.pc \in {"inputs", "existing", "registered", "promote"}
  /\ x.pc \in DbtSteps \/ x.cmd.name = "restate" => Paired(x.cmd.run, x.cmd.rid)
  /\ x.cmd.name = "restate" => x.cmd.run # PriorRun
  /\ x.pc = "merge_fact" /\ x.rows # {} => \E st \in Statements : Makes(x.rows, st)
  /\ x.pc = "verify" /\ x.then = "after" /\ recon = "exact" => Told(x)
  /\ x.pc \in {"after", "enter"} => Told(x)

Reconciled ==
  /\ Lone /\ OneStatement /\ Telling
  /\ \A s \in Sessions : Restating(session[s])
  /\ RegisteredRestatementReconciles

\* Publications stay as they are.
LEMMA PublishedStays ==
  ASSUME TypeOK, Lone, [Next]_vars
  PROVE  \A run \in Runs : fact[run].content # {} => fact'[run] = fact[run]
BY FreshMergeIsImmutable DEF Lone, Serial

LEMMA OneStatementStep ==
  ASSUME TypeOK, Reconciled, NEW s \in Sessions, Start(s) \/ Continue(s) \/ Abort(s)
  PROVE  OneStatement'
<1>1. CASE fact' = fact
  BY <1>1 DEF Reconciled, OneStatement
<1>2. CASE MergeFact(s) /\ session[s].rows # {}
  <2>1. PICK st \in Statements : Makes(session[s].rows, st)
    BY <1>2 DEF Reconciled, Restating, MergeFact, At
  <2>2. Run(s) \in Runs /\ fact \in [Runs -> Publications]
    BY DEF TypeOK, LayerTypeOK, SessionStates, Commands, Run
  <2>3. fact[Run(s)].content = {}
    BY <1>2 DEF Reconciled, Lone, Serial, FreshMerge, MergeFact
  <2>4. fact' = [fact EXCEPT ![Run(s)] = [content |-> @.content \cup session[s].rows,
                                          stamp |-> @.stamp + 1]]
    BY <1>2 DEF MergeFact, MergeAttribution
  <2>5. fact'[Run(s)].content = {st}
    BY <2>1, <2>2, <2>3, <2>4 DEF Makes
  <2>6. \A run \in Runs \ {Run(s)} : fact'[run] = fact[run]
    BY <2>2, <2>4
  <2> QED BY <2>1, <2>5, <2>6 DEF Reconciled, OneStatement, Makes
<1> QED BY <1>1, <1>2, OnlyMergeWritesTheFact DEF MergeFact, MergeAttribution

LEMMA TellingStep ==
  ASSUME TypeOK, Reconciled, NEW s \in Sessions, Start(s) \/ Continue(s) \/ Abort(s)
  PROVE  Telling'
<1>p. PriorRun \in Runs /\ fact[PriorRun].content # {}
  BY RunsAssumption DEF Reconciled, Lone, Accounted
<1>f. \A run \in Runs : fact[run].content # {} => fact'[run] = fact[run]
  BY PublishedStays DEF Reconciled, Next
<1>1. CASE delta' = delta
  <2> SUFFICES ASSUME NEW rid \in RestatementIds, NEW change \in delta[rid]
               PROVE  /\ change.prior = fact'[PriorRun].content
                      /\ \E run \in Runs : Paired(run, rid) /\ change.new \in {{}, fact'[run].content}
    BY <1>1 DEF Telling, Paired
  <2>1. PICK run \in Runs : Paired(run, rid) /\ change.new \in {{}, fact[run].content}
    BY DEF Reconciled, Telling
  <2>2. change.new \in {{}, fact'[run].content}
    BY <2>1, <1>f
  <2> QED BY <1>p, <1>f, <2>1, <2>2 DEF Reconciled, Telling
<1>2. CASE MergeDelta(s)
  <2> DEFINE x == session[s]
             new == [prior |-> fact[PriorRun].content, new |-> fact[x.cmd.run].content]
  <2>1. x.cmd.run \in Runs /\ x.cmd.rid \in RestatementIds
    BY DEF TypeOK, SessionStates, Commands
  <2>2. /\ x.pc = "merge_delta" /\ fact' = fact
        /\ delta' = [delta EXCEPT ![x.cmd.rid] = @ \cup x.changes]
    BY <1>2 DEF MergeDelta, MergeRestatement, At, Rid
  <2>3. x.changes \subseteq {new}
    BY DEF Reconciled, Lone, Alone
  <2>4. Paired(x.cmd.run, x.cmd.rid)
    BY <2>2 DEF Reconciled, Restating, DbtSteps
  <2>5. delta \in [RestatementIds -> SUBSET Changes]
    BY DEF TypeOK, LayerTypeOK
  <2>6. ASSUME NEW rid \in RestatementIds, NEW change \in delta'[rid]
        PROVE  change \in delta[rid] \/ (rid = x.cmd.rid /\ change = new)
    BY <2>1, <2>2, <2>3, <2>5
  <2>7. new.prior = fact[PriorRun].content /\ new.new \in {{}, fact[x.cmd.run].content}
    OBVIOUS
  <2> HIDE DEF new, x
  <2>8. ASSUME NEW rid \in RestatementIds, NEW change \in delta'[rid]
        PROVE  /\ change.prior = fact[PriorRun].content
               /\ \E run \in Runs : Paired(run, rid) /\ change.new \in {{}, fact[run].content}
    <3>1. CASE change \in delta[rid]
      BY <3>1 DEF Reconciled, Telling
    <3>2. CASE rid = x.cmd.rid /\ change = new
      BY <3>2, <2>1, <2>4, <2>7
    <3> QED BY <3>1, <3>2, <2>6, <2>8
  <2> QED BY <2>2, <2>8 DEF Telling, Paired
<1> QED BY <1>1, <1>2, OnlyMergeWritesTheDelta

\* An exact reconciliation tells what stands: what would compare with nothing pays less.
LEMMA ReconciliationTells ==
  ASSUME OneRunEach, RowsPay, TypeOK, Reconciled, NEW s \in Sessions,
         session[s].pc = "reconciliation", session[s].then = "after",
         ReconcilesExactly(Run(s), Rid(s))
  PROVE  Told(session[s])
<1> DEFINE x == session[s]
           prior == fact[PriorRun].content
           new == fact[x.cmd.run].content
<1>1. x.cmd.run \in Runs /\ x.cmd.rid \in RestatementIds /\ PriorRun \in Runs
  BY RunsAssumption DEF TypeOK, SessionStates, Commands
<1>2. PICK change \in delta[x.cmd.rid] :
        /\ delta[x.cmd.rid] = {change}
        /\ Paid(change.new) - Paid(change.prior) = Paid(new) - Paid(prior)
  BY DEF ReconcilesExactly, Difference, Run, Rid
<1>3. PICK run \in Runs : Paired(run, x.cmd.rid) /\ change.new \in {{}, fact[run].content}
  BY <1>1 DEF Reconciled, Telling
<1>4. Paired(x.cmd.run, x.cmd.rid)
  BY DEF Reconciled, Restating, DbtSteps
<1>5. change.prior = prior /\ change.new \in {{}, new}
  BY <1>1, <1>3, <1>4 DEF OneRunEach, Reconciled, Telling
<1>6. new # {} /\ prior # {}
  <2>1. x.made.content # {} /\ x.made.content = fact[Run(s)].content
    BY DEF Reconciled, Lone, Serial, Backed, Holding, Exact
  <2> QED BY <2>1 DEF Run, Reconciled, Lone, Accounted
<1>7. x.cmd.run # PriorRun
  BY DEF Reconciled, Lone, Accounted, Walking, Restating
<1>8. PICK st \in Statements : new = {st} /\ Priced(st) = {st}
  BY <1>1, <1>6, <1>7 DEF Reconciled, OneStatement
<1>9. PICK old \in Statements : prior = {old}
  BY <1>1, <1>6 DEF Reconciled, OneStatement
<1>10. Paid(new) \in Nat /\ Paid(new) > 0 /\ Paid(prior) \in Nat
  <2>1. Paid({st}) = Pays(st) /\ Pays(st) \in Nat /\ Pays(st) > 0
    BY <1>8, OneStatementPays DEF RowsPay
  <2>2. Paid({old}) = Pays(old) /\ Pays(old) \in Nat
    BY OneStatementPays
  <2> QED BY <1>8, <1>9, <2>1, <2>2
<1>11. change.new = new
  <2>1. CASE change.new = {}
    <3>1. Paid(change.new) = 0
      BY <2>1, NothingPaysNothing
    <3>2. 0 - Paid(prior) = Paid(new) - Paid(prior)
      BY <1>2, <1>5, <3>1
    <3> QED BY <1>10, <3>2
  <2> QED BY <1>5, <2>1
<1>12. change = [prior |-> change.prior, new |-> change.new]
  BY <1>1, <1>2 DEF TypeOK, LayerTypeOK, Changes
<1> QED BY <1>2, <1>5, <1>11, <1>12 DEF Told

\* What a session may do past the delta's merge: go on, or end.
LEMMA StepAtReconciliation ==
  ASSUME TypeOK, NEW s \in Sessions, Start(s) \/ Continue(s) \/ Abort(s),
         session[s].pc = "reconciliation"
  PROVE  Reconciliation(s) \/ Ended(session'[s])
<1>1. ~Start(s)
  BY DEF Start, StartPublish, StartFreeze, StartRestate, StartBuild, Rematch, Reprocess, Begin, At
<1>2. Dbt(s) => Reconciliation(s)
  BY DEF Dbt, Eligibility, Resolution, Disposition, Streams, SelectFact, MergeFact, SelectDelta,
         MergeDelta, Verify, Test, At
<1>3. ~Publish(s)
  BY DEF Publish, VerifyFrozenInputs, ReadExisting, CompareWithRegistry, Promote,
         EnsurePointerTable, ReadFirst, Point, CompareRerun, PointAway, PointBack,
         CompareUnharmed, At
<1>4. ~Freeze(s)
  BY DEF Freeze, ReadIdentity, ReadDigest, CreateRegistry, RegisterBaseline, ReadBack, At
<1>5. ~Restate(s)
  BY DEF Restate, ReadBaseline, DigestBefore, VerifyRestatedMatches, Identify, DigestAfter,
         RegisterRestatement, MovePointer, At
<1>6. Abort(s) => Ended(session'[s])
  BY StopEnds DEF Abort, Outcomes
<1> QED BY <1>1, <1>2, <1>3, <1>4, <1>5, <1>6 DEF Continue

LEMMA StepAtVerify ==
  ASSUME TypeOK, NEW s \in Sessions, Start(s) \/ Continue(s) \/ Abort(s),
         session[s].pc = "verify"
  PROVE  Verify(s) \/ Ended(session'[s])
<1>1. ~Start(s)
  BY DEF Start, StartPublish, StartFreeze, StartRestate, StartBuild, Rematch, Reprocess, Begin, At
<1>2. Dbt(s) => Verify(s)
  BY DEF Dbt, Eligibility, Resolution, Disposition, Streams, SelectFact, MergeFact, SelectDelta,
         MergeDelta, Reconciliation, Test, At
<1>3. ~Publish(s)
  BY DEF Publish, VerifyFrozenInputs, ReadExisting, CompareWithRegistry, Promote,
         EnsurePointerTable, ReadFirst, Point, CompareRerun, PointAway, PointBack,
         CompareUnharmed, At
<1>4. ~Freeze(s)
  BY DEF Freeze, ReadIdentity, ReadDigest, CreateRegistry, RegisterBaseline, ReadBack, At
<1>5. ~Restate(s)
  BY DEF Restate, ReadBaseline, DigestBefore, VerifyRestatedMatches, Identify, DigestAfter,
         RegisterRestatement, MovePointer, At
<1>6. Abort(s) => Ended(session'[s])
  BY StopEnds DEF Abort, Outcomes
<1> QED BY <1>1, <1>2, <1>3, <1>4, <1>5, <1>6 DEF Continue

LEMMA RestatingStep ==
  ASSUME SumOfNothingIsNull, OneRunEach, RowsPay,
         TypeOK, Reconciled, NEW s \in Sessions, Start(s) \/ Continue(s) \/ Abort(s)
  PROVE  Restating(session[s])'
<1> DEFINE x == session[s]
           y == session'[s]
<1>w. Walking(x) /\ Restating(x)
  BY DEF Reconciled, Lone, Accounted
<1>m. Moves(x, y)
  BY StepsAreMoves
<1>e. ASSUME Ended(y)
      PROVE  y.pc = "idle" /\ y.cmd.name = "none" /\ y.rows = {}
  BY <1>e DEF Ended, Idle, NoCommand
<1>t. x.pc \notin {"merge_fact", "merge_delta"} => fact' = fact /\ delta' = delta
  BY OnlyMergeWritesTheFact, OnlyMergeWritesTheDelta DEF MergeFact, MergeDelta, At
<1>k. ASSUME y.cmd = x.cmd, Told(x), x.pc \notin {"merge_fact", "merge_delta"}
      PROVE  Told(session[s])'
  BY <1>k, <1>t DEF Told
<1>1. y.cmd.name = "publish" => y.pc \in {"inputs", "existing", "registered", "promote"}
  <2>1. CASE y = x \/ Ended(y) \/ Begun(y)
    BY <2>1, <1>e, <1>w DEF Begun, Restating
  <2>2. CASE DbtMove(x, y)
    BY <2>2, <1>w DEF DbtMove, Restating
  <2>3. CASE ValidationMove(x, y)
    BY <2>3, <1>w DEF ValidationMove, CountFails
  <2>4. CASE BuildMove(x, y)
    BY <2>4, <1>w DEF BuildMove, Walking, Restating, PublishSteps
  <2>5. CASE FreezeMove(x, y)
    BY <2>5, <1>w DEF FreezeMove, Walking, FreezeSteps
  <2>6. CASE RestateMove(x, y)
    BY <2>6, <1>w DEF RestateMove, Walking, RestateSteps
  <2> QED BY <1>m, <2>1, <2>2, <2>3, <2>4, <2>5, <2>6 DEF Moves
<1>2. /\ y.pc \in DbtSteps \/ y.cmd.name = "restate" => Paired(y.cmd.run, y.cmd.rid)
      /\ y.cmd.name = "restate" => y.cmd.run # PriorRun
  <2>1. CASE y = x
    BY <2>1, <1>w DEF Restating
  <2>2. CASE Ended(y)
    BY <2>2, <1>e DEF DbtSteps
  <2>3. CASE Begun(y)
    BY <2>3, SessionsAssumption DEF Begun, DbtSteps, Paired
  <2>4. CASE DbtMove(x, y)
    <3>1. x.pc \in DbtSteps
      BY <2>4 DEF DbtMove, DbtSteps
    <3> QED BY <2>4, <3>1, <1>w DEF DbtMove, Restating
  <2>5. CASE ValidationMove(x, y)
    BY <2>5, <1>w DEF ValidationMove, DbtSteps, Restating, Walking, PublishSteps
  <2>6. CASE BuildMove(x, y)
    BY <2>6, <1>w DEF BuildMove, Walking, Restating, PublishSteps
  <2>7. CASE FreezeMove(x, y)
    BY <2>7, <1>w DEF FreezeMove, Walking, FreezeSteps, DbtSteps
  <2>8. CASE RestateMove(x, y)
    <3>1. x.cmd.name = "restate"
      BY <2>8, <1>w DEF RestateMove, Walking, RestateSteps
    <3> QED BY <2>8, <3>1, <1>w DEF RestateMove, Restating
  <2> QED BY <1>m, <2>1, <2>2, <2>3, <2>4, <2>5, <2>6, <2>7, <2>8 DEF Moves
<1>3. y.pc = "merge_fact" /\ y.rows # {} => \E st \in Statements : Makes(y.rows, st)
  <2> SUFFICES ASSUME y.pc = "merge_fact", y.rows # {}
               PROVE  \E st \in Statements : Makes(y.rows, st)
    OBVIOUS
  <2>1. SelectFact(s) \/ session' = session
    BY OnlySelectReachesTheMerge DEF At, Reconciled, Lone, Serial, Backed
  <2>2. CASE session' = session
    BY <2>2, <1>w DEF Restating, Makes
  <2>3. CASE SelectFact(s)
    <3>1. y.rows = SelectAttribution(Run(s))
      BY <2>3 DEF SelectFact, TypeOK, SessionStates
    <3>2. derived.streams \in Statements
      BY DEF TypeOK, LayerTypeOK, DerivedTables
    <3>3. y.rows = Priced(derived.streams) /\ Priced(derived.streams) = {derived.streams}
      BY <3>1 DEF SelectAttribution, Priced
    <3> QED BY <3>2, <3>3 DEF Makes
  <2> QED BY <2>1, <2>2, <2>3
<1>4. y.pc = "verify" /\ y.then = "after" /\ recon' = "exact" => Told(session[s])'
  <2> SUFFICES ASSUME y.pc = "verify", y.then = "after", recon' = "exact"
               PROVE  Told(session[s])'
    OBVIOUS
  <2>1. CASE x.pc = "reconciliation" /\ DbtMove(x, y)
    <3>1. Reconciliation(s)
      BY <1>e, <2>1, StepAtReconciliation
    <3>2. BuildReconciliation(Run(s), Rid(s))
      <4>1. Stop(s, "refused") => y.pc = "idle"
        BY DEF Stop, Idle, TypeOK
      <4> QED BY <3>1, <4>1 DEF Reconciliation
    <3>3. ReconcilesExactly(Run(s), Rid(s))
      BY <3>2 DEF BuildReconciliation
    <3>4. x.then = "after" /\ y.cmd = x.cmd
      BY <2>1 DEF DbtMove
    <3>5. Told(x)
      BY <2>1, <3>3, <3>4, ReconciliationTells
    <3> QED BY <1>k, <2>1, <3>4, <3>5
  <2>2. CASE y = x
    <3>1. Verify(s)
      BY <1>e, <2>2, StepAtVerify
    <3>2. session'[s].pc \in {"idle", x.then}
      BY <3>1 DEF Verify, GotoIf, Goto, Stop, Idle, TypeOK, SessionStates
    <3> QED BY <2>2, <3>2
  <2> QED BY <1>m, <1>e, <2>1, <2>2
          DEF Moves, Begun, DbtMove, ValidationMove, BuildMove, PointNext, RerunNext, FreezeMove,
              RestateMove, Walking
<1>5. y.pc \in {"after", "enter"} => Told(session[s])'
  <2> SUFFICES ASSUME y.pc \in {"after", "enter"}
               PROVE  Told(session[s])'
    OBVIOUS
  <2>1. CASE y = x \/ RestateMove(x, y)
    <3>1. x.pc \in {"after", "enter"} /\ y.cmd = x.cmd
      BY <2>1 DEF RestateMove
    <3> QED BY <1>k, <1>w, <3>1 DEF Restating
  <2>2. CASE DbtMove(x, y)
    <3>1. x.pc = "verify" /\ x.then = "after" /\ y.cmd = x.cmd
      BY <2>2, <1>w DEF DbtMove, Walking
    <3>2. Verify(s)
      BY <1>e, <3>1, StepAtVerify
    <3>3. recon = "exact"
      <4>1. \A outcome : Stop(s, outcome) => y.pc = "idle"
        BY DEF Stop, Idle, TypeOK
      <4> QED BY <3>2, <4>1 DEF Verify, GotoIf, DeltaReconciles
    <3> QED BY <1>k, <1>w, <3>1, <3>3 DEF Restating
  <2> QED BY <1>m, <1>e, <2>1, <2>2
          DEF Moves, Begun, ValidationMove, BuildMove, PointNext, RerunNext, FreezeMove
<1> QED BY <1>1, <1>2, <1>3, <1>4, <1>5 DEF Restating

\* An entry is written from a delta that is told; a told delta stays.
LEMMA RegisteredStep ==
  ASSUME TypeOK, Reconciled, NEW s \in Sessions, Start(s) \/ Continue(s) \/ Abort(s)
  PROVE  RegisteredRestatementReconciles'
<1> DEFINE x == session[s]
           entry == registry[NewPublication]
           Tells(e) == delta[e.rid] = {[prior |-> fact[PriorRun].content,
                                        new |-> fact[e.run].content]}
<1>s. registry \in [PublicationIds -> Entries \cup {NoEntry}] /\ NewPublication \in PublicationIds
  BY SessionsAssumption DEF TypeOK
<1>p. PriorRun \in Runs /\ fact[PriorRun].content # {}
  BY RunsAssumption DEF Reconciled, Lone, Accounted
<1>f. \A run \in Runs : fact[run].content # {} => fact'[run] = fact[run]
  BY PublishedStays DEF Reconciled, Next
<1>1. ASSUME entry # NoEntry, entry.rid # NotGiven
      PROVE  delta'[entry.rid] = {[prior |-> fact'[PriorRun].content,
                                   new |-> fact'[entry.run].content]}
  <2>1. Tells(entry)
    BY <1>1 DEF Reconciled, RegisteredRestatementReconciles
  <2>2. entry.run \in Runs /\ entry.rid \in RestatementIds
    BY <1>1, <1>s DEF Entries
  <2>3. fact[entry.run].content # {}
    BY <1>1, <1>s DEF Reconciled, Lone, Serial, Exact
  <2>4. delta'[entry.rid] = delta[entry.rid]
    <3>1. CASE MergeDelta(s)
      <4>1. delta' = [delta EXCEPT ![x.cmd.rid] = @ \cup x.changes]
        BY <3>1 DEF MergeDelta, MergeRestatement, Rid
      <4>2. x.changes # {} => delta[x.cmd.rid] = {}
        BY DEF Reconciled, Lone, Alone
      <4>3. delta \in [RestatementIds -> SUBSET Changes]
        BY DEF TypeOK, LayerTypeOK
      <4> QED BY <2>1, <2>2, <4>1, <4>2, <4>3
    <3> QED BY <3>1, OnlyMergeWritesTheDelta
  <2> QED BY <2>1, <2>2, <2>3, <2>4, <1>p, <1>f
<1>2. CASE registry' = registry
  BY <1>1, <1>2 DEF RegisteredRestatementReconciles
<1>3. CASE RegisterBaseline(s)
  <2> DEFINE id == x.cmd.id
  <2>1. CASE id # NewPublication
    <3>1. registry'[NewPublication] = entry
      BY <1>3, <1>s, <2>1 DEF RegisterBaseline
    <3> QED BY <1>1, <3>1 DEF RegisteredRestatementReconciles
  <2>2. CASE id = NewPublication /\ entry = NoEntry
    <3>1. registry'[NewPublication] =
            [run |-> Run(s), rid |-> NotGiven, norm |-> NormOf[silver],
             rows |-> x.made, frozen |-> TRUE]
      BY <1>3, <1>s, <2>2 DEF RegisterBaseline
    <3> QED BY <3>1 DEF RegisteredRestatementReconciles
  <2>3. CASE id = NewPublication /\ entry # NoEntry
    <3>1. registry'[NewPublication] \in {entry, [entry EXCEPT !.frozen = FALSE]}
      BY <2>3, <1>s, EntriesStay DEF Next
    <3>2. entry \in Entries
      BY <2>3, <1>s
    <3>3. registry'[NewPublication].rid = entry.rid /\ registry'[NewPublication].run = entry.run
      BY <3>1, <3>2 DEF Entries
    <3> QED BY <1>1, <2>3, <3>3 DEF RegisteredRestatementReconciles
  <2> QED BY <2>1, <2>2, <2>3
<1>4. CASE RegisterRestatement(s)
  <2>1. CASE entry # NoEntry
    BY <1>2, <1>4, <1>s, <2>1 DEF RegisterRestatement
  <2>2. CASE entry = NoEntry
    <3>1. registry'[NewPublication] =
            [run |-> Run(s), rid |-> Rid(s), norm |-> x.cmd.norm,
             rows |-> x.made, frozen |-> TRUE]
      BY <1>4, <1>s, <2>2 DEF RegisterRestatement
    <3>2. registry'[NewPublication].rid = Rid(s) /\ registry'[NewPublication].run = Run(s)
      BY <3>1
    <3>3. Told(x)
      BY <1>4 DEF RegisterRestatement, At, Reconciled, Restating
    <3>4. fact' = fact /\ delta' = delta
      BY <1>4 DEF RegisterRestatement, layerVars
    <3> QED BY <3>2, <3>3, <3>4 DEF Told, RegisteredRestatementReconciles, Run, Rid
  <2> QED BY <2>1, <2>2
<1> QED BY <1>2, <1>3, <1>4, OnlyTwoRegister

LEMMA ReconciledStep ==
  ASSUME \A p, q \in Sessions : p = q, SumOfNothingIsNull, OneRunEach, RowsPay
  PROVE  TypeOK /\ Reconciled /\ [Next]_vars => Reconciled'
<1> SUFFICES ASSUME TypeOK, Reconciled, [Next]_vars PROVE Reconciled'
  OBVIOUS
<1>1. Lone'
  BY LoneStep DEF Reconciled
<1>2. ASSUME NEW s \in Sessions, Start(s) \/ Continue(s) \/ Abort(s)
      PROVE  Reconciled'
  <2>1. OneStatement' /\ Telling' /\ Restating(session[s])' /\ RegisteredRestatementReconciles'
    BY <1>2, OneStatementStep, TellingStep, RestatingStep, RegisteredStep
  <2>2. Sessions = {s}
    OBVIOUS
  <2> QED BY <1>1, <2>1, <2>2 DEF Reconciled
<1>3. ASSUME UNCHANGED vars
      PROVE  Reconciled'
  BY <1>1, <1>3 DEF Reconciled, OneStatement, Telling, Restating, Told, Paired,
                    RegisteredRestatementReconciles, vars, layerVars, pubVars
<1> QED BY <1>2, <1>3 DEF Next

LEMMA ReconciledInit == Init => Reconciled
<1> SUFFICES ASSUME Init PROVE Reconciled
  OBVIOUS
<1>1. OneStatement
  <2>1. PriorRun \in Runs /\ PolicyUniverse \in Universes
    BY RunsAssumption, SessionsAssumption
  <2>2. [listens |-> PolicyUniverse, owners |-> PolicyUniverse] \in Statements
    BY <2>1 DEF Statements
  <2> QED BY <2>1, <2>2 DEF Init, OneStatement, Unpublished
<1>2. Telling
  BY DEF Init, Telling
<1>3. \A s \in Sessions : Restating(session[s])
  BY DEF Init, Idle, NoCommand, Restating, DbtSteps
<1>4. RegisteredRestatementReconciles
  BY SessionsAssumption DEF Init, RegisteredRestatementReconciles
<1> QED BY <1>1, <1>2, <1>3, <1>4, LoneInit DEF Reconciled

\* The delta mart tells exactly the story of the registered restatement (the baseline that
\* stands against the publication that stands), on a warehouse where one session works at a
\* time, a restatement id is published under one run id, and rows pay.  The restater only
\* asks that a total agree, of a delta that may have been recorded by an earlier build,
\* killed or barren.
THEOREM RegisteredRestatementsReconcile ==
  ASSUME \A p, q \in Sessions : p = q, SumOfNothingIsNull, OneRunEach, RowsPay
  PROVE  Spec => []RegisteredRestatementReconciles
<1>1. Reconciled => RegisteredRestatementReconciles
  BY DEF Reconciled
<1> QED BY <1>1, ReconciledInit, ReconciledStep, TypeCorrect, PTL DEF Spec

-----------------------------------------------------------------------------
(* The version a restatement is priced from *)

\* The run ids of two versions differ, as the version is hashed into them.
VersionsApart == \A a, b \in RestateArgs : NewRun[a] = NewRun[b] => a.norm = b.norm

\* Under the run a plain build publishes too, only restated matches of the version named pay
\* as much more than the baseline as was recorded.
RecordedTells ==
  \A args \in RestateArgs, u \in RestatedUniverses :
    /\ NewRun[args] = PublishedRestatement
    /\ Amount[u] - Amount[PolicyUniverse] = RecordedDelta[args.rid]
    => NormOf[u] = args.norm

\* A statement all of whose tables are of one match result.
Whole(u) == [listens |-> u, owners |-> u]

\* The versions that may stand under a run: the one in its name, and any under the run of a
\* plain build, which checks none.
Versioned(run, u) ==
  \/ run = PublishedRestatement
  \/ \E args \in RestateArgs : NewRun[args] = run /\ NormOf[u] = args.norm

\* What stands: the baseline as it was, and under another run the restated matches of one
\* build, all of whose tables were of them.
Dated ==
  /\ restated \in RestatedUniverses \cup {NoTable}
  /\ fact[PriorRun].content = {Whole(PolicyUniverse)}
  /\ \A run \in Runs \ {PriorRun, RehearsalRun} :
       \/ fact[run].content = {}
       \/ \E u \in RestatedUniverses : fact[run].content = {Whole(u)} /\ Versioned(run, u)

\* Restated matches a session may price: a restater checked their version.
Prices(x, u) ==
  u \in RestatedUniverses /\ (x.cmd.name = "restate" => NormOf[u] = x.cmd.norm)

\* Who prices, and under which run: a restater's is of its arguments.
Named(x) ==
  /\ x.pc \in DbtSteps => x.cmd.name \in {"publish", "build", "restate"}
  /\ x.cmd.name = "publish" => x.cmd.run \in {PriorRun, RehearsalRun}
  /\ x.cmd.name = "build" => x.cmd.run = PublishedRestatement
  /\ x.cmd.name = "restate" =>
       \E args \in RestateArgs :
         x.cmd.run = NewRun[args] /\ x.cmd.rid = args.rid /\ x.cmd.norm = args.norm

\* From table to table, what is priced is the restated matches the build began with.
Pricing(x) ==
  /\ x.pc = "eligibility" => restated = NoTable \/ Prices(x, restated)
  /\ x.pc = "resolution" => Prices(x, derived.eligibility)
  /\ x.cmd.name # "publish" =>
       /\ x.pc = "disposition" => /\ Prices(x, derived.resolution)
                                  /\ derived.eligibility = derived.resolution
       /\ x.pc = "streams" =>
            \E u \in RestatedUniverses : Prices(x, u) /\ derived.disposition = Whole(u)
       /\ x.pc = "select_fact" =>
            \E u \in RestatedUniverses : Prices(x, u) /\ derived.streams = Whole(u)
       /\ x.pc = "merge_fact" /\ x.rows # {} =>
            \E u \in RestatedUniverses : Prices(x, u) /\ x.rows = {Whole(u)}

\* What a restatement pays more than the baseline is the total of its delta once that is
\* reconciled, and the one recorded once the delta is explained.
Gain(x) == Paid(fact[x.cmd.run].content) - Paid(fact[PriorRun].content)
Totalled(x) ==
  \E change \in delta[x.cmd.rid] :
    delta[x.cmd.rid] = {change} /\ Difference(change) = Gain(x)
Explaining(x) ==
  /\ x.pc = "verify" /\ x.then = "after" /\ recon = "exact" => Totalled(x)
  /\ x.pc \in {"after", "enter"} => Gain(x) = RecordedDelta[x.cmd.rid]

VersionInvariant ==
  /\ Lone /\ Dated /\ PricedUnderItsVersion
  /\ \A s \in Sessions :
       Named(session[s]) /\ Pricing(session[s]) /\ Explaining(session[s])

LEMMA WholePays ==
  ASSUME NEW u \in Universes
  PROVE  Whole(u) \in Statements /\ Paid({Whole(u)}) = Amount[u] /\ Amount[u] \in Nat
<1>1. Whole(u) \in Statements
  BY DEF Whole, Statements
<1>2. Amount[u] \in Nat
  BY UniversesAssumption
<1>3. {Amount[w] : w \in Sources(Whole(u))} = {Amount[u]}
  BY DEF Sources, Whole
<1>4. Pays(Whole(u)) = CHOOSE x \in {Amount[u]} : \A y \in {Amount[u]} : x <= y
  BY <1>3 DEF Pays, Min
<1>5. \E x \in {Amount[u]} : \A y \in {Amount[u]} : x <= y
  BY <1>2
<1>6. Pays(Whole(u)) = Amount[u]
  BY <1>4, <1>5
<1> QED BY <1>1, <1>2, <1>6, OneStatementPays

LEMMA NamedMove ==
  ASSUME NEW x, NEW y, Walking(x), Named(x), Moves(x, y)
  PROVE  Named(y)
<1>1. CASE Ended(y)
  BY <1>1 DEF Ended, Idle, NoCommand, Named, DbtSteps
<1>2. CASE Begun(y)
  BY <1>2 DEF Begun, Named, DbtSteps
<1>3. CASE y = x
  BY <1>3
<1>4. CASE DbtMove(x, y)
  <2>1. x.pc \in DbtSteps
    BY <1>4 DEF DbtMove, DbtSteps
  <2> QED BY <1>4, <2>1 DEF DbtMove, Named
<1>5. CASE ValidationMove(x, y) \/ FreezeMove(x, y)
  BY <1>5 DEF ValidationMove, FreezeMove, Named, DbtSteps
<1>6. CASE BuildMove(x, y)
  <2>1. x.cmd.name = "publish"
    BY <1>6 DEF BuildMove, Walking, PublishSteps
  <2> QED BY <1>6, <2>1 DEF BuildMove, Named
<1>7. CASE RestateMove(x, y)
  <2>1. x.cmd.name = "restate"
    BY <1>7 DEF RestateMove, Walking, RestateSteps
  <2> QED BY <1>7, <2>1 DEF RestateMove, Named
<1> QED BY <1>1, <1>2, <1>3, <1>4, <1>5, <1>6, <1>7 DEF Moves

\* The steps that price, in a build of restated matches.
PricingSteps == {"eligibility", "resolution", "disposition", "streams", "select_fact", "merge_fact"}

\* Away from these steps nothing is to be kept.
LEMMA NotPricing ==
  ASSUME NEW s, session'[s].pc \notin PricingSteps
  PROVE  Pricing(session[s])'
BY DEF Pricing, PricingSteps

LEMMA StartPrices ==
  ASSUME TypeOK, NEW s \in Sessions, Start(s), Dated'
  PROVE  Pricing(session[s])'
<1> DEFINE y == session'[s]
<1>1. CASE Begun(y)
  <2>1. y.pc \in PricingSteps => y.pc = "eligibility" /\ y.cmd.name = "build"
    BY <1>1 DEF Begun, PricingSteps
  <2>2. CASE y.pc = "eligibility" /\ y.cmd.name = "build"
    BY <2>2 DEF Dated, Pricing, Prices
  <2> QED BY <2>1, <2>2, NotPricing
<1>2. CASE y = session[s]
  <2>1. y.pc = "idle"
    BY <1>2 DEF Start, StartPublish, StartFreeze, StartRestate, StartBuild, Rematch, Reprocess,
                Begin, At
  <2> QED BY <2>1, NotPricing DEF PricingSteps
<1> QED BY <1>1, <1>2, StartMoves

LEMMA DbtPrices ==
  ASSUME TypeOK, NEW s \in Sessions, Dbt(s), Walking(session[s]), Pricing(session[s])
  PROVE  Pricing(session[s])'
<1> DEFINE x == session[s]
           y == session'[s]
<1>s. session \in [Sessions -> SessionStates] /\ derived \in DerivedTables
  BY DEF TypeOK, LayerTypeOK
<1>g. ASSUME NEW pc, Goto(s, pc)
      PROVE  y.pc = pc /\ y.cmd = x.cmd
  BY <1>g, GotoCarries DEF Carried
<1>p. ASSUME NEW outcome, Stop(s, outcome)
      PROVE  Pricing(session[s])'
  BY <1>p, <1>s, NotPricing DEF Stop, Idle, PricingSteps
<1>1. CASE Eligibility(s)
  <2>1. CASE Stop(s, "refused")
    BY <2>1, <1>p
  <2>2. CASE Goto(s, "resolution") /\ BuildEligibility /\ restated # NoTable
    <3>1. y.pc = "resolution" /\ y.cmd = x.cmd /\ derived'.eligibility = restated
      BY <2>2, <1>g, <1>s DEF BuildEligibility, DerivedTables
    <3>2. Prices(x, restated)
      BY <1>1, <2>2 DEF Eligibility, At, Pricing
    <3> QED BY <3>1, <3>2 DEF Pricing, Prices
  <2> QED BY <1>1, <2>1, <2>2 DEF Eligibility
<1>2. CASE Resolution(s)
  <2>1. /\ y.pc = "disposition" /\ y.cmd = x.cmd
        /\ derived'.eligibility = derived.eligibility /\ derived'.resolution = derived.eligibility
    BY <1>2, <1>g, <1>s DEF Resolution, BuildResolution, DerivedTables
  <2>2. Prices(x, derived.eligibility)
    BY <1>2 DEF Resolution, At, Pricing
  <2> QED BY <2>1, <2>2 DEF Pricing, Prices
<1>3. CASE Disposition(s)
  <2>1. /\ y.pc = "streams" /\ y.cmd = x.cmd
        /\ derived'.disposition = [listens |-> derived.eligibility, owners |-> derived.resolution]
    BY <1>3, <1>g, <1>s DEF Disposition, BuildDisposition, DerivedTables
  <2>2. x.cmd.name # "publish" =>
          /\ Prices(x, derived.resolution) /\ derived'.disposition = Whole(derived.resolution)
    BY <1>3, <2>1 DEF Disposition, At, Pricing, Whole
  <2> QED BY <2>1, <2>2 DEF Pricing, Prices
<1>4. CASE Streams(s)
  <2>1. y.pc = "select_fact" /\ y.cmd = x.cmd /\ derived'.streams = derived.disposition
    BY <1>4, <1>g, <1>s DEF Streams, BuildStreams, DerivedTables
  <2>2. x.cmd.name # "publish" =>
          \E u \in RestatedUniverses : Prices(x, u) /\ derived'.streams = Whole(u)
    BY <1>4, <2>1 DEF Streams, At, Pricing
  <2> QED BY <2>1, <2>2 DEF Pricing, Prices
<1>5. CASE SelectFact(s)
  <2>1. y.pc = "merge_fact" /\ y.cmd = x.cmd /\ y.rows \subseteq {derived.streams}
    BY <1>5, <1>s DEF SelectFact, SessionStates, SelectAttribution, Priced
  <2>2. x.cmd.name # "publish" =>
          \E u \in RestatedUniverses : Prices(x, u) /\ derived.streams = Whole(u)
    BY <1>5 DEF SelectFact, At, Pricing
  <2> QED BY <2>1, <2>2 DEF Pricing, Prices
<1>6. CASE ~(Eligibility(s) \/ Resolution(s) \/ Disposition(s) \/ Streams(s) \/ SelectFact(s))
  <2>1. CASE Ended(y)
    BY <2>1, NotPricing DEF Ended, Idle, PricingSteps
  <2>2. CASE DbtMove(x, y)
    <3>1. x.pc \in {"merge_fact", "select_delta", "merge_delta", "reconciliation", "verify", "test"}
      BY <1>6 DEF Dbt, MergeFact, SelectDelta, MergeDelta, Reconciliation, Verify, Test, At
    <3> QED BY <2>2, <3>1, NotPricing DEF DbtMove, Walking, PricingSteps
  <2> QED BY <2>1, <2>2, DbtMoves
<1> QED BY <1>1, <1>2, <1>3, <1>4, <1>5, <1>6

LEMMA RestatePrices ==
  ASSUME TypeOK, Dated, NEW s \in Sessions, Restate(s)
  PROVE  Pricing(session[s])'
<1> DEFINE x == session[s]
           y == session'[s]
<1>1. CASE Ended(y)
  BY <1>1, NotPricing DEF Ended, Idle, PricingSteps
<1>2. CASE RestateMove(x, y) /\ x.pc # "matches"
  BY <1>2, NotPricing DEF RestateMove, PricingSteps
<1>3. CASE RestateMove(x, y) /\ x.pc = "matches"
  <2>1. y.pc = "eligibility" /\ y.cmd = x.cmd
    BY <1>3 DEF RestateMove
  <2>2. VerifyRestatedMatches(s)
    BY <1>3 DEF Restate, ReadBaseline, DigestBefore, Identify, DigestAfter, RegisterRestatement,
                MovePointer, At
  <2>3. restated' = restated
    BY <2>2 DEF VerifyRestatedMatches, layerVars
  <2>4. restated # NoTable /\ NormOf[restated] = x.cmd.norm
    <3>1. Stop(s, "refused") => y.pc = "idle"
      BY DEF Stop, Idle, TypeOK
    <3> QED BY <2>1, <2>2, <3>1 DEF VerifyRestatedMatches
  <2> QED BY <2>1, <2>3, <2>4 DEF Pricing, Prices, Dated
<1> QED BY <1>1, <1>2, <1>3, RestateMoves

\* A lone session keeps what it prices from table to table.
LEMMA PricingStep ==
  ASSUME TypeOK, NEW s \in Sessions, Start(s) \/ Continue(s) \/ Abort(s),
         Walking(session[s]), Pricing(session[s]), Dated, Dated'
  PROVE  Pricing(session[s])'
<1> DEFINE x == session[s]
           y == session'[s]
<1>1. CASE Publish(s)
  <2>1. CASE Ended(y)
    BY <2>1, NotPricing DEF Ended, Idle, PricingSteps
  <2>3. CASE ValidationMove(x, y)
    <3>1. y.pc \notin PricingSteps
      BY <2>3 DEF ValidationMove, PricingSteps
    <3> QED BY <3>1, NotPricing
  <2>2. CASE BuildMove(x, y)
    <3>1. y.cmd = x.cmd /\ x.cmd.name = "publish"
      BY <2>2 DEF BuildMove, Walking, PublishSteps
    <3>2. y.pc \notin {"eligibility", "resolution"}
      BY <2>2 DEF BuildMove, PointNext, RerunNext
    <3> QED BY <3>1, <3>2 DEF Pricing
  <2> QED BY <1>1, <2>1, <2>2, <2>3, PublishMoves
<1>2. CASE Freeze(s)
  <2>1. CASE Ended(y)
    BY <2>1, NotPricing DEF Ended, Idle, PricingSteps
  <2>2. CASE FreezeMove(x, y)
    <3>1. y.pc \notin PricingSteps
      BY <2>2 DEF FreezeMove, PricingSteps
    <3> QED BY <3>1, NotPricing
  <2> QED BY <1>2, <2>1, <2>2, FreezeMoves
<1>3. CASE Abort(s)
  <2>1. Ended(y)
    BY <1>3, StopEnds DEF Abort, Outcomes
  <2> QED BY <2>1, NotPricing DEF Ended, Idle, PricingSteps
<1> QED BY <1>1, <1>2, <1>3, StartPrices, DbtPrices, RestatePrices DEF Continue

LEMMA OnlyReprocessRestates ==
  ASSUME NEW s \in Sessions, Start(s) \/ Continue(s) \/ Abort(s), ~Reprocess(s)
  PROVE  restated' = restated
<1>1. CASE Start(s) \/ Abort(s)
  BY <1>1 DEF Start, StartPublish, StartFreeze, StartRestate, StartBuild, Rematch, Abort, layerVars
<1>2. CASE Dbt(s)
  BY <1>2 DEF Dbt, Eligibility, Resolution, Disposition, Streams, SelectFact, MergeFact,
              SelectDelta, MergeDelta, Reconciliation, Verify, Test, layerVars
<1>3. CASE Publish(s)
  BY <1>3 DEF Publish, VerifyFrozenInputs, ReadExisting, CompareWithRegistry, Promote,
              EnsurePointerTable, ReadFirst, Point, CompareRerun, PointAway, PointBack,
              CompareUnharmed, SetPointer, layerVars
<1>4. CASE Freeze(s) \/ Restate(s)
  BY <1>4 DEF Freeze, ReadIdentity, ReadDigest, CreateRegistry, RegisterBaseline, ReadBack,
              Restate, ReadBaseline, DigestBefore, VerifyRestatedMatches, Identify, DigestAfter,
              RegisterRestatement, MovePointer, layerVars
<1> QED BY <1>1, <1>2, <1>3, <1>4 DEF Continue

\* What is merged under a run is restated matches of the run's version, or what a plain build
\* found; and nothing is ever merged over it.
LEMMA DatedStep ==
  ASSUME TypeOK, VersionInvariant, NEW s \in Sessions, Start(s) \/ Continue(s) \/ Abort(s)
  PROVE  Dated'
<1> DEFINE x == session[s]
           Holds(run, content) ==
             \/ content = {}
             \/ \E u \in RestatedUniverses : content = {Whole(u)} /\ Versioned(run, u)
<1>1. restated' \in RestatedUniverses \cup {NoTable}
  BY OnlyReprocessRestates DEF Reprocess, VersionInvariant, Dated
<1>f. \A run \in Runs : fact[run].content # {} => fact'[run] = fact[run]
  BY PublishedStays DEF VersionInvariant, Next
<1>2. fact'[PriorRun].content = {Whole(PolicyUniverse)}
  BY <1>f, RunsAssumption DEF VersionInvariant, Dated
<1>3. ASSUME NEW run \in Runs \ {PriorRun, RehearsalRun}
      PROVE  Holds(run, fact'[run].content)
  <2>0. Holds(run, fact[run].content)
    BY DEF VersionInvariant, Dated
  <2>1. CASE fact'[run] = fact[run]
    BY <2>0, <2>1
  <2>2. CASE fact'[run] # fact[run]
    <3>1. MergeFact(s)
      BY <2>2, OnlyMergeWritesTheFact
    <3>2. /\ x.pc = "merge_fact" /\ x.rows # {} /\ x.cmd.run \in Runs
          /\ fact' = [fact EXCEPT ![x.cmd.run] = [content |-> @.content \cup x.rows,
                                                  stamp |-> @.stamp + 1]]
      BY <2>2, <3>1 DEF MergeFact, MergeAttribution, At, Run, TypeOK, SessionStates, Commands
    <3>3. run = x.cmd.run /\ fact \in [Runs -> Publications]
      BY <2>2, <3>2 DEF TypeOK, LayerTypeOK
    <3>4. fact[run].content = {}
      BY <2>2, <1>f
    <3>5. fact'[run].content = x.rows
      BY <3>2, <3>3, <3>4
    <3>6. x.cmd.name \in {"restate", "build"}
      BY <3>2, <3>3 DEF VersionInvariant, Named, DbtSteps
    <3>7. PICK u \in RestatedUniverses : Prices(x, u) /\ x.rows = {Whole(u)}
      BY <3>2, <3>6 DEF VersionInvariant, Pricing
    <3>8. Versioned(run, u)
      BY <3>3, <3>6, <3>7 DEF Versioned, VersionInvariant, Named, Prices
    <3> QED BY <3>5, <3>7, <3>8
  <2> QED BY <2>1, <2>2
<1> QED BY <1>1, <1>2, <1>3 DEF Dated, Versioned

\* The reconciliation ties the total of the delta to what stands, and the explanation ties
\* that to what was recorded.
LEMMA ExplainingStep ==
  ASSUME TypeOK, VersionInvariant, NEW s \in Sessions, Start(s) \/ Continue(s) \/ Abort(s)
  PROVE  Explaining(session[s])'
<1> DEFINE x == session[s]
           y == session'[s]
<1>w. Walking(x) /\ Explaining(x)
  BY DEF VersionInvariant, Lone, Accounted
<1>m. Moves(x, y)
  BY StepsAreMoves
<1>e. ASSUME Ended(y)
      PROVE  y.pc = "idle"
  BY <1>e DEF Ended, Idle
<1>t. x.pc \notin {"merge_fact", "merge_delta"} => fact' = fact /\ delta' = delta
  BY OnlyMergeWritesTheFact, OnlyMergeWritesTheDelta DEF MergeFact, MergeDelta, At
<1>1. y.pc = "verify" /\ y.then = "after" /\ recon' = "exact" => Totalled(session[s])'
  <2> SUFFICES ASSUME y.pc = "verify", y.then = "after", recon' = "exact"
               PROVE  Totalled(session[s])'
    OBVIOUS
  <2>1. CASE x.pc = "reconciliation" /\ DbtMove(x, y)
    <3>1. Reconciliation(s)
      BY <1>e, <2>1, StepAtReconciliation
    <3>2. BuildReconciliation(Run(s), Rid(s))
      <4>1. Stop(s, "refused") => y.pc = "idle"
        BY DEF Stop, Idle, TypeOK
      <4> QED BY <3>1, <4>1 DEF Reconciliation
    <3>3. ReconcilesExactly(Run(s), Rid(s))
      BY <3>2 DEF BuildReconciliation
    <3>4. Totalled(x)
      BY <3>3 DEF ReconcilesExactly, Totalled, Gain, Run, Rid
    <3>5. y.cmd = x.cmd /\ fact' = fact /\ delta' = delta
      BY <2>1, <1>t DEF DbtMove
    <3> QED BY <3>4, <3>5 DEF Totalled, Gain
  <2>2. CASE y = x
    <3>1. Verify(s)
      BY <1>e, <2>2, StepAtVerify
    <3>2. session'[s].pc \in {"idle", x.then}
      BY <3>1 DEF Verify, GotoIf, Goto, Stop, Idle, TypeOK, SessionStates
    <3> QED BY <2>2, <3>2
  <2> QED BY <1>m, <1>e, <1>w, <2>1, <2>2
          DEF Walking, Moves, Begun, DbtMove, ValidationMove, BuildMove, PointNext, RerunNext,
              FreezeMove, RestateMove
<1>2. y.pc \in {"after", "enter"} => Gain(session[s])' = RecordedDelta[y.cmd.rid]
  <2> SUFFICES ASSUME y.pc \in {"after", "enter"}
               PROVE  Gain(session[s])' = RecordedDelta[y.cmd.rid]
    OBVIOUS
  <2>1. CASE y = x \/ RestateMove(x, y)
    <3>1. x.pc \in {"after", "enter"} /\ y.cmd = x.cmd
      BY <2>1 DEF RestateMove
    <3>2. Gain(x) = RecordedDelta[x.cmd.rid] /\ fact' = fact
      BY <1>t, <1>w, <3>1 DEF Explaining
    <3> QED BY <3>1, <3>2 DEF Gain
  <2>2. CASE DbtMove(x, y)
    <3>1. x.pc = "verify" /\ x.then = "after" /\ y.cmd = x.cmd
      BY <2>2, <1>w DEF DbtMove, Walking
    <3>2. Verify(s)
      BY <1>e, <3>1, StepAtVerify
    <3>3. recon = "exact" /\ EveryDeltaIsExplained
      <4>1. \A outcome : Stop(s, outcome) => y.pc = "idle"
        BY DEF Stop, Idle, TypeOK
      <4> QED BY <3>2, <4>1 DEF Verify, GotoIf, DeltaReconciles
    <3>4. PICK change : delta[x.cmd.rid] = {change} /\ Difference(change) = Gain(x)
      BY <1>w, <3>1, <3>3 DEF Explaining, Totalled
    <3>5. x.cmd.rid \in RestatementIds
      BY DEF TypeOK, SessionStates, Commands
    <3>6. Difference(change) = RecordedDelta[x.cmd.rid]
      BY <3>3, <3>4, <3>5 DEF EveryDeltaIsExplained, Explained
    <3>7. fact' = fact
      BY <1>t, <3>1
    <3> QED BY <3>1, <3>4, <3>6, <3>7 DEF Gain
  <2> QED BY <1>m, <1>e, <2>1, <2>2
          DEF Moves, Begun, ValidationMove, BuildMove, PointNext, RerunNext, FreezeMove
<1> QED BY <1>1, <1>2 DEF Explaining

\* What a restater registers is of the version it was given: under a run of its own because
\* it checked, under the run of a plain build because of what it pays.
LEMMA EnteringDated ==
  ASSUME VersionsApart, RecordedTells, TypeOK, VersionInvariant, NEW s \in Sessions,
         session[s].pc = "enter"
  PROVE  \A st \in session[s].made.content : NormOf[st.listens] = session[s].cmd.norm
<1> DEFINE x == session[s]
<1>1. PICK args \in RestateArgs :
        x.cmd.run = NewRun[args] /\ x.cmd.rid = args.rid /\ x.cmd.norm = args.norm
  BY DEF VersionInvariant, Lone, Accounted, Walking, RestateSteps, Named
<1>2. x.cmd.run \in Runs \ {PriorRun, RehearsalRun}
  BY <1>1, SessionsAssumption
<1>3. x.made.content # {} /\ x.made.content = fact[x.cmd.run].content
  BY DEF VersionInvariant, Lone, Serial, Backed, Holding, Registering, Exact, Run
<1>4. PICK u \in RestatedUniverses :
        fact[x.cmd.run].content = {Whole(u)} /\ Versioned(x.cmd.run, u)
  BY <1>2, <1>3 DEF VersionInvariant, Dated
<1>5. NormOf[u] = x.cmd.norm
  <2>1. CASE \E a \in RestateArgs : NewRun[a] = x.cmd.run /\ NormOf[u] = a.norm
    BY <1>1, <2>1 DEF VersionsApart
  <2>2. CASE x.cmd.run = PublishedRestatement
    <3>1. Gain(x) = RecordedDelta[x.cmd.rid]
      BY DEF VersionInvariant, Explaining
    <3>2. fact[PriorRun].content = {Whole(PolicyUniverse)}
      BY DEF VersionInvariant, Dated
    <3>3. u \in Universes /\ PolicyUniverse \in Universes
      BY SessionsAssumption
    <3>4. Amount[u] - Amount[PolicyUniverse] = RecordedDelta[args.rid]
      BY <1>1, <1>4, <3>1, <3>2, <3>3, WholePays DEF Gain
    <3> QED BY <1>1, <2>2, <3>4 DEF RecordedTells
  <2> QED BY <1>4, <2>1, <2>2 DEF Versioned
<1>6. Whole(u).listens = u
  BY DEF Whole
<1> QED BY <1>3, <1>4, <1>5, <1>6

LEMMA PricedStep ==
  ASSUME VersionsApart, RecordedTells, TypeOK, VersionInvariant, NEW s \in Sessions,
         Start(s) \/ Continue(s) \/ Abort(s)
  PROVE  PricedUnderItsVersion'
<1> DEFINE x == session[s]
           entry == registry[NewPublication]
           entered == registry'[NewPublication]
<1>s. registry \in [PublicationIds -> Entries \cup {NoEntry}] /\ NewPublication \in PublicationIds
  BY SessionsAssumption DEF TypeOK
<1>1. ASSUME entered = entry
      PROVE  PricedUnderItsVersion'
  BY <1>1 DEF VersionInvariant, PricedUnderItsVersion
<1>2. CASE entry # NoEntry
  <2>1. entered \in {entry, [entry EXCEPT !.frozen = FALSE]} /\ entry \in Entries
    BY <1>2, <1>s, EntriesStay DEF Next
  <2>2. entered.rid = entry.rid /\ entered.rows = entry.rows /\ entered.norm = entry.norm
    BY <2>1 DEF Entries
  <2> QED BY <1>2, <2>2 DEF VersionInvariant, PricedUnderItsVersion
<1>3. CASE entry = NoEntry /\ RegisterBaseline(s) /\ x.cmd.id = NewPublication
  <2>1. entered = [run |-> Run(s), rid |-> NotGiven, norm |-> NormOf[silver],
                   rows |-> x.made, frozen |-> TRUE]
    BY <1>3, <1>s DEF RegisterBaseline
  <2> QED BY <2>1 DEF PricedUnderItsVersion
<1>4. CASE RegisterBaseline(s) /\ x.cmd.id # NewPublication
  BY <1>1, <1>4, <1>s DEF RegisterBaseline
<1>5. CASE entry = NoEntry /\ RegisterRestatement(s)
  <2>1. entered = [run |-> Run(s), rid |-> Rid(s), norm |-> x.cmd.norm,
                   rows |-> x.made, frozen |-> TRUE]
    BY <1>5, <1>s DEF RegisterRestatement
  <2>2. \A st \in x.made.content : NormOf[st.listens] = x.cmd.norm
    BY <1>5, EnteringDated DEF RegisterRestatement, At
  <2> QED BY <2>1, <2>2 DEF PricedUnderItsVersion
<1>6. CASE registry' = registry
  BY <1>1, <1>6
<1> QED BY <1>2, <1>3, <1>4, <1>5, <1>6, OnlyTwoRegister

LEMMA VersionStep ==
  ASSUME \A p, q \in Sessions : p = q, VersionsApart, RecordedTells
  PROVE  TypeOK /\ VersionInvariant /\ [Next]_vars => VersionInvariant'
<1> SUFFICES ASSUME TypeOK, VersionInvariant, [Next]_vars PROVE VersionInvariant'
  OBVIOUS
<1>1. Lone'
  BY LoneStep DEF VersionInvariant
<1>2. ASSUME NEW s \in Sessions, Start(s) \/ Continue(s) \/ Abort(s)
      PROVE  VersionInvariant'
  <2>1. Walking(session[s]) /\ Named(session[s]) /\ Pricing(session[s]) /\ Dated
    BY DEF VersionInvariant, Lone, Accounted
  <2>2. Dated' /\ Explaining(session[s])' /\ PricedUnderItsVersion'
    BY <1>2, DatedStep, ExplainingStep, PricedStep
  <2>3. Named(session[s])' /\ Pricing(session[s])'
    BY <1>2, <2>1, <2>2, StepsAreMoves, NamedMove, PricingStep DEF Named
  <2>4. Sessions = {s}
    OBVIOUS
  <2> QED BY <1>1, <2>2, <2>3, <2>4 DEF VersionInvariant
<1>3. ASSUME UNCHANGED vars
      PROVE  VersionInvariant'
  <2>1. /\ restated' = restated /\ derived' = derived /\ fact' = fact /\ delta' = delta
        /\ recon' = recon /\ registry' = registry /\ session' = session
    BY <1>3 DEF vars, layerVars, pubVars
  <2>2. Dated' /\ PricedUnderItsVersion'
    BY <2>1 DEF VersionInvariant, Dated, Versioned, PricedUnderItsVersion
  <2>3. ASSUME NEW s \in Sessions
        PROVE  Named(session[s])' /\ Pricing(session[s])' /\ Explaining(session[s])'
    <3>1. Named(session[s]) /\ Pricing(session[s]) /\ Explaining(session[s])
      BY DEF VersionInvariant
    <3>2. Named(session[s])'
      BY <2>1, <3>1 DEF Named
    <3>3. Pricing(session[s])'
      BY <2>1, <3>1 DEF Pricing, Prices
    <3>4. Explaining(session[s])'
      BY <2>1, <3>1 DEF Explaining, Totalled, Gain
    <3> QED BY <3>2, <3>3, <3>4
  <2> QED BY <1>1, <2>2, <2>3 DEF VersionInvariant
<1> QED BY <1>2, <1>3 DEF Next

LEMMA VersionInit == Init => VersionInvariant
<1> SUFFICES ASSUME Init PROVE VersionInvariant
  OBVIOUS
<1>1. Dated
  BY RunsAssumption DEF Init, Dated, Whole, Unpublished
<1>2. PricedUnderItsVersion
  BY SessionsAssumption DEF Init, PricedUnderItsVersion
<1>3. \A s \in Sessions :
        Named(session[s]) /\ Pricing(session[s]) /\ Explaining(session[s])
  BY DEF Init, Idle, NoCommand, Named, Pricing, Explaining, DbtSteps
<1> QED BY <1>1, <1>2, <1>3, LoneInit DEF VersionInvariant

\* A restatement registered under a normalization version was priced from matches of that
\* version (publish_restatement.py:225 checks the table it is about to build from, but a run
\* that stands is not built again), on a warehouse where one session works at a time, where the
\* version is in the run id, and where no matches of another version pay the recorded
\* difference: of what a plain build or a killed program left under the run, only the totals
\* are ever looked at.
THEOREM RestatementsAreOfTheirVersion ==
  ASSUME \A p, q \in Sessions : p = q, VersionsApart, RecordedTells
  PROVE  Spec => []PricedUnderItsVersion
<1>1. VersionInvariant => PricedUnderItsVersion
  BY DEF VersionInvariant
<1> QED BY <1>1, VersionInit, VersionStep, TypeCorrect, PTL DEF Spec

=============================================================================

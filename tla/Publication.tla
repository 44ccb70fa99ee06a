---------------------------- MODULE Publication ----------------------------
(***************************************************************************)
(* The programs that publish, freeze and restate, running against the      *)
(* financial layer, the publication registry and the CURRENT pointer:      *)
(*                                                                         *)
(*   publish   src/payout/publish.py                                       *)
(*   freeze    src/restatement/freeze_baseline.py                          *)
(*   restate   src/restatement/publish_restatement.py                      *)
(*   build     a plain `dbt build` (the run_dbt_build task, an operator)   *)
(*                                                                         *)
(* A session runs one program at a time, one warehouse job per step, and   *)
(* may be killed between any two of them: there is no transaction around   *)
(* the steps and no lock between sessions.  The matcher and the            *)
(* reprocessing of the cohort, which replace the match tables, are run     *)
(* from the same sessions.                                                 *)
(***************************************************************************)
EXTENDS FinancialLayer

CONSTANTS
  Sessions,             \* the shells and scheduler workers that run programs
  MatchUniverses,       \* what silver_listen_matches may be replaced by
  RestatedUniverses,    \* what silver_listen_matches_restated may be replaced by
  PolicyUniverse,       \* the match run config/payout_policy.yml names
  NormOf,               \* the normalization and scoring version of a universe
  RehearsalRun,         \* attribution_run_id(policy, "REHEARSAL")
  RestateArgs,          \* [rid, norm]: what --restatement-run-id and
                        \* --new-normalization-version may be given
  NewRun,               \* the attribution_run_id hashed from the arguments
  PublishedRestatement, \* the one config/frozen_versions.yml records
  LegacyId,             \* var restatement_run_id, and the restater's default
  PublicationIds,
  PriorPublication,     \* "pub:v1"
  NewPublication,       \* "pub:v2"
  FreezeIds,            \* what --publication-id may be given
  NotGiven, NoEntry, NoRow,
  Parked,               \* "attr:none"
  SumOfNothingIsNull    \* SUM over no rows: NULL in the warehouse, 0 in the
                        \* unit tests' double

ASSUME SessionsAssumption ==
  /\ {PriorRun, RehearsalRun, PublishedRestatement} \subseteq Runs
  /\ PriorRun # RehearsalRun
  /\ Runs \cap {Parked, NoRow, NoTable} = {}
  /\ Parked \notin {NoRow, NoTable}
  /\ LegacyId \in RestatementIds
  /\ NewRun \in [RestateArgs -> Runs \ {PriorRun, RehearsalRun}]
  /\ \A a \in RestateArgs : a.rid \in RestatementIds
  /\ NormOf \in [Universes -> {a.norm : a \in RestateArgs} \cup {NotGiven}]
  /\ {PriorPublication, NewPublication} \subseteq PublicationIds
  /\ PriorPublication # NewPublication
  /\ FreezeIds \subseteq PublicationIds
  /\ MatchUniverses \cup RestatedUniverses \subseteq Universes
  /\ PolicyUniverse \in MatchUniverses
  /\ SumOfNothingIsNull \in BOOLEAN

VARIABLES
  hasRegistry,  \* publication_registry exists
  registry,     \* publication_registry, by publication_id
  pointer,      \* the CURRENT row of publication_pointer
  session       \* what each session is running, and where it stands

pubVars == <<hasRegistry, registry, pointer>>
vars == <<layerVars, pubVars, session>>

Flags == {"move_pointer", "prove_idempotency", "prove_pointer_move",
          "allow_new_publication"}

Commands == [name  : {"none", "publish", "freeze", "restate", "build"},
             run   : Runs,
             rid   : RestatementIds,
             norm  : {a.norm : a \in RestateArgs} \cup {NotGiven},
             id    : PublicationIds \cup {NotGiven},
             flags : SUBSET Flags]

PublishSteps == {"inputs", "existing", "registered", "promote", "ensure", "first",
                 "point", "compare", "away", "back", "unharmed", "test"}
FreezeSteps == {"identity", "digest", "create", "register", "readback"}
RestateSteps == {"baseline", "before", "matches", "identify", "after", "enter", "move"}
DbtSteps == {"eligibility", "resolution", "disposition", "streams",
             "select_fact", "merge_fact", "select_delta", "merge_delta",
             "reconciliation", "verify"}
Steps == PublishSteps \cup FreezeSteps \cup RestateSteps \cup DbtSteps \cup {"idle"}

\* How a program ended: on its own, by its own check or a failed dbt (SystemExit),
\* by an exception nobody catches; "none" while it runs and when it was killed.
Outcomes == {"none", "done", "refused", "crashed"}

Entries == [run    : Runs,
            rid    : RestatementIds \cup {NotGiven},  \* match_run_id
            norm   : {a.norm : a \in RestateArgs} \cup {NotGiven},
            rows   : Publications,  \* content_digest, row_count, totals, published_at
            frozen : BOOLEAN]

ASSUME EntriesAssumption == NoEntry \notin Entries

SessionStates == [cmd     : Commands,
                  pc      : Steps,
                  then    : Steps,          \* where the program resumes after dbt
                  rows    : Contents,       \* the fact's temporary relation
                  changes : SUBSET Changes, \* the delta mart's
                  seen    : Publications,   \* what the program read and compares with
                  made    : Publications,   \* what it read to register
                  outcome : Outcomes]       \* how the last program ended

TypeOK ==
  /\ LayerTypeOK
  /\ hasRegistry \in BOOLEAN
  /\ registry \in [PublicationIds -> Entries \cup {NoEntry}]
  /\ pointer \in Runs \cup {Parked, NoRow, NoTable}
  /\ session \in [Sessions -> SessionStates]

NoCommand == [name |-> "none", run |-> PriorRun, rid |-> LegacyId, norm |-> NotGiven,
              id |-> NotGiven, flags |-> {}]

Idle(outcome) == [cmd |-> NoCommand, pc |-> "idle", then |-> "idle", rows |-> {},
                  changes |-> {}, seen |-> Unpublished, made |-> Unpublished,
                  outcome |-> outcome]

\* The warehouse after the first publication and before its baseline is frozen:
\* pub:v1's rows are in the fact, priced from the published match run, nothing
\* was restated yet. The pointer may stand on it or never have been set.
Init ==
  /\ silver = PolicyUniverse
  /\ restated = NoTable
  /\ LET priced == [listens |-> PolicyUniverse, owners |-> PolicyUniverse]
     IN  /\ derived = [eligibility |-> PolicyUniverse, resolution |-> PolicyUniverse,
                       disposition |-> priced, streams |-> priced]
         /\ fact = [run \in Runs |-> IF run = PriorRun
                                     THEN [content |-> {priced}, stamp |-> 1]
                                     ELSE Unpublished]
  /\ delta = [rid \in RestatementIds |-> {}]
  /\ recon = "absent"
  /\ hasRegistry = FALSE
  /\ registry = [id \in PublicationIds |-> NoEntry]
  /\ pointer \in {PriorRun, NoRow, NoTable}
  /\ session = [s \in Sessions |-> Idle("none")]

-----------------------------------------------------------------------------
(* Moving a session along *)

At(s, pc) == session[s].pc = pc
Run(s) == session[s].cmd.run
Rid(s) == session[s].cmd.rid
Given(s, flag) == flag \in session[s].cmd.flags

Goto(s, pc) == session' = [session EXCEPT ![s].pc = pc]
Stop(s, outcome) == session' = [session EXCEPT ![s] = Idle(outcome)]
GotoIf(s, condition, pc, otherwise) ==
  IF condition THEN Goto(s, pc) ELSE Stop(s, otherwise)

\* Start dbt at model `first`; the program resumes at `then`.
CallDbt(s, first, then) ==
  session' = [session EXCEPT ![s].pc = first, ![s].then = then]

Begin(s, cmd, pc) ==
  /\ At(s, "idle")
  /\ session' = [session EXCEPT ![s] = [Idle("none") EXCEPT !.cmd = cmd, !.pc = pc]]

-----------------------------------------------------------------------------
(* dbt: the models of a build, one job each. It ends in failure when a job *)
(* or a test does, leaving what was already written.                       *)

Eligibility(s) ==
  /\ At(s, "eligibility")
  /\ IF restated = NoTable
     THEN Stop(s, "refused") /\ UNCHANGED derived
     ELSE Goto(s, "resolution") /\ BuildEligibility
  /\ UNCHANGED <<silver, restated, fact, delta, recon, pubVars>>

Resolution(s) ==
  /\ At(s, "resolution")
  /\ BuildResolution
  /\ Goto(s, "disposition")
  /\ UNCHANGED <<silver, restated, fact, delta, recon, pubVars>>

Disposition(s) ==
  /\ At(s, "disposition")
  /\ BuildDisposition
  /\ Goto(s, "streams")
  /\ UNCHANGED <<silver, restated, fact, delta, recon, pubVars>>

Streams(s) ==
  /\ At(s, "streams")
  /\ BuildStreams
  /\ Goto(s, "select_fact")
  /\ UNCHANGED <<silver, restated, fact, delta, recon, pubVars>>

SelectFact(s) ==
  /\ At(s, "select_fact")
  /\ session' = [session EXCEPT ![s].pc = "merge_fact",
                                ![s].rows = SelectAttribution(Run(s))]
  /\ UNCHANGED <<layerVars, pubVars>>

\* `dbt run --select fct_royalty_attribution` stops here, `dbt build` goes on.
MergeFact(s) ==
  /\ At(s, "merge_fact")
  /\ MergeAttribution(Run(s), session[s].rows)
  /\ session' = [session EXCEPT ![s].rows = {},
                    ![s].pc = IF session[s].then = "compare"
                              THEN "compare" ELSE "select_delta"]
  /\ UNCHANGED <<silver, restated, derived, delta, recon, pubVars>>

\* The total the vars pin the prior publication to: the restater passes the
\* registry's, everyone else the project default.
PinnedPaid(s) ==
  IF session[s].cmd.name = "restate" THEN Paid(session[s].seen.content) ELSE PriorPaid

\* The tests on the fact come first, except under `--select fct_restatements+`,
\* which does not select them.
SelectDelta(s) ==
  /\ At(s, "select_delta")
  /\ IF \/ session[s].then = "after"
        \/ PriorUntouched(PinnedPaid(s)) /\ NothingHeldReachedTheFact
     THEN session' = [session EXCEPT ![s].pc = "merge_delta",
                                     ![s].changes = SelectRestatement(Run(s), Rid(s))]
     ELSE Stop(s, "refused")
  /\ UNCHANGED <<layerVars, pubVars>>

MergeDelta(s) ==
  /\ At(s, "merge_delta")
  /\ MergeRestatement(Rid(s), session[s].changes)
  /\ session' = [session EXCEPT ![s].changes = {}, ![s].pc = "reconciliation"]
  /\ UNCHANGED <<silver, restated, derived, fact, recon, pubVars>>

Reconciliation(s) ==
  /\ At(s, "reconciliation")
  /\ IF restated = NoTable
     THEN Stop(s, "refused") /\ UNCHANGED recon
     ELSE Goto(s, "verify") /\ BuildReconciliation(Run(s), Rid(s))
  /\ UNCHANGED <<silver, restated, derived, fact, delta, pubVars>>

\* The tests on the delta mart and its reconciliation, and the view
\* fct_royalty_attribution_current, which reads the pointer table.
Verify(s) ==
  /\ At(s, "verify")
  /\ LET ok == EveryDeltaIsExplained /\ DeltaReconciles /\ pointer # NoTable
     IN  IF session[s].cmd.name = "build"
         THEN Stop(s, IF ok THEN "done" ELSE "refused")
         ELSE GotoIf(s, ok, session[s].then, "refused")
  /\ UNCHANGED <<layerVars, pubVars>>

\* A plain `dbt build`, under the defaults of dbt_project.yml.
StartBuild(s) ==
  /\ Begin(s, [NoCommand EXCEPT !.name = "build", !.run = PublishedRestatement],
           "eligibility")
  /\ UNCHANGED <<layerVars, pubVars>>

\* `dbt test`: every test, over what is there.
TestsPass(s) ==
  /\ PriorUntouched(PinnedPaid(s))
  /\ NothingHeldReachedTheFact
  /\ EveryDeltaIsExplained
  /\ DeltaReconciles

Test(s) ==
  /\ At(s, "test")
  /\ Stop(s, IF TestsPass(s) THEN "done" ELSE "refused")
  /\ UNCHANGED <<layerVars, pubVars>>

Dbt(s) ==
  \/ Eligibility(s) \/ Resolution(s) \/ Disposition(s) \/ Streams(s)
  \/ SelectFact(s) \/ MergeFact(s) \/ SelectDelta(s) \/ MergeDelta(s)
  \/ Reconciliation(s) \/ Verify(s) \/ Test(s)

-----------------------------------------------------------------------------
(* publish: validate what exists, or build it                              *)

\* The run id comes from the policy and the label, never from the pointer.
StartPublish(s) ==
  /\ \E run \in {PriorRun, RehearsalRun},
        flags \in SUBSET {"move_pointer", "prove_idempotency", "prove_pointer_move"} :
       /\ "prove_pointer_move" \in flags => "move_pointer" \in flags
       /\ Begin(s, [NoCommand EXCEPT !.name = "publish", !.run = run, !.flags = flags],
                "inputs")
  /\ UNCHANGED <<layerVars, pubVars>>

\* verify_frozen_inputs looks at silver_listen_matches.
VerifyFrozenInputs(s) ==
  /\ At(s, "inputs")
  /\ GotoIf(s, silver = PolicyUniverse, "existing", "refused")
  /\ UNCHANGED <<layerVars, pubVars>>

ReadExisting(s) ==
  /\ At(s, "existing")
  /\ session' = [session EXCEPT ![s].pc = "registered", ![s].seen = fact[Run(s)]]
  /\ UNCHANGED <<layerVars, pubVars>>

EntriesOf(run) ==
  {id \in PublicationIds : registry[id] # NoEntry /\ registry[id].run = run}

\* int() of a NULL row count.
CountFails(publication) == publication.content = {} /\ SumOfNothingIsNull

\* Mutant: a valid publication is built again.
RebuildOverRegistry(s) ==
  /\ At(s, "registered")
  /\ IF hasRegistry /\ ~CountFails(session[s].seen)
     THEN Goto(s, "ensure") ELSE Stop(s, "refused")
  /\ UNCHANGED <<layerVars, pubVars>>

\* existing_publication, once both queries answered. Note that `frozen` is
\* reported and not required.
CompareWithRegistry(s) ==
  LET seen == session[s].seen
      entries == EntriesOf(Run(s))
  IN
  /\ At(s, "registered")
  /\ \/ /\ ~hasRegistry
        /\ Stop(s, "refused")
     \/ /\ hasRegistry
        /\ CountFails(seen)
        /\ Stop(s, "crashed")
     \/ /\ hasRegistry /\ ~CountFails(seen)
        /\ seen.content = {} /\ entries = {}
        /\ Goto(s, "ensure")
     \/ /\ hasRegistry /\ ~CountFails(seen)
        /\ (seen.content = {}) # (entries = {})
        /\ Stop(s, "refused")
     \/ /\ hasRegistry
        /\ seen.content # {}
        /\ \E id \in entries :
             IF entries = {id} /\ registry[id].rows.content = seen.content
             THEN GotoIf(s, Given(s, "move_pointer"), "promote", "done")
             ELSE Stop(s, "refused")
  /\ UNCHANGED <<layerVars, pubVars>>

\* MERGE on pointer_name.
SetPointer(s, run, pc) ==
  /\ IF pointer = NoTable
     THEN Stop(s, "crashed") /\ UNCHANGED pointer
     ELSE Goto(s, pc) /\ pointer' = run
  /\ UNCHANGED <<layerVars, hasRegistry, registry>>

\* The validated publication is promoted, and the program ends.
Promote(s) ==
  /\ At(s, "promote")
  /\ IF pointer = NoTable
     THEN Stop(s, "crashed") /\ UNCHANGED pointer
     ELSE Stop(s, "done") /\ pointer' = Run(s)
  /\ UNCHANGED <<layerVars, hasRegistry, registry>>

\* Mutant: the row is seeded with the run that is about to be published.
EnsurePointerRow(s) ==
  /\ At(s, "ensure")
  /\ pointer' = IF pointer = NoTable THEN Run(s) ELSE pointer
  /\ CallDbt(s, "disposition", "first")
  /\ UNCHANGED <<layerVars, hasRegistry, registry>>

\* ensure_pointer_table, then `dbt build --select int_financial_disposition+ ...`
EnsurePointerTable(s) ==
  /\ At(s, "ensure")
  /\ pointer' = IF pointer = NoTable THEN NoRow ELSE pointer
  /\ CallDbt(s, "disposition", "first")
  /\ UNCHANGED <<layerVars, hasRegistry, registry>>

AfterRerun(s) == IF Given(s, "prove_pointer_move") THEN "away" ELSE "test"
AfterPoint(s) == IF Given(s, "prove_idempotency") THEN "select_fact" ELSE AfterRerun(s)

ReadFirst(s) ==
  /\ At(s, "first")
  /\ IF fact[Run(s)].content = {}
     THEN Stop(s, "refused")
     ELSE session' = [session EXCEPT ![s].seen = fact[Run(s)], ![s].then = "compare",
            ![s].pc = IF Given(s, "move_pointer") THEN "point" ELSE AfterPoint(s)]
  /\ UNCHANGED <<layerVars, pubVars>>

Point(s) ==
  /\ At(s, "point")
  /\ SetPointer(s, Run(s), AfterPoint(s))

\* --prove-idempotency: rows, digest, total and first published_at.
CompareRerun(s) ==
  /\ At(s, "compare")
  /\ GotoIf(s, fact[Run(s)] = session[s].seen, AfterRerun(s), "refused")
  /\ UNCHANGED <<layerVars, pubVars>>

\* Mutant: the pointer is not put back.
LeavePointerAway(s) ==
  /\ At(s, "away")
  /\ pointer' = Parked
  /\ session' = [session EXCEPT ![s].pc = "unharmed", ![s].seen = fact[Run(s)]]
  /\ UNCHANGED <<layerVars, hasRegistry, registry>>

\* --prove-pointer-move: the pointer is parked, then restored.
PointAway(s) ==
  /\ At(s, "away")
  /\ pointer' = Parked
  /\ session' = [session EXCEPT ![s].pc = "back", ![s].seen = fact[Run(s)]]
  /\ UNCHANGED <<layerVars, hasRegistry, registry>>

PointBack(s) ==
  /\ At(s, "back")
  /\ SetPointer(s, Run(s), "unharmed")

CompareUnharmed(s) ==
  /\ At(s, "unharmed")
  /\ GotoIf(s, fact[Run(s)].content = session[s].seen.content, "test", "refused")
  /\ UNCHANGED <<layerVars, pubVars>>

Publish(s) ==
  \/ VerifyFrozenInputs(s) \/ ReadExisting(s) \/ CompareWithRegistry(s) \/ Promote(s)
  \/ EnsurePointerTable(s) \/ ReadFirst(s) \/ Point(s) \/ CompareRerun(s)
  \/ PointAway(s) \/ PointBack(s) \/ CompareUnharmed(s)

-----------------------------------------------------------------------------
(* freeze: register the baseline                                           *)

StartFreeze(s) ==
  /\ \E id \in FreezeIds :
       Begin(s, [NoCommand EXCEPT !.name = "freeze", !.run = PriorRun, !.id = id],
             "identity")
  /\ UNCHANGED <<layerVars, pubVars>>

ReadIdentity(s) ==
  /\ At(s, "identity")
  /\ session' = [session EXCEPT ![s].pc = "digest", ![s].seen = fact[Run(s)]]
  /\ UNCHANGED <<layerVars, pubVars>>

\* The digest query must cover the rows and the total of the identity query.
ReadDigest(s) ==
  /\ At(s, "digest")
  /\ LET content == fact[Run(s)].content
     IN  IF content # {} /\ Paid(content) = Paid(session[s].seen.content)
         THEN session' = [session EXCEPT ![s].pc = "create",
                ![s].made = [content |-> content, stamp |-> session[s].seen.stamp]]
         ELSE Stop(s, "refused")
  /\ UNCHANGED <<layerVars, pubVars>>

CreateRegistry(s) ==
  /\ At(s, "create")
  /\ hasRegistry' = TRUE
  /\ Goto(s, "register")
  /\ UNCHANGED <<layerVars, registry, pointer>>

\* Mutant: WHEN MATCHED THEN UPDATE.
OverwriteBaseline(s) ==
  /\ At(s, "register")
  /\ registry' = [registry EXCEPT ![session[s].cmd.id] =
       [run |-> Run(s), rid |-> NotGiven, norm |-> NormOf[silver],
        rows |-> session[s].made, frozen |-> TRUE]]
  /\ Goto(s, "readback")
  /\ UNCHANGED <<layerVars, hasRegistry, pointer>>

\* MERGE on publication_id: an entry with another digest is unfrozen, never
\* overwritten.
RegisterBaseline(s) ==
  LET id == session[s].cmd.id
      made == session[s].made
  IN
  /\ At(s, "register")
  /\ registry' = [registry EXCEPT ![id] =
       IF @ = NoEntry
       THEN [run |-> Run(s), rid |-> NotGiven, norm |-> NormOf[silver],
             rows |-> made, frozen |-> TRUE]
       ELSE IF @.rows.content # made.content THEN [@ EXCEPT !.frozen = FALSE]
       ELSE @]
  /\ Goto(s, "readback")
  /\ UNCHANGED <<layerVars, hasRegistry, pointer>>

\* Every entry must still be frozen; then the black box is valued over the
\* disposition of the day, which must hold every listen.
ReadBack(s) ==
  /\ At(s, "readback")
  /\ LET ok == /\ \A id \in PublicationIds : registry[id] # NoEntry => registry[id].frozen
               /\ derived.disposition.listens \in Complete
     IN  Stop(s, IF ok THEN "done" ELSE "refused")
  /\ UNCHANGED <<layerVars, pubVars>>

Freeze(s) ==
  \/ ReadIdentity(s) \/ ReadDigest(s) \/ CreateRegistry(s) \/ RegisterBaseline(s)
  \/ ReadBack(s)

-----------------------------------------------------------------------------
(* restate: publish the restated matches as the successor of the baseline  *)

\* THE GUARD AGAINST AN ACCIDENTAL SUCCESSOR PUBLICATION.
MayRestate(run, flags) == run = PublishedRestatement \/ "allow_new_publication" \in flags

StartRestate(s) ==
  /\ \E args \in RestateArgs, flags \in SUBSET {"allow_new_publication"} :
       /\ MayRestate(NewRun[args], flags)
       /\ Begin(s, [name |-> "restate", run |-> NewRun[args], rid |-> args.rid,
                    norm |-> args.norm, id |-> NewPublication, flags |-> flags],
                "baseline")
  /\ UNCHANGED <<layerVars, pubVars>>

ReadBaseline(s) ==
  LET entry == registry[PriorPublication] IN
  /\ At(s, "baseline")
  /\ IF hasRegistry /\ entry # NoEntry /\ entry.frozen
     THEN session' = [session EXCEPT ![s].pc = "before", ![s].seen = entry.rows]
     ELSE Stop(s, "refused")
  /\ UNCHANGED <<layerVars, pubVars>>

DigestBefore(s) ==
  /\ At(s, "before")
  /\ GotoIf(s, fact[PriorRun].content = session[s].seen.content, "matches", "refused")
  /\ UNCHANGED <<layerVars, pubVars>>

VerifyRestatedMatches(s) ==
  /\ At(s, "matches")
  /\ IF /\ restated # NoTable
        /\ restated \in Complete
        /\ NormOf[restated] = session[s].cmd.norm
     THEN CallDbt(s, "eligibility", "identify")
     ELSE Stop(s, "refused")
  /\ UNCHANGED <<layerVars, pubVars>>

\* Mutant: the digest of the prior run is taken for the new one's.
IdentifyPrior(s) ==
  /\ At(s, "identify")
  /\ session' = [session EXCEPT ![s].made = fact[PriorRun],
                   ![s].pc = "select_delta", ![s].then = "after"]
  /\ UNCHANGED <<layerVars, pubVars>>

\* v2's identity and digest, then `dbt build --select fct_restatements+`
Identify(s) ==
  /\ At(s, "identify")
  /\ IF fact[Run(s)].content = {}
     THEN Stop(s, "refused")
     ELSE session' = [session EXCEPT ![s].made = fact[Run(s)],
                        ![s].pc = "select_delta", ![s].then = "after"]
  /\ UNCHANGED <<layerVars, pubVars>>

DigestAfter(s) ==
  /\ At(s, "after")
  /\ GotoIf(s, fact[PriorRun] = session[s].seen, "enter", "refused")
  /\ UNCHANGED <<layerVars, pubVars>>

\* MERGE on publication_id, insert only.
RegisterRestatement(s) ==
  /\ At(s, "enter")
  /\ registry' = [registry EXCEPT ![NewPublication] =
       IF @ = NoEntry
       THEN [run |-> Run(s), rid |-> Rid(s), norm |-> session[s].cmd.norm,
             rows |-> session[s].made, frozen |-> TRUE]
       ELSE @]
  /\ Goto(s, "move")
  /\ UNCHANGED <<layerVars, hasRegistry, pointer>>

\* Mutant: the publication id is written where the run id belongs.
MovePointerToTheId(s) ==
  /\ At(s, "move")
  /\ pointer' = IF pointer \in {NoRow, NoTable} THEN pointer ELSE NewPublication
  /\ Goto(s, "test")
  /\ UNCHANGED <<layerVars, hasRegistry, registry>>

\* An UPDATE: it changes no row where there is none.
MovePointer(s) ==
  /\ At(s, "move")
  /\ pointer' = IF pointer \in {NoRow, NoTable} THEN pointer ELSE Run(s)
  /\ GotoIf(s, pointer # NoTable, "test", "crashed")
  /\ UNCHANGED <<layerVars, hasRegistry, registry>>

Restate(s) ==
  \/ ReadBaseline(s) \/ DigestBefore(s) \/ VerifyRestatedMatches(s) \/ Identify(s)
  \/ DigestAfter(s) \/ RegisterRestatement(s) \/ MovePointer(s)

-----------------------------------------------------------------------------
(* Everything together *)

\* The process is killed, a job fails or times out: what the finished jobs
\* wrote stays.
Abort(s) ==
  /\ ~At(s, "idle")
  /\ Stop(s, "none")
  /\ UNCHANGED <<layerVars, pubVars>>

\* build_match_results.py and reprocess_cohort.py, run from a session like any
\* other program. Seen from here they replace their table in one step.
Rematch(s) ==
  /\ At(s, "idle")
  /\ silver' \in MatchUniverses \ {silver}
  /\ UNCHANGED <<restated, derived, fact, delta, recon, pubVars, session>>

Reprocess(s) ==
  /\ At(s, "idle")
  /\ restated' \in RestatedUniverses \ {restated}
  /\ UNCHANGED <<silver, derived, fact, delta, recon, pubVars, session>>

Start(s) ==
  \/ StartPublish(s) \/ StartFreeze(s) \/ StartRestate(s) \/ StartBuild(s)
  \/ Rematch(s) \/ Reprocess(s)
Continue(s) == Dbt(s) \/ Publish(s) \/ Freeze(s) \/ Restate(s)

Next == \E s \in Sessions : Start(s) \/ Continue(s) \/ Abort(s)

Spec == Init /\ [][Next]_vars

-----------------------------------------------------------------------------
(* What a step may never do, and what always holds *)

\* "A completed publication is never updated": once rows stand under a run id,
\* no later step adds to them, replaces them or restamps them.
\* (fct_royalty_attribution's guard and unique key.)
PublishedRowsAreImmutable ==
  [][\A run \in Runs : fact[run].content # {} => fact'[run] = fact[run]]_vars

\* A frozen entry of the registry is the reproducible proof of its publication:
\* its digest is that of the rows that now stand under its run.
FrozenEntriesMatchTheFact ==
  \A id \in PublicationIds :
    registry[id] # NoEntry /\ registry[id].frozen =>
      /\ registry[id].rows.content # {}
      /\ registry[id].rows.content = fact[registry[id].run].content

\* A registered publication is never registered again as something else, nor
\* removed; the one thing that may change is that the alarm unfreezes it.
RegistryIsAppendOnly ==
  [][\A id \in PublicationIds :
       registry[id] # NoEntry =>
         registry'[id] \in {registry[id], [registry[id] EXCEPT !.frozen = FALSE]}]_vars

\* Once a restatement is registered, the delta mart tells exactly its story: one
\* set of changes under its id, from the baseline that stands to what it published.
RegisteredRestatementReconciles ==
  registry[NewPublication] # NoEntry /\ registry[NewPublication].rid # NotGiven =>
    delta[registry[NewPublication].rid] =
      {[prior |-> fact[PriorRun].content,
        new |-> fact[registry[NewPublication].run].content]}

\* Rerunning a valid publication is validation: it rebuilds no table and moves
\* no statement, whatever the flags.
RepublishingOnlyValidates ==
  [][\A s \in Sessions :
       /\ session[s].cmd.name = "publish"
       /\ \E id \in EntriesOf(Run(s)) : registry[id].rows.content = fact[Run(s)].content
       => UNCHANGED <<derived, fact, delta, recon, registry>>]_vars

\* What was registered is still there: the rows a registry entry was written for
\* have not left the fact, whatever else ran meanwhile.
RegisteredIsBacked ==
  \A id \in PublicationIds :
    registry[id] # NoEntry =>
      /\ registry[id].rows.content # {}
      /\ registry[id].rows.content \subseteq fact[registry[id].run].content

\* "restated matches carry {..}, expected {..}": a restatement registered under a
\* normalization version was priced from matches of that version.
PricedUnderItsVersion ==
  LET entry == registry[NewPublication] IN
  entry # NoEntry /\ entry.rid # NotGiven =>
    \A statement \in entry.rows.content : NormOf[statement.listens] = entry.norm

\* A set of changes compares what was published, on both sides: the baseline's
\* rows with those of one run.
DeltasComparePublications ==
  \A rid \in RestatementIds : \A change \in delta[rid] :
    /\ change.prior # {} /\ change.prior \subseteq fact[PriorRun].content
    /\ \E run \in Runs : change.new \subseteq fact[run].content

\* CURRENT always names a publication that has rows, unless a proof parked it.
CurrentHasRows == pointer \in Runs => fact[pointer].content # {}

\* The programs implement the ledger. (Checked of one session.)
Contented == [run \in Runs |-> fact[run].content]
L == INSTANCE PublicationLedger
       WITH published <- Contented, current <- pointer, restatements <- delta,
            NoCurrent <- {Parked, NoRow, NoTable}
Ledger == L!Spec

\* What a program reports of CURRENT is so: a publisher told to move it (its report takes
\* "pointer_moved" from the flag, publish.py:365), and a restater, that end well leave
\* CURRENT on the run they published, however many jobs ago they moved it, whether or not
\* they parked it meanwhile, and wherever a publisher that died had left it. (A restater
\* can UPDATE only a row: where CURRENT was never set it leaves it unset.)
ReportedPromotionIsInForce ==
  [][\A s \in Sessions : session'[s].outcome = "done" =>
       /\ session[s].cmd.name = "publish" /\ Given(s, "move_pointer") => pointer' = Run(s)
       /\ session[s].cmd.name = "restate" => pointer' \in {Run(s), NoRow}]_vars

-----------------------------------------------------------------------------
(* What the repository's documents say of the program *)

\* "Returns the publication when both sides agree, None when neither holds it,
\* and refuses everything in between" (existing_publication): a publication that
\* neither the fact nor the registry holds does not end the program in an exception.
AbsentPublicationIsNone ==
  [][\A s \in Sessions :
       At(s, "registered") /\ hasRegistry
         /\ fact[Run(s)].content = {} /\ EntriesOf(Run(s)) = {}
       => session'[s].outcome # "crashed"]_vars

\* "What must hold regardless of WHICH publication is current: it names a REGISTERED
\* one" (tests/integration/test_payout_contract.py:449): whoever moves CURRENT to a run
\* moves it to one an entry of the registry names. A restatement that finds pub:v2 taken
\* does not (publish_restatement.py:341), so it is checked by no run.
PromotesOnlyRegistered ==
  [][pointer' # pointer /\ pointer' \in Runs => EntriesOf(pointer') # {}]_vars

=============================================================================

------------------------- MODULE PublicationLedger -------------------------
(***************************************************************************)
(* What the publication layer promises, whatever programs work on it: a    *)
(* ledger to which statements are added once and never touched again, a    *)
(* pointer to the statement in force, and a record of restatements, each   *)
(* written once, from two statements as they stand in the ledger.          *)
(***************************************************************************)
CONSTANTS Runs, Contents, RestatementIds, PriorRun,
          NoCurrent   \* the values of a pointer that names no publication

VARIABLES published, current, restatements

ledgerVars == <<published, current, restatements>>

Init ==
  /\ published \in [Runs -> Contents]
  /\ \/ current \in NoCurrent
     \/ current \in Runs /\ published[current] # {}
  /\ restatements = [rid \in RestatementIds |-> {}]

Publish(run) ==
  /\ published[run] = {}
  /\ published' \in [Runs -> Contents]
  /\ published'[run] # {}
  /\ \A other \in Runs \ {run} : published'[other] = published[other]
  /\ UNCHANGED <<current, restatements>>

Promote(run) ==
  /\ published[run] # {}
  /\ current' = run
  /\ UNCHANGED <<published, restatements>>

\* No publication is in force.
Withdraw ==
  /\ current' \in NoCurrent
  /\ UNCHANGED <<published, restatements>>

RecordRestatement(rid, run) ==
  /\ restatements[rid] = {}
  /\ restatements' = [restatements EXCEPT ![rid] =
       {[prior |-> published[PriorRun], new |-> published[run]]}]
  /\ UNCHANGED <<published, current>>

Next ==
  \/ \E run \in Runs : Publish(run) \/ Promote(run)
  \/ Withdraw
  \/ \E rid \in RestatementIds, run \in Runs : RecordRestatement(rid, run)

Spec == Init /\ [][Next]_ledgerVars
=============================================================================

------------------------------ MODULE Workflow ------------------------------
(***************************************************************************)
(* The state a turn is judged by (WorkflowState of aether-core), as the    *)
(* operators that its methods are.                                         *)
(*                                                                         *)
(* A workflow w is a record with                                           *)
(*   relevant     the files found to be relevant                           *)
(*   inspected    whether some file was ever inspected                     *)
(*   revision     the number of mutations observed                         *)
(*   verification NotRequired, Pending, Passed or Failed                   *)
(*   steps        the verification steps, oldest first                     *)
(*   checks       the ledger's verifications of the current revision       *)
(*   failures     the keys of the unresolved failures, each of which is a  *)
(*                blocker of the ledger too                                *)
(*                                                                         *)
(* The phase, the director, the recovery state, the decision state and the *)
(* counters only choose what is shown, offered or recommended to the       *)
(* model. The task is a simple one, the same in every turn: it has an      *)
(* objective, no subgoals and no acceptance criteria.                      *)
(***************************************************************************)
EXTENDS Naturals, Sequences, SequencesExt

CONSTANT MaxVerifications  \* MAX_WORKFLOW_VERIFICATIONS

ASSUME MaxVerificationsAssumption == MaxVerifications \in Nat \ {0}

FreshWorkflow ==
    [relevant |-> {}, inspected |-> FALSE, revision |-> 0, verification |-> "NotRequired",
     steps |-> <<>>, checks |-> {}, failures |-> {}]

Step(c, r, s) == [command |-> c, revision |-> r, status |-> s]

RecordRelevant(w, files) == [w EXCEPT !.relevant = @ \cup files]

RecordInspection(w) == [w EXCEPT !.inspected = TRUE]

\* Every step is stale, whatever its revision, and none is removed.
MarkStale(steps) == [i \in DOMAIN steps |-> [steps[i] EXCEPT !.status = "Stale"]]

\* The ledger's verifications stay with the revision they were made at.
RecordMutation(w) ==
    [w EXCEPT !.revision = @ + 1, !.steps = MarkStale(@), !.verification = "Pending",
              !.checks = {}]

\* The steps with those of a plan: a command that the current revision already
\* has a step for is skipped, and a new revision has none.
Planned(w, plan) ==
    LET known == {w.steps[i].command : i \in {j \in DOMAIN w.steps : w.steps[j].revision = w.revision}}
        new   == IF known = {} THEN plan ELSE SelectSeq(plan, LAMBDA c : c \notin known)
    IN w.steps \o [i \in DOMAIN new |-> Step(new[i], w.revision, "Pending")]

\* The oldest steps beyond the limit are dropped.
SetVerificationPlan(w, plan) ==
    LET all    == Planned(w, plan)
        excess == IF Len(all) > MaxVerifications THEN Len(all) - MaxVerifications ELSE 0
    IN [w EXCEPT !.steps = SubSeq(all, excess + 1, Len(all))]

\* A bug: whichever command succeeded counts for all that are planned.
AwaitingAny(w, c) ==
    {i \in DOMAIN w.steps : w.steps[i].revision = w.revision /\ w.steps[i].status = "Pending"}

\* The steps a result of command c is recorded in.
Awaiting(w, c) ==
    {i \in DOMAIN w.steps : /\ w.steps[i].revision = w.revision
                            /\ w.steps[i].status = "Pending"
                            /\ w.steps[i].command = c}

RecordVerificationCommand(w, c, passed) ==
    LET steps == [i \in DOMAIN w.steps |->
                     IF i \in Awaiting(w, c)
                       THEN [w.steps[i] EXCEPT !.status = IF passed THEN "Passed" ELSE "Failed"]
                       ELSE w.steps[i]]
        allPassed == \A i \in DOMAIN steps :
                        steps[i].revision = w.revision => steps[i].status = "Passed"
    IN [w EXCEPT !.steps = steps,
                 !.verification = IF allPassed THEN "Passed"
                                  ELSE IF passed THEN "Pending" ELSE "Failed"]

\* A later verification of the same command replaces the earlier one.
RecordWorkVerification(w, c, passed) ==
    [w EXCEPT !.checks = {k \in @ : k.command # c}
                           \cup {[command |-> c, status |-> IF passed THEN "Passed" ELSE "Failed"]}]

\* The verification of a task without a plan.
RecordVerification(w, passed) ==
    RecordWorkVerification([w EXCEPT !.verification = IF passed THEN "Passed" ELSE "Failed"],
                           "unnamed", passed)

RecordFailure(w, key) == [w EXCEPT !.failures = @ \cup {key}]

ClearFailure(w, key) == [w EXCEPT !.failures = @ \ {key}]

\* Includes what ContextEngine does after it: work done is verified again.
ResetForWorkspaceChange(w, modified) ==
    [w EXCEPT !.relevant = {},
              !.verification = IF modified = {} THEN "NotRequired" ELSE "Pending",
              !.steps = MarkStale(@),
              !.checks = {[k EXCEPT !.status = "Stale"] : k \in @}]

VerificationCurrent(w, modified) ==
    /\ \A i \in DOMAIN w.steps : /\ w.steps[i].revision = w.revision
                                 /\ w.steps[i].status = "Passed"
    /\ \A k \in w.checks : k.status = "Passed"
    /\ (modified # {} \/ w.verification \in {"Pending", "Failed"}) => w.verification = "Passed"

CompleteIfReady(w, modified, preserved) ==
    /\ w.relevant # {}
    /\ modified # {} \/ w.inspected
    /\ w.failures = {}
    /\ VerificationCurrent(w, modified)
    /\ preserved

=============================================================================

----------------------------- MODULE WorkLedger -----------------------------
(***************************************************************************)
(* WorkState of aether-core: the ledger of a long task.  It keeps the      *)
(* objective, the acceptance criteria, the work units (subgoals) with      *)
(* their dependencies, the blockers and the verifications.  The user       *)
(* steers the task, the model proposes outlines, tools mutate paths and    *)
(* checks pass or fail, in any order; every list is bounded and drops its  *)
(* oldest entry.                                                           *)
(*                                                                         *)
(* A subgoal's identifier is <<"task">>, <<"path", p>> or <<"model", m>>.  *)
(* Labels, evidence and the mutation trail only are shown to the model.    *)
(***************************************************************************)
EXTENDS Integers, Sequences, SequencesExt, FiniteSets

CONSTANTS
    Prompts,         \* user turns: [objective, markers, breaks, criteria, text]
    Outlines,        \* <aether-work> updates: [subgoals, active]
    WorkPaths,       \* paths that tools mutate
    WorkCommands,    \* checks: [name, words], the words that a criterion may speak of
    BlockerKeys,     \* stable keys of failures
    MaxSubgoals,     \* MAX_WORK_SUBGOALS
    MaxCriteria,     \* MAX_WORK_CRITERIA
    MaxWorkChecks,   \* MAX_WORK_VERIFICATIONS
    MaxBlockers,     \* MAX_WORK_BLOCKERS
    MaxRelations,    \* MAX_WORK_RELATIONS
    MaxLedgerSteps   \* bound: updates of the ledger

ASSUME WorkLedgerAssumption ==
    /\ {MaxSubgoals, MaxCriteria, MaxWorkChecks, MaxBlockers, MaxRelations} \subseteq Nat \ {0}
    /\ IsFiniteSet(WorkPaths) /\ MaxLedgerSteps \in Nat

\* The words of a criterion that a check can answer; a prompt may have any number of criteria.
CriterionWords == {"tests", "verification"}
ASSUME OutlinesAssumption == \A o \in Outlines : o.subgoals \in Seq(ToSet(o.subgoals))
ASSUME PromptsAssumption == \A p \in Prompts : p.criteria \in Seq(SUBSET CriterionWords)

VARIABLES
    work,         \* WorkState
    ledgerSteps,  \* updates so far
    proved        \* history: the checks that passed since the last mutation or change of the task

ledgerVars == <<work, ledgerSteps, proved>>

Root == <<"task">>
NoSubgoal == <<>>
EmptyWork ==
    [mode |-> "simple", objective |-> "", constraints |-> <<>>, criteria |-> <<>>, subgoals |-> <<>>,
     active |-> NoSubgoal, blockers |-> <<>>, checks |-> <<>>, taskRevision |-> 0, fingerprint |-> <<>>,
     revision |-> 0]

Subgoal(id, deps, paths) == [id |-> id, status |-> "pending", deps |-> deps, paths |-> paths]

PushBounded(items, item, limit) ==
    LET all == Append(items, item) IN IF Len(all) > limit THEN Tail(all) ELSE all

Ids(w) == {w.subgoals[i].id : i \in DOMAIN w.subgoals}
Status(w, id) == w.subgoals[CHOOSE i \in DOMAIN w.subgoals : w.subgoals[i].id = id].status

-----------------------------------------------------------------------------
(* Helpers of the ledger.                                                  *)

DependenciesComplete(w, s) == \A d \in s.deps : d \in Ids(w) /\ Status(w, d) = "complete"

\* The first unit that can be worked on becomes the active one.
SelectActiveSubgoal(w) ==
    LET ready == {i \in DOMAIN w.subgoals : /\ w.subgoals[i].status \in {"pending", "active", "stale"}
                                            /\ DependenciesComplete(w, w.subgoals[i])}
        first == CHOOSE i \in ready : \A j \in ready : i <= j
    IN  IF ready = {} THEN [w EXCEPT !.active = NoSubgoal]
        ELSE [w EXCEPT !.active = w.subgoals[first].id, !.subgoals[first].status = "active"]

\* The graph of the dependencies has a set in which every unit waits for another.
DependencyCycle(graph) ==
    \E S \in SUBSET DOMAIN graph : S # {} /\ \A i \in S : graph[i] \cap S # {}

Stale(s) == IF s.status = "complete" THEN [s EXCEPT !.status = "stale"] ELSE s
Outdated(checks) == [i \in DOMAIN checks |-> [checks[i] EXCEPT !.status = "stale"]]
Unsatisfied(criteria) == [i \in DOMAIN criteria |-> [criteria[i] EXCEPT !.satisfied = FALSE]]
MapSubgoals(w, F(_)) == [w EXCEPT !.subgoals = [i \in DOMAIN @ |-> F(@[i])]]

InvalidateTaskCompletion(w) ==
    SelectActiveSubgoal([MapSubgoals(w, Stale) EXCEPT !.criteria = Unsatisfied(@), !.active = NoSubgoal])

\* The acceptance criteria that a prompt spells out, at most MaxCriteria of them.
ExtractCriteria(prompt) ==
    [i \in 1 .. (IF Len(prompt.criteria) < MaxCriteria THEN Len(prompt.criteria) ELSE MaxCriteria) |->
        [mentions |-> prompt.criteria[i], satisfied |-> FALSE]]

\* A criterion and a command are the words of theirs that count.
CriterionSupported(mentions, command) ==
    \/ "tests" \in mentions /\ "test" \in command.words
    \/ "verification" \in mentions /\ command.words \cap {"check", "test", "build", "clippy"} # {}

Satisfied(criteria, command) ==
    [i \in DOMAIN criteria |-> IF CriterionSupported(criteria[i].mentions, command)
                               THEN [criteria[i] EXCEPT !.satisfied = TRUE] ELSE criteria[i]]

ClassifyWorkMode(prompt) == IF prompt.markers # {} \/ prompt.breaks >= 2 THEN "structured" ELSE "simple"
TaskFingerprint(prompt, constraints) == <<prompt.text, constraints>>

-----------------------------------------------------------------------------
(* Updates.                                                                *)

\* apply_task_update: constraints is <<>> or <<the constraints>>.
TaskUpdated(w, prompt, constraints) ==
    LET fresh == w.objective = ""
        mode  == ClassifyWorkMode(prompt)
        w1    == IF fresh THEN [EmptyWork EXCEPT !.mode = mode, !.objective = prompt.objective]
                 ELSE [w EXCEPT !.objective = prompt.objective]
        next  == IF constraints = <<>> THEN w1.constraints
                 ELSE SubSeq(constraints[1], 1, IF Len(constraints[1]) < MaxRelations
                                                THEN Len(constraints[1]) ELSE MaxRelations)
        print == TaskFingerprint(prompt, next)
        changed == fresh \/ w.objective # prompt.objective \/ next # w1.constraints
                     \/ w1.fingerprint # print
        w2    == [w1 EXCEPT !.constraints = next]
        w3    == IF changed THEN InvalidateTaskCompletion([w2 EXCEPT !.taskRevision = @ + 1]) ELSE w2
        w4    == IF mode = "structured" THEN [w3 EXCEPT !.mode = "structured"] ELSE w3
        w5    == IF w4.subgoals = <<>> /\ mode = "structured"
                 THEN [w4 EXCEPT !.subgoals = <<[Subgoal(Root, {}, {}) EXCEPT !.status = "active"]>>,
                                 !.active = Root]
                 ELSE w4
        criteria == ExtractCriteria(prompt)
    IN  [w5 EXCEPT !.fingerprint = print,
                   !.criteria = IF @ = <<>> \/ (changed /\ criteria # <<>>) THEN criteria ELSE @]

\* A mutant: only the proposed units are looked at.
GraphOfProposals(w, outline) ==
    [id \in Ids(w) \cup {p.id : p \in ToSet(outline.subgoals)} |->
        IF \E p \in ToSet(outline.subgoals) : p.id = id
        THEN (CHOOSE p \in ToSet(outline.subgoals) : p.id = id).deps \cap {p.id : p \in ToSet(outline.subgoals)}
        ELSE {}]

\* What the update of a model must satisfy: whole, known, without a cycle, within the bound.
GraphOf(w, outline) ==
    [id \in Ids(w) \cup {p.id : p \in ToSet(outline.subgoals)} |->
        IF \E p \in ToSet(outline.subgoals) : p.id = id
        THEN (CHOOSE p \in ToSet(outline.subgoals) : p.id = id).deps
        ELSE (CHOOSE s \in ToSet(w.subgoals) : s.id = id).deps]

Acceptable(w, outline) ==
    LET proposals == ToSet(outline.subgoals)
        proposed  == {p.id : p \in proposals}
        graph     == GraphOf(w, outline)
    IN  /\ outline.subgoals # <<>> /\ Len(outline.subgoals) <= MaxSubgoals
        /\ Cardinality(proposed) = Len(outline.subgoals)
        /\ \A p \in proposals : /\ p.whole /\ p.deps \subseteq Ids(w) \cup proposed
                                /\ Cardinality(p.deps) <= MaxRelations
        /\ ~DependencyCycle(graph)
        /\ Cardinality(Ids(w) \cup proposed) <= MaxSubgoals
        /\ outline.active # NoSubgoal => outline.active \in Ids(w) \cup proposed

\* A known unit keeps its status, except that a stale one is pending again.
Proposed(units, p) ==
    LET Propose(s) == IF s.id # p.id THEN s
                      ELSE [s EXCEPT !.deps = p.deps, !.paths = p.paths,
                                     !.status = IF @ = "stale" THEN "pending" ELSE @]
    IN  IF \E i \in DOMAIN units : units[i].id = p.id THEN [i \in DOMAIN units |-> Propose(units[i])]
        ELSE Append(units, Subgoal(p.id, p.deps, p.paths))

WithProposals(units, proposals) ==
    LET after[n \in 0 .. Len(proposals)] == IF n = 0 THEN units ELSE Proposed(after[n - 1], proposals[n])
    IN  after[Len(proposals)]

ModelUpdated(w, outline) ==
    LET w1 == [w EXCEPT !.subgoals = WithProposals(@, outline.subgoals), !.mode = "structured"]
    IN  IF outline.active # NoSubgoal THEN [w1 EXCEPT !.active = outline.active]
        ELSE SelectActiveSubgoal(w1)

EnsurePathSubgoal(units, path) ==
    LET id == <<"path", path>>
        Renew(s) == IF s.id # id THEN s
                    ELSE [s EXCEPT !.paths = @ \cup {path},
                                   !.status = IF @ = "stale" THEN "pending" ELSE @]
    IN  IF \E i \in DOMAIN units : units[i].id = id THEN [i \in DOMAIN units |-> Renew(units[i])]
        ELSE PushBounded(units, Subgoal(id, {}, {path}), MaxSubgoals)

PathsEnsured(units, paths) ==
    LET after[n \in 0 .. Len(paths)] == IF n = 0 THEN units ELSE EnsurePathSubgoal(after[n - 1], paths[n])
    IN  after[Len(paths)]

\* Only a structured task has a unit for every path that it changes.
WithPaths(w, paths) == IF w.mode = "structured" THEN PathsEnsured(w.subgoals, paths) ELSE w.subgoals

\* A mutant: the criteria keep what an older state of the workspace earned.
MutationRecordedLightly(w, paths) ==
    SelectActiveSubgoal([w EXCEPT !.revision = @ + 1, !.subgoals = WithPaths(w, paths), !.checks = Outdated(@)])

MutationRecorded(w, paths) ==
    SelectActiveSubgoal([w EXCEPT !.revision = @ + 1, !.criteria = Unsatisfied(@),
                                  !.subgoals = WithPaths(w, paths), !.checks = Outdated(@)])

WithCheck(w, command, passed) ==
    LET check == [command |-> command.name, revision |-> w.revision,
                  status |-> IF passed THEN "passed" ELSE "failed"]
        same == {i \in DOMAIN w.checks : w.checks[i].command = command.name /\ w.checks[i].revision = w.revision}
    IN  IF same # {} THEN [w EXCEPT !.checks[CHOOSE i \in same : \A j \in same : i <= j] = check]
        ELSE [w EXCEPT !.checks = PushBounded(@, check, MaxWorkChecks)]

\* A passing check satisfies the criteria it speaks of and completes the units whose paths it covers.
VerificationRecorded(w, command, passed, affected) ==
    LET w1 == WithCheck(w, command, passed)
        Covered(s) == s.paths # {} /\ s.paths \subseteq affected /\ DependenciesComplete(w1, s)
        Close(s) == IF Covered(s) THEN [s EXCEPT !.status = "complete"] ELSE s
        w2 == [MapSubgoals(w1, Close) EXCEPT !.criteria = Satisfied(@, command)]
        done == /\ \A s \in ToSet(w2.subgoals) : s.paths # {} => s.status = "complete"
                /\ w2.blockers = <<>>
        CloseRoot(s) == IF done /\ s.id = Root THEN [s EXCEPT !.status = "complete"] ELSE s
    IN  IF passed THEN SelectActiveSubgoal(MapSubgoals(w2, CloseRoot)) ELSE w1

BlockerRecorded(w, key) ==
    LET Block(s) == IF s.id = w.active THEN [s EXCEPT !.status = "blocked"] ELSE s
    IN  IF \E i \in DOMAIN w.blockers : w.blockers[i] = key THEN w
        ELSE MapSubgoals([w EXCEPT !.blockers = PushBounded(@, key, MaxBlockers)], Block)

Remaining(blockers, key) == SelectSeq(blockers, LAMBDA b : b # key)

BlockerCleared(w, key) ==
    LET Unblock(s) == IF s.status = "blocked" THEN [s EXCEPT !.status = "active"] ELSE s
    IN  SelectActiveSubgoal(MapSubgoals([w EXCEPT !.blockers = Remaining(@, key)], Unblock))

WorkspaceInvalidated(w) ==
    SelectActiveSubgoal([MapSubgoals(w, Stale) EXCEPT
        !.active = NoSubgoal, !.checks = Outdated(@)])

-----------------------------------------------------------------------------
(* Actions: what the workflow state does to the ledger.                    *)

Ledger(w) == work' = w /\ ledgerSteps < MaxLedgerSteps /\ ledgerSteps' = ledgerSteps + 1

ApplyTaskUpdate ==
    \E prompt \in Prompts, constraints \in {<<>>, <<<<>>>>, <<<<"c">>>>} :
        /\ Ledger(TaskUpdated(work, prompt, constraints))
        /\ proved' = IF work'.taskRevision # work.taskRevision THEN {} ELSE proved

ApplyModelUpdate ==
    \E outline \in Outlines :
        /\ Ledger(IF Acceptable(work, outline) THEN ModelUpdated(work, outline) ELSE work)
        /\ UNCHANGED proved

RecordLedgerMutation ==
    \E paths \in {<<p>> : p \in WorkPaths} \cup {SetToSeq(WorkPaths)} :
        /\ work.objective # ""
        /\ Ledger(MutationRecorded(work, paths))
        /\ proved' = {}

RecordLedgerVerification ==
    \E command \in WorkCommands, passed \in BOOLEAN, affected \in SUBSET WorkPaths :
        /\ work.objective # ""
        /\ Ledger(VerificationRecorded(work, command, passed, affected))
        /\ proved' = IF passed THEN proved \cup {command} ELSE proved

RecordBlocker ==
    \E key \in BlockerKeys :
        /\ work.objective # "" /\ Ledger(BlockerRecorded(work, key)) /\ UNCHANGED proved

ClearBlocker ==
    \E key \in BlockerKeys :
        /\ work.objective # "" /\ Ledger(BlockerCleared(work, key)) /\ UNCHANGED proved

InvalidateForWorkspaceChange ==
    /\ work.objective # "" /\ Ledger(WorkspaceInvalidated(work)) /\ UNCHANGED proved

-----------------------------------------------------------------------------
LedgerInit == work = EmptyWork /\ ledgerSteps = 0 /\ proved = {}

LedgerNext ==
    \/ ApplyTaskUpdate \/ ApplyModelUpdate \/ RecordLedgerMutation \/ RecordLedgerVerification
    \/ RecordBlocker \/ ClearBlocker \/ InvalidateForWorkspaceChange

LedgerSpec == LedgerInit /\ [][LedgerNext]_ledgerVars

-----------------------------------------------------------------------------
(* Properties.                                                             *)

\* No order of outlines, each of which redefines some units and leaves others, makes units wait for
\* each other: apply_model_update looks at the units that stay as well as at the proposed ones.
OutlineStaysAcyclic ==
    ~DependencyCycle([id \in Ids(work) |-> (CHOOSE s \in ToSet(work.subgoals) : s.id = id).deps])

\* An acceptance criterion is satisfied only by a check that passed after the last mutation and
\* after the last change of the task (record_mutation, invalidate_task_completion).
SatisfiedWasChecked ==
    \A i \in DOMAIN work.criteria : work.criteria[i].satisfied =>
        \E command \in proved : CriterionSupported(work.criteria[i].mentions, command)

-----------------------------------------------------------------------------
(* The invariant.                                                          *)

Criteria == [mentions : SUBSET CriterionWords, satisfied : BOOLEAN]
WorkChecks ==
    [command : {c.name : c \in WorkCommands}, revision : Nat, status : {"passed", "failed", "stale"}]

\* The fields that an update of the outline leaves alone; the lists in it are within their bounds.
WorkOK(w) ==
    /\ DOMAIN w = DOMAIN EmptyWork
    /\ w.criteria \in Seq(Criteria) /\ Len(w.criteria) <= MaxCriteria
    /\ w.checks \in Seq(WorkChecks) /\ Len(w.checks) <= MaxWorkChecks
    /\ w.revision \in Nat /\ w.taskRevision \in Nat

\* Units are told apart by their ids, and no set of them waits for itself.
Circular(units) ==
    \E S \in SUBSET {units[i].id : i \in DOMAIN units} :
        S # {} /\ \A i \in DOMAIN units : units[i].id \in S => units[i].deps \cap S # {}

UnitsOK(units) ==
    /\ units \in Seq(ToSet(units))
    /\ \A i \in DOMAIN units : DOMAIN units[i] = DOMAIN Subgoal(Root, {}, {})
    /\ \A i, j \in DOMAIN units : units[i].id = units[j].id => i = j
    /\ ~Circular(units)

LedgerTypeOK == WorkOK(work) /\ ledgerSteps \in Nat /\ proved \subseteq WorkCommands

LedgerInv == LedgerTypeOK /\ SatisfiedWasChecked

OutlineInv == DOMAIN work = DOMAIN EmptyWork /\ UnitsOK(work.subgoals)
=============================================================================

---------------------------- MODULE CodingPolicy ----------------------------
(***************************************************************************)
(* What the runtime advises and offers the model, and what it refuses to   *)
(* repeat: the phase, director and recovery of the workflow, the decision  *)
(* state, the loop guardrails and the coding policy that ties them         *)
(* together (workflow.rs, decision.rs, guardrails.rs, policy.rs).          *)
(*                                                                         *)
(* The state is one record: the workflow of module Workflow and, beside    *)
(* it, what Workflow leaves out. A step of the model is a batch of calls   *)
(* that are all checked before any of them is executed; their results are  *)
(* folded in order. Paths are numbers, in their alphabetical order; a call *)
(* stands for its fingerprint. A search stands for find too; "git" is its  *)
(* status and diff, which are verifications (its other operations are to   *)
(* the policy as a search that finds nothing). The repository map is a     *)
(* function from paths to the score of their best symbol and of a test     *)
(* related to the task.                                                    *)
(* A recursive function stands for a loop whose result matters.            *)
(***************************************************************************)
EXTENDS Workflow, Lists, Integers, FiniteSets, FiniteSetsExt

CONSTANTS
    PathCount,      \* the number of paths of the workspace
    SymbolMatchScore, \* the score of a path's symbol for the task, 0 if none
    RelatedScore,   \* the score of a path as a test of the task, 0 if none
    TaskNamesTools, \* the task speaks of cargo, test, build or run
    CheckPlan,      \* the commands planned after a mutation
    NoProgressLimit, MaxFailureObservations, MaxObservations,
    MaxEvidence, MaxQuestions, MaxCandidates, MaxSelections, MaxScope, MaxRelevant,
    MinConfidence,  \* MIN_MUTATION_CONFIDENCE
    ToolBatches,    \* the batches of calls a model may answer with
    MaxFolds        \* results folded in all (bound)

PolicyPaths == 1 .. PathCount

PolicyCalls == UNION {Range(b) : b \in ToolBatches}

ASSUME PolicyAssumption ==
    /\ PathCount \in Nat
    /\ SymbolMatchScore \in [PolicyPaths -> Nat] /\ RelatedScore \in [PolicyPaths -> Nat]
    /\ TaskNamesTools \in BOOLEAN
    /\ NoProgressLimit \in 1 .. 255  \* a u8
    /\ {MaxFailureObservations, MaxObservations, MaxEvidence, MaxQuestions, MaxCandidates,
        MaxSelections, MaxScope, MaxRelevant} \subseteq Nat \ {0}
    /\ MaxFolds \in Nat

ASSUME CallsAssumption ==
    /\ \A b \in ToolBatches : Len(b) \in Nat \ {0} /\ DOMAIN b = 1 .. Len(b)
    /\ \A c \in PolicyCalls : c.tool \in {"read", "write", "list", "search", "git", "check"}
    /\ \A c \in PolicyCalls : c.tool \in {"read", "write"} => c.path \in PolicyPaths
    /\ \A c \in PolicyCalls : c.tool \in {"list", "search"} => c.path \in PolicyPaths \cup {0}

VARIABLES
    pst,      \* the policy and the workflow it keeps
    folds,    \* (bound) results folded
    failed,   \* (history) per call, executions that failed since the last
              \* mutation or the start of the turn
    failing,  \* (history) the watched calls that failed or were refused since then
    carried   \* (history) whether a turn went back to discovery on top of changes
              \* that were not verified, for a new task or with no file stale, and
              \* nothing was changed or verified since

policyVars == <<pst, folds, failed, failing, carried>>

FreshDecision ==
    [evidence |-> <<>>, questions |-> <<>>, candidates |-> <<>>, scope |-> <<>>,
     confidence |-> 0, next |-> "DiscoverTarget", target |-> 0, lowValue |-> 0]

FreshGuardrails ==
    [observations |-> <<>>, failures |-> <<>>, last |-> <<>>, noProgress |-> 0]

FreshPolicy ==
    [wf |-> FreshWorkflow, phase |-> "Discover", recovering |-> FALSE, forStale |-> FALSE,
     director |-> "Discover", completed |-> FALSE, order |-> <<>>, progress |-> 0,
     files |-> [p \in PolicyPaths |-> "none"], modified |-> {}, changed |-> FALSE,
     dec |-> FreshDecision, guard |-> FreshGuardrails, key |-> <<>>, stalled |-> 0]

LastOf(q, n) == IF Len(q) > n THEN SubSeq(q, Len(q) - n + 1, Len(q)) ELSE q

-----------------------------------------------------------------------------
(* The decision state (decision.rs).                                       *)

\* Evidence that is already there is only strengthened; new evidence adds to
\* the confidence, and the oldest makes room.
RecordEvidence(d, kind, path, detail, weight, revision) ==
    LET e == [kind |-> kind, path |-> path, detail |-> detail, revision |-> revision]
    IN IF e \in Range(d.evidence) THEN d
       ELSE [d EXCEPT !.evidence = LastOf(Append(@, e), MaxEvidence),
                      !.confidence = Min({@ + Min({weight, 10}), 100})]

RecordQuestion(d, key) ==
    [d EXCEPT !.questions = IF key \in Range(@) THEN @ ELSE LastOf(Append(@, key), MaxQuestions)]

ClearQuestion(d, key) == [d EXCEPT !.questions = SelectSeq(@, LAMBDA q : q # key)]

\* The members of a set by score, equal ones by path: each is the foremost of
\* what the ones before it leave.
Ahead(a, b) == a.score > b.score \/ (a.score = b.score /\ a.path < b.path)

Foremost(S) == CHOOSE a \in S : \A b \in S : ~Ahead(b, a)

Ranked(S) ==
    LET rest[i \in 0 .. Cardinality(S)] ==
            IF i = 0 THEN S ELSE LET left == rest[i - 1] IN left \ {Foremost(left)}
    IN  [i \in 1 .. Cardinality(S) |-> Foremost(rest[i - 1])]

SortCandidates(cands) == Oldest(Ranked(cands), MaxCandidates)

UpsertCandidate(cands, path, score, inspected, stale) ==
    LET known == {c \in Range(cands) : c.path = path}
        old   == CHOOSE c \in known : TRUE
        new   == [path |-> path, score |-> score, inspected |-> inspected, stale |-> stale]
    IN IF known = {} THEN SortCandidates(Range(cands) \cup {new})
       ELSE SortCandidates((Range(cands) \ {old})
              \cup {[new EXCEPT !.score = IF old.score > score THEN old.score ELSE score,
                                !.inspected = inspected \/ old.inspected]})

RecordModifiedScope(d, path) ==
    [d EXCEPT !.scope = IF path \in Range(@) THEN @ ELSE LastOf(Append(@, path), MaxScope)]

NoteObservationValue(d, advanced) ==
    IF advanced THEN [d EXCEPT !.lowValue = 0, !.confidence = Min({@ + 2, 100})]
    ELSE [d EXCEPT !.lowValue = @ + 1]

-----------------------------------------------------------------------------
(* The workflow's phase, director and recovery (workflow.rs).              *)

\* modified and stale are what the caller passes, not what the state holds.
SyncDirector(s, modified, stale) ==
    [s EXCEPT !.director =
        CASE s.recovering \/ s.wf.failures # {}           -> "Recover"
          [] s.completed /\ s.phase = "Complete"
             /\ ~(s.recovering \/ s.wf.failures # {})     -> "Done"
          [] OTHER ->
             IF stale THEN "Recover"
             ELSE IF s.wf.verification \in {"Pending", "Failed"} THEN "Verify"
             ELSE IF s.phase = "Verify" /\ modified # {} THEN "Review"
             ELSE IF s.phase = "Modify" THEN "Implement"
             ELSE IF s.order = <<>> THEN "Discover" ELSE "Understand"]

PhaseWhenIncomplete(s) ==
    IF s.wf.verification \in {"Pending", "Failed"} THEN "Verify"
    ELSE IF s.order = <<>> THEN "Discover" ELSE "Inspect"

NoteRelevantFile(s, p) ==
    IF p \in Range(s.order) THEN s
    ELSE SyncDirector(
           [s EXCEPT !.order = LastOf(Append(@, p), MaxRelevant),
                     !.wf = RecordRelevant(@, {p}), !.progress = @ + 1,
                     !.dec = RecordEvidence(@, "discovery", p, <<"relevant">>, 24, s.wf.revision),
                     !.phase = IF @ \in {"Discover", "Complete"} THEN "Inspect" ELSE @],
           {}, FALSE)

\* What a listing or a search of the workspace reports, if anything.
NoteRelevantFiles(s, hits) ==
    LET after[n \in 0 .. PathCount] ==
            IF n = 0 THEN s
            ELSE IF n \in hits THEN NoteRelevantFile(after[n - 1], n) ELSE after[n - 1]
    IN  after[PathCount]

NoteInspection(s) ==
    SyncDirector(
      [s EXCEPT !.wf = RecordInspection(@), !.progress = @ + 1,
                !.dec = RecordEvidence(@, "inspection", 0, <<"targeted">>, 36, s.wf.revision),
                !.phase = IF @ = "Verify" THEN @ ELSE "Inspect"],
      {}, FALSE)

BeginModification(s) ==
    SyncDirector([s EXCEPT !.phase = IF @ = "Verify" THEN @ ELSE "Modify"], {}, FALSE)

NoteMutation(s, p) ==
    SyncDirector(
      [s EXCEPT !.progress = @ + 1, !.wf = RecordMutation(@), !.phase = "Verify",
                !.completed = FALSE, !.dec.confidence = Min({@, 80})],
      {p}, FALSE)

\* A failure is a question and the start of a recovery.
NoteFailure(s, key, forStale) ==
    LET t == [s EXCEPT !.wf = RecordFailure(@, key), !.dec = RecordQuestion(@, <<"failure", key>>),
                       !.recovering = TRUE, !.forStale = forStale]
    IN SyncDirector([t EXCEPT !.phase = IF @ = "Complete" THEN PhaseWhenIncomplete(t) ELSE @], {}, FALSE)

ForgetFailure(s, key) ==
    LET wf == ClearFailure(s.wf, key)
    IN SyncDirector([s EXCEPT !.wf = wf, !.dec = ClearQuestion(@, <<"failure", key>>),
                              !.recovering = @ /\ wf.failures # {}], {}, FALSE)

\* clear_recovery: failures may go on being unresolved.
EndRecovery(s) ==
    LET t == [s EXCEPT !.recovering = FALSE]
    IN IF t.wf.failures = {} THEN SyncDirector(t, {}, FALSE) ELSE t

ResetForDrift(s) ==
    LET t == [s EXCEPT !.wf = ResetForWorkspaceChange(@, s.modified), !.phase = "Discover",
                       !.order = <<>>, !.dec = FreshDecision,
                       !.recovering = TRUE, !.forStale = TRUE]
    IN SyncDirector(t, {}, TRUE)

NoteVerification(s, command, passed) ==
    LET planned == Awaiting(s.wf, command) # {}
        wf      == IF planned THEN RecordVerificationCommand(s.wf, command, passed)
                   ELSE IF s.wf.steps = <<>> THEN RecordVerification(s.wf, passed)
                   ELSE s.wf
        counted == planned \/ s.wf.steps = <<>>
    IN SyncDirector([s EXCEPT !.wf = RecordWorkVerification(wf, command, passed),
                              !.phase = IF counted THEN "Verify" ELSE @,
                              !.progress = IF counted /\ wf.verification = "Passed" THEN @ + 1 ELSE @],
                    s.modified, FALSE)

-----------------------------------------------------------------------------
(* One result folded into the workflow (ContextEngine).                    *)

CallKey(call) == <<call.tool, call.path>>

\* A verification: a check of the shell, or git's status or diff.
Verifies(call) == call.tool \in {"check", "git"}

AnyStale(s) == \E p \in PolicyPaths : s.files[p] = "stale"

\* A verification, or a second look at what was modified.
IsFocused(s, call) ==
    /\ s.wf.verification \in {"Pending", "Failed"}
    /\ Verifies(call) \/ (call.tool = "read" /\ call.path \in s.modified)

\* A read whose data is too large for a result reports no file.
ObserveEffects(s, call, r) ==
    IF ~r.ok THEN s
    ELSE CASE call.tool \in {"list", "search"} -> NoteRelevantFiles(s, r.hits)
           [] call.tool = "read" /\ r.hits # {} ->
                NoteRelevantFile([s EXCEPT !.files[call.path] = "fresh"], call.path)
           [] call.tool = "write" -> NoteRelevantFile([s EXCEPT !.files[call.path] = "fresh",
                                                                !.modified = @ \cup {call.path}], call.path)
           [] OTHER               -> s

\* A failure begins a recovery; a success ends that of the call's failure.
SettleFailure(s, call, r, keyed) ==
    IF ~r.ok THEN NoteFailure(s, CallKey(call), r.code = "insufficient_evidence")
    ELSE IF keyed THEN ForgetFailure(s, CallKey(call)) ELSE s

\* A mutation is to be verified according to a new plan.
ObserveMutation(s, call, r) ==
    LET t == NoteInspection(NoteMutation(s, call.path))
    IN IF r.ok /\ call.tool = "write" THEN [t EXCEPT !.wf = SetVerificationPlan(t.wf, CheckPlan)] ELSE s

ObserveVerification(s, call, r) ==
    LET passed == r.ok /\ (IF Verifies(call) THEN r.success ELSE r.hits # {})
        t      == NoteVerification(s, IF call.tool = "check" THEN call.command ELSE call.tool, passed)
    IN IF passed THEN ForgetFailure(t, CallKey(call)) ELSE NoteFailure(t, CallKey(call), FALSE)

\* With nothing stale any look at the workspace that succeeds, whatever it
\* reports, is taken to have settled a change.
SettleChange(s, call, r) ==
    LET t == [s EXCEPT !.changed = FALSE]
    IN IF ~r.ok \/ call.tool = "check" \/ AnyStale(s) THEN s
       ELSE IF s.forStale THEN EndRecovery(t) ELSE t

ObserveCall(s, call, r) ==
    LET focused  == IsFocused(s, call)
        keyed    == focused \/ Verifies(call) \/ ~r.ok \/ s.wf.failures # {}
        begun    == IF call.tool = "write" THEN BeginModification(s) ELSE s
        settled  == SettleFailure(ObserveEffects(begun, call, r), call, r, keyed)
        mutated  == ObserveMutation(settled, call, r)
        verified == IF focused THEN ObserveVerification(mutated, call, r) ELSE mutated
        seen     == IF call.tool = "read" /\ r.ok /\ r.hits # {} THEN NoteInspection(verified) ELSE verified
    IN SettleChange(seen, call, r)

-----------------------------------------------------------------------------
(* The loop guardrails (guardrails.rs).                                    *)

\* Reads and verifications are watched, mutations are not.
Watched(call) == call.tool # "write"

\* The circuit that ends the repetition of a failing call. A success that is
\* remembered is never given instead of an execution.
PreflightFailure(g, call, revision) ==
    \E i \in DOMAIN g.failures :
       /\ g.failures[i].call = call /\ g.failures[i].revision = revision
       /\ g.failures[i].attempts >= NoProgressLimit

\* A failure that was not met at this revision; the oldest one makes room.
CountFailureAnew(g, call, revision) ==
    [g EXCEPT !.failures = LastOf(Append(@, [call |-> call, revision |-> revision, attempts |-> 1]),
                                  MaxFailureObservations)]

CountFailure(g, call, revision) ==
    LET known == {i \in DOMAIN g.failures : g.failures[i].call = call /\ g.failures[i].revision = revision}
    IN IF known # {} THEN [g EXCEPT !.failures[Min(known)].attempts = Min({@ + 1, 255})]
       ELSE CountFailureAnew(g, call, revision)

RememberSuccess(g, call, revision) ==
    LET o == [call |-> call, revision |-> revision]
    IN [g EXCEPT !.observations = IF o \in Range(@) THEN @ ELSE LastOf(Append(@, o), MaxObservations)]

\* What the two states of a result are compared by.
WorkflowObservation(s) ==
    [revision |-> s.wf.revision, progress |-> s.progress, failures |-> s.wf.failures,
     phase |-> s.phase, candidates |-> s.dec.candidates]

GuardrailsObserve(g, call, r, before, after) ==
    LET counted  == IF ~Watched(call) THEN g
                    ELSE IF r.ok THEN RememberSuccess(g, call, after.revision)
                    ELSE CountFailure(g, call, after.revision)
        print    == <<after.revision, after.progress, call>>
        advanced == \/ before.revision # after.revision \/ before.progress # after.progress
                    \/ before.failures # after.failures \/ before.phase # after.phase
        idle     == IF advanced \/ g.last # print THEN 0 ELSE g.noProgress + 1
    IN IF ~r.ok
         THEN IF Watched(call) /\ PreflightFailure(counted, call, after.revision) THEN counted
              ELSE [counted EXCEPT !.noProgress = @ + 1]
         ELSE [counted EXCEPT !.last = print, !.noProgress = IF idle >= NoProgressLimit THEN 0 ELSE idle]

-----------------------------------------------------------------------------
(* The policy (policy.rs).                                                 *)

\* A mutation needs evidence that is current.
MutationPreflight(s, call) ==
    call.tool = "write" => call.path \in Range(s.order) /\ s.files[call.path] = "fresh"

\* Whether a call may be answered from the retained excerpts.
CachedRead(s, call) == call.tool = "read" /\ ~s.changed /\ s.files[call.path] = "fresh"

PolicyRefusal(code) ==
    [executed |-> FALSE, ok |-> FALSE, success |-> FALSE, retry |-> FALSE, hits |-> {}, code |-> code]
PolicyReuse(call) ==
    [executed |-> FALSE, ok |-> TRUE, success |-> TRUE, retry |-> FALSE, hits |-> {call.path}, code |-> "none"]

\* The files the data of a result may report; path 0 is the whole workspace.
Reports(call) ==
    CASE call.tool \in {"list", "search"} -> SUBSET IF call.path = 0 THEN PolicyPaths ELSE {call.path}
      [] call.tool = "read"               -> {{}, {call.path}}
      [] OTHER                            -> {{}}

\* What a call may come to: an answer of the policy, or any execution. Whether a
\* failure may be retried makes no difference for a verification.
PolicyAnswers(s, call) ==
    LET run == {[executed |-> TRUE, ok |-> TRUE, success |-> b, retry |-> FALSE, hits |-> h, code |-> "none"] :
                   b \in IF Verifies(call) THEN BOOLEAN ELSE {TRUE}, h \in Reports(call)}
               \cup {[executed |-> TRUE, ok |-> FALSE, success |-> FALSE, retry |-> b, hits |-> {},
                       code |-> "failed"] : b \in IF Verifies(call) THEN {FALSE} ELSE BOOLEAN}
    IN (IF CachedRead(s, call) THEN {PolicyReuse(call)} ELSE {})
       \cup (IF Watched(call) /\ PreflightFailure(s.guard, call, s.wf.revision)
               THEN {PolicyRefusal("repeated_failure")}
             ELSE IF ~MutationPreflight(s, call) THEN {PolicyRefusal("insufficient_evidence")}
             ELSE run)

\* The paths a result is evidence for: those it reports or, if none, that of the
\* call, which may be the whole workspace. The entries of a list are not read.
ResultPaths(call, r) ==
    CASE call.tool \in {"read", "write"}         -> {call.path}
      [] call.tool = "search" /\ r.hits # {}     -> r.hits
      [] call.tool \in {"list", "search"}         -> {call.path}
      [] OTHER                                   -> {0}

EvidenceKind(call) ==
    [read |-> "inspection", write |-> "mutation", check |-> "verification", git |-> "verification",
     list |-> "discovery", search |-> "discovery"][call.tool]

RecordToolEvidence(s, call, r) ==
    LET detail == IF r.executed THEN <<call.tool, "completed">> ELSE <<call.tool, "reused">>
        note(d, p) == RecordEvidence(d, EvidenceKind(call), p, detail, IF p = 0 THEN 20 ELSE 24, s.wf.revision)
        noted == FoldLeft(note, s.dec, SetToSortSeq(ResultPaths(call, r), <))
        dec   == [s.dec EXCEPT !.evidence = noted.evidence, !.confidence = noted.confidence]
    IN IF ~r.ok THEN s
       ELSE IF call.tool # "write" THEN [s EXCEPT !.dec = dec]
       ELSE [s EXCEPT !.dec = [dec EXCEPT !.scope =
                FoldLeft(RecordModifiedScope, s.dec, SetToSortSeq(s.modified, <)).scope]]

\* The paths the candidates are chosen from: relevant, modified and inspected.
TaskPaths(s) ==
    LET others == (s.modified \cup {p \in PolicyPaths : s.files[p] # "none"}) \ Range(s.order)
    IN  s.order \o Sift([p \in PolicyPaths |-> p], others)

\* Files, their symbols and the tests related to the task.
TargetedSelections(paths) ==
    LET files == {[path |-> p, score |-> Max({32, RelatedScore[p]}), symbol |-> RelatedScore[p] > 0,
                   kind |-> "symbol"] : p \in paths}
        syms  == {[path |-> p, score |-> SymbolMatchScore[p], symbol |-> TRUE, kind |-> "symbol"] :
                     p \in {q \in paths : SymbolMatchScore[q] > 0}}
        tests == {[path |-> p, score |-> RelatedScore[p], symbol |-> TRUE, kind |-> "relationship"] :
                     p \in {q \in PolicyPaths \ paths : paths # {} /\ RelatedScore[q] > 0}}
    IN Oldest(Ranked(files \cup syms \cup tests), MaxSelections)

\* With nothing relevant yet the map is asked for the whole workspace.
MapSelections(s) ==
    IF TaskPaths(s) = <<>> THEN TargetedSelections({p \in PolicyPaths : SymbolMatchScore[p] > 0})
    ELSE TargetedSelections(Range(TaskPaths(s)))

Rank(action, score, target) == [action |-> action, score |-> score, target |-> target]

\* The actions worth recommending, each with its score.
RankNextActions(s) ==
    LET steps   == SelectSeq(s.wf.steps, LAMBDA t : t.revision = s.wf.revision)
        open    == {i \in DOMAIN steps : steps[i].status \in {"Pending", "Failed"}}
        cands   == s.dec.candidates
        unseen  == {i \in DOMAIN cands : ~cands[i].inspected \/ cands[i].stale}
        first   == IF cands = <<>> THEN 0 ELSE cands[1].path
        recover == IF s.director = "Recover" THEN {Rank("Escalate", 102, 0)} ELSE {}
        low     == IF s.dec.lowValue >= 3 THEN {Rank("Escalate", 98, 0)} ELSE {}
        verify  == IF s.wf.verification \notin {"Pending", "Failed"} THEN {}
                   ELSE IF open = {} THEN {Rank("VerifyBroader", 76, 0)}
                   ELSE IF Min(open) = 1 THEN {Rank("VerifyFocused", 96, 0)}
                   ELSE {Rank("VerifyBroader", 82, 0)}
        inspect == IF unseen = {} THEN {} ELSE {Rank("InspectCandidate", 90, cands[Min(unseen)].path)}
        ask     == IF s.dec.questions = <<>> THEN {} ELSE {Rank("ResolveQuestion", 88, 0)}
        mutate  == IF s.dec.confidence < MinConfidence THEN {Rank("DiscoverTarget", 84, first)}
                   ELSE IF s.phase = "Inspect" /\ s.modified = {} THEN {Rank("MutateMinimal", 74, first)}
                   ELSE {}
        all     == recover \cup low \cup verify \cup inspect \cup ask \cup mutate
    IN IF s.phase = "Complete" /\ s.wf.failures = {} THEN {Rank("Finish", 100, 0)}
       ELSE IF all = {} THEN {Rank("DiscoverTarget", 60, 0)} ELSE all

\* The scores of different actions differ.
UpdateNextAction(s) ==
    LET ranked == RankNextActions(s)
        best   == CHOOSE a \in ranked : \A b \in ranked : b.score <= a.score
    IN [s EXCEPT !.dec = [s.dec EXCEPT !.next = best.action, !.target = best.target]]

CandidateKey(s) == <<s.wf.revision, TaskPaths(s)>>

UpsertSelections(cands, files, selections) ==
    LET after[i \in 0 .. Len(selections)] ==
            IF i = 0 THEN cands
            ELSE LET c == selections[i]
                 IN  UpsertCandidate(after[i - 1], c.path, c.score, files[c.path] = "fresh", files[c.path] = "stale")
    IN  after[Len(selections)]

\* The candidates are chosen again only when what they are chosen from, or the
\* revision, has changed.
RefreshCandidates(s) ==
    LET note(d, c) == IF ~c.symbol THEN d
                      ELSE RecordEvidence(d, c.kind, c.path, <<"symbol">>, Min({c.score, 96}), s.wf.revision)
        found == MapSelections(s)
        noted == FoldLeft(note, s.dec, found)
        cands == UpsertSelections(s.dec.candidates, s.files, found)
        asked == IF cands = <<>> THEN RecordQuestion(s.dec, <<"target">>) ELSE ClearQuestion(s.dec, <<"target">>)
        dec   == [s.dec EXCEPT !.evidence = noted.evidence, !.confidence = noted.confidence,
                               !.candidates = cands, !.questions = asked.questions]
    IN IF s.key = CandidateKey(s) THEN s
       ELSE UpdateNextAction([s EXCEPT !.key = CandidateKey(s), !.dec = dec])

\* Whether a result is progress of the turn.
MeaningfulProgress(call, r) == r.executed /\ (r.ok \/ r.retry \/ Verifies(call))

Advise(s) ==
    IF s.dec.lowValue >= 3 THEN [s EXCEPT !.dec = [s.dec EXCEPT !.next = "Escalate", !.target = 0]]
    ELSE UpdateNextAction(s)

\* What the guardrails and the advice make of a result that was observed.
Guarded(s, t, call, r) ==
    LET before == WorkflowObservation(s)
        after  == WorkflowObservation(t)
    IN Advise([t EXCEPT !.guard = GuardrailsObserve(t.guard, call, r, before, after),
                        !.stalled = IF MeaningfulProgress(call, r) THEN 0 ELSE t.stalled + 1,
                        !.dec = NoteObservationValue(t.dec, before # after /\ r.executed)])

FoldResult(s, call, r) ==
    Guarded(s, RefreshCandidates(RecordToolEvidence(ObserveCall(s, call, r), call, r)), call, r)

\* A bug: recovery is a matter of failures alone.
DetermineActiveToolsByFailure(s) ==
    IF s.wf.failures # {} THEN {"read", "list", "search", "write", "shell", "git"}
    ELSE [Discover |-> {"read", "list", "search", "git"},
          Inspect  |-> {"read", "list", "search", "write"},
          Modify   |-> {"read", "search", "write", "shell"},
          Verify   |-> {"read", "search", "shell", "git"},
          Complete |-> {"read", "shell", "git"}][s.phase]

\* The native tools that are worth offering; find goes with list, patch with
\* write and process with shell.
DetermineActiveTools(s) ==
    LET touched == \E p \in PolicyPaths : s.files[p] # "none"
        byPhase ==
            [Discover |-> {"read", "list", "search", "git"}
                            \cup (IF TaskNamesTools \/ (~touched /\ s.modified = {}) THEN {"shell"} ELSE {}),
             Inspect  |-> {"read", "list", "search"}
                            \cup (IF touched \/ s.modified # {} THEN {"write"} ELSE {})
                            \cup (IF s.wf.verification = "Pending" THEN {"shell"} ELSE {}),
             Modify   |-> {"read", "search", "write", "shell"},
             Verify   |-> {"read", "search", "shell", "git"},
             Complete |-> {"read", "shell", "git"}][s.phase]
    IN IF s.wf.failures # {} \/ s.recovering \/ s.changed
         THEN {"read", "list", "search", "write", "shell", "git"}
         ELSE byPhase \cup (IF s.modified # {} THEN {"git"} ELSE {})

\* A turn that gets nowhere is offered everything again.
ToolSurface(s) ==
    IF s.stalled >= 2 THEN {"read", "list", "search", "write", "shell", "git"} ELSE DetermineActiveTools(s)

-----------------------------------------------------------------------------
PolicyInit ==
    /\ pst = RefreshCandidates(FreshPolicy) /\ folds = 0
    /\ failed = [c \in PolicyCalls |-> 0] /\ failing = {} /\ carried = FALSE

\* What the histories make of one more result.
FailedWith(s, t, before, call, r) ==
    LET same == t.wf.revision = s.wf.revision
    IN [c \in PolicyCalls |-> (IF same THEN before[c] ELSE 0) + (IF c = call /\ r.executed /\ ~r.ok THEN 1 ELSE 0)]

FailingWith(s, t, before, call, r) ==
    (IF t.wf.revision = s.wf.revision THEN before ELSE {}) \cup (IF Watched(call) /\ ~r.ok THEN {call} ELSE {})

WithHistory(was, now, call, r) ==
    [pst |-> now,
     failed |-> FailedWith(was.pst, now, was.failed, call, r),
     failing |-> FailingWith(was.pst, now, was.failing, call, r)]

WithResult(was, call, r) == WithHistory(was, FoldResult(was.pst, call, r), call, r)

\* The results of a batch are folded one after the other.
Folded(batch, results) ==
    LET after[i \in 0 .. Len(batch)] ==
            IF i = 0 THEN [pst |-> pst, failed |-> failed, failing |-> failing]
            ELSE WithResult(after[i - 1], batch[i], results[i])
    IN  after[Len(batch)]

\* A batch of calls: all are checked against the same state, then executed.
ModelStep ==
    \E batch \in ToolBatches :
       /\ folds + Len(batch) <= MaxFolds
       /\ \E r \in [DOMAIN batch -> UNION {PolicyAnswers(pst, batch[i]) : i \in DOMAIN batch}] :
            /\ \A i \in DOMAIN batch : r[i] \in PolicyAnswers(pst, batch[i])
            /\ \E done \in {Folded(batch, r)} :
                  pst' = done.pst /\ failed' = done.failed /\ failing' = done.failing
       /\ carried' = (carried /\ pst'.phase # "Verify")
       /\ folds' = folds + Len(batch)

\* The workspace is not what it was: some inspected files differ, or its root.
Drifted(s, drift) ==
    ResetForDrift([s EXCEPT !.files = [p \in PolicyPaths |-> IF p \in drift THEN "stale" ELSE @[p]],
                            !.changed = TRUE])

Drifts(s) == SUBSET {p \in PolicyPaths : s.files[p] # "none"}

\* A look at the workspace finds it as it was, or not; one by a process that
\* resumes the session may find its root changed, whether or not a file is.
Looked(s) == {s} \cup {Drifted(s, drift) : drift \in Drifts(s) \ {{}}}

Resumed(s) == {s} \cup {Drifted(s, drift) : drift \in Drifts(s)}

\* The model claims to be done (finish_turn).
Reviewed(s) ==
    IF s.changed \/ AnyStale(s) THEN ResetForDrift(s)
    ELSE IF CompleteIfReady(s.wf, s.modified, TRUE)
           THEN [s EXCEPT !.phase = "Complete", !.completed = TRUE, !.director = "Done"]
    ELSE IF s.phase = "Complete"
           THEN SyncDirector([s EXCEPT !.phase = PhaseWhenIncomplete(s), !.completed = FALSE], s.modified, FALSE)
    ELSE [s EXCEPT !.director = "Review"]

VerificationOpen(s) == s.wf.verification \in {"Pending", "Failed"}

\* Discovery on top of changes that are not verified, while no file is known
\* to have become stale.
Restarted(s) == s.phase = "Discover" /\ VerificationOpen(s) /\ ~AnyStale(s)

ClaimDone ==
    /\ pst' \in {UpdateNextAction(Reviewed(s)) : s \in Looked(pst)}
    /\ carried' = (carried \/ Restarted(pst'))
    /\ UNCHANGED <<folds, failed, failing>>

\* A turn has a policy of its own; the decision state is in the context. A new
\* task begins with discovery, and its recovery is over.
Begun(s, newTask) ==
    SyncDirector([s EXCEPT !.guard = FreshGuardrails, !.key = <<>>, !.stalled = 0,
                           !.phase = IF newTask THEN "Discover" ELSE @,
                           !.completed = @ /\ ~newTask,
                           !.recovering = @ /\ ~newTask], s.modified, FALSE)

\* The next turn, in this process or in one that resumes the session.
NextTurn ==
    /\ \E newTask \in BOOLEAN, s \in Resumed(pst) :
         /\ pst' \in {RefreshCandidates(t) : t \in Looked(Begun(s, newTask))}
         /\ carried' = (carried \/ (newTask /\ VerificationOpen(s)) \/ Restarted(pst'))
    /\ failed' = [c \in PolicyCalls |-> 0] /\ failing' = {}
    /\ UNCHANGED folds

PolicyNext == ModelStep \/ ClaimDone \/ NextTurn

PolicySpec == PolicyInit /\ [][PolicyNext]_policyVars

-----------------------------------------------------------------------------
\* What serves an action that is recommended.
Serves == [DiscoverTarget |-> {"search", "list"}, InspectCandidate |-> {"read"},
           ResolveQuestion |-> {"read", "search"}, MutateMinimal |-> {"write"},
           VerifyFocused |-> {"shell"}, VerifyBroader |-> {"shell"},
           Finish |-> {"read"}, Escalate |-> {"read"}]

\* What the runtime recommends can be done: a tool for it is among those it
\* offers for the same step (rank_next_actions, determine_active_tool_names).
\* Only a turn that goes back to discovery on top of changes that were not
\* verified, because its task is a new one or because the session was resumed
\* in a workspace whose root is not the same though no inspected file differs,
\* is told to verify, or to repeat a check that failed, while it is offered the
\* tools to discover and inspect, until it changes or verifies something.
RecommendedIsOffered ==
    \/ Serves[pst.dec.next] \cap ToolSurface(pst) # {}
    \/ carried /\ VerificationOpen(pst)

\* A read or a check that fails is executed a bounded number of times at one
\* revision, and one batch more, as long as there is room for the failures of
\* that revision: the circuit counts them, and room is made for them from those
\* of older ones first (observe_impl_with_fingerprint, preflight_failure_prepared).
FailuresAreCutOff ==
    Cardinality(failing) <= MaxFailureObservations =>
        \A c \in PolicyCalls : Watched(c) =>
            \E b \in ToolBatches : failed[c] < NoProgressLimit + Len(b)
=============================================================================

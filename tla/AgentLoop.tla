----------------------------- MODULE AgentLoop ------------------------------
(***************************************************************************)
(* The turns of one agent in a workspace that its user edits too.          *)
(*                                                                         *)
(* A turn (agent.rs, run_with_broker) asks the model for one step after    *)
(* the other. A step that calls tools is checked against a snapshot of     *)
(* the context (the gate), executed by the scheduler, and its results are  *)
(* folded into the context one by one; a step that changed the workspace   *)
(* is followed by the verification commands planned for it. A step without *)
(* calls is the model's claim to be done: the runtime looks at the         *)
(* workspace once more and reviews the claim.                              *)
(*                                                                         *)
(* ContextEngine, the coding policy's gate and the Workflow it keeps are   *)
(* operators on one record, the context. A file's content stands for its   *)
(* hash. How the scheduler asks for consent and runs calls side by side is *)
(* the subject of ToolStep; here it is an order on conflicting calls.      *)
(***************************************************************************)
EXTENDS Workflow, FiniteSets

CONSTANTS
    Files,      \* the files of the workspace, all in one directory
    Contents,   \* what a file may contain
    Commands,   \* the verification commands, all of one program
    Committed,  \* the content of each file in the last commit
    PlanFor,    \* the commands plan_verification gives for a set of modified files
    Answers,    \* the sequences of tool calls a model may answer with
    Optimize,   \* request.optimize
    MaxSteps,   \* request.max_steps
    MaxBlocked, \* refused completions that end a turn (3)
    MaxStalled, \* results without progress that end a turn (6)
    MaxTurns,   \* turns of the session (bound)
    MaxEdits    \* edits of the user (bound)

NoFile == 0
Live == Contents \cup {NoFile}

ReadCall   == [tool : {"read"}, file : Files]
WriteCall  == [tool : {"write"}, file : Files, expected : Contents, content : Contents]
CreateCall == [tool : {"create"}, file : Files, content : Contents]
ShellCall  == [tool : {"shell"}, file : Files, content : Live]
CheckCall  == [tool : {"verify", "start"}, command : Commands]
LookCall   == [tool : {"list", "git"}]
Call == ReadCall \cup WriteCall \cup CreateCall \cup ShellCall \cup CheckCall \cup LookCall

ASSUME LoopAssumption ==
    /\ NoFile \notin Contents
    /\ Committed \in [Files -> Live]
    /\ {"git", "read", "unnamed"} \cap Commands = {}
    /\ PlanFor \in [SUBSET Files -> Seq(Commands)]
    /\ \A m \in SUBSET Files : Len(PlanFor[m]) <= MaxVerifications
    /\ Answers \subseteq Seq(Call)
    /\ Optimize \in BOOLEAN
    /\ MaxSteps \in Nat /\ MaxBlocked \in Nat /\ MaxStalled \in Nat
    /\ MaxTurns \in Nat /\ MaxEdits \in Nat

VARIABLES
    fs,       \* the content of each file
    ctx,      \* the context (ContextSnapshot)
    pc,       \* where the turn is
    steps,    \* model steps of this turn
    blocked,  \* completions refused in a row
    stalled,  \* results in a row without progress
    cont,     \* the request carries a continuation
    calls,    \* the calls of this step
    results,  \* their results, as far as they are there
    mutated,  \* a result of this step reported a mutation
    outcome,  \* how the last turn ended
    turns,    \* turns begun
    edits,    \* (bound) edits of the user
    seen,     \* (history) the content of each file whose hash the agent was given last
    wrote,    \* (history) the files the agent has changed, in this turn and in those
              \* before it that were neither completed nor cancelled
    passed,   \* (history) the commands that succeeded since the agent's last change
    owned     \* (history) the files that were the user's when one of these turns began

loopVars    == <<pc, steps, blocked, stalled, cont, calls, results, mutated, outcome, turns>>
historyVars == <<seen, wrote, passed, owned>>
vars == <<fs, ctx, loopVars, edits, historyVars>>

Unseen  == [hash |-> NoFile, stale |-> FALSE, present |-> FALSE]
NotYet  == [tool |-> "none"]
Refusal == [executed |-> FALSE, ok |-> FALSE, success |-> FALSE, retry |-> FALSE,
            hash |-> NoFile, files |-> {}]

Mutates(call)  == call.tool \in {"write", "create", "shell"}
Observes(call) == call.tool \in {"read", "list", "git"}

-----------------------------------------------------------------------------
(* The context.                                                            *)

IsStale(c) == \E f \in Files : c.inspected[f].stale

\* A file whose content a result reports.
Inspect(c, f, h) == [c EXCEPT !.inspected[f] = [hash |-> h, stale |-> FALSE, present |-> TRUE],
                              !.wf = RecordRelevant(@, {f})]

\* Files the runtime itself looks at again, and shows to the agent.
Promote(c, files) ==
    LET there == {f \in files : fs[f] # NoFile}
    IN IF there = {} THEN c
       ELSE [c EXCEPT !.inspected = [f \in Files |-> IF f \in there
                                       THEN [hash |-> fs[f], stale |-> FALSE, present |-> TRUE]
                                       ELSE @[f]],
                      !.wf = RecordInspection(RecordRelevant(@, there))]

\* One inspected file compared with the workspace.
Rehash(e, live) ==
    IF e = Unseen THEN e
    ELSE IF live = NoFile
           THEN IF e.present THEN [e EXCEPT !.stale = TRUE, !.present = FALSE] ELSE e
    ELSE IF e.hash # live THEN [e EXCEPT !.stale = TRUE, !.hash = live]
    ELSE [e EXCEPT !.present = TRUE]

Drifted(c) ==
    {f \in Files : /\ c.inspected[f] # Unseen
                   /\ IF fs[f] = NoFile THEN c.inspected[f].present ELSE c.inspected[f].hash # fs[f]}

RefreshAgainstWorkspace(c) ==
    LET now == [c EXCEPT !.inspected = [f \in Files |-> Rehash(@[f], fs[f])]]
    IN IF Drifted(c) = {} THEN now
       ELSE [now EXCEPT !.changed = TRUE, !.wf = ResetForWorkspaceChange(@, c.modified)]

\* A bug: the user's paths are only those that git reports now.
UserModifiedNow(c, dirty) == [c EXCEPT !.userModified = dirty \ c.modified]

\* The paths that git reports and the agent has not modified are the user's.
RecordUserModified(c, dirty) == [c EXCEPT !.userModified = @ \cup (dirty \ c.modified)]

-----------------------------------------------------------------------------
(* A result folded into the context.                                       *)

\* What identifies a failure: the tool, and the path, program or operation.
FailureKey(call) ==
    CASE call.tool = "read"                -> <<"read", call.file>>
      [] call.tool \in {"write", "create"} -> <<"write", call.file>>
      [] OTHER                             -> <<call.tool>>

\* Decided before the result changes anything.
Focused(c, call) ==
    /\ c.wf.verification \in {"Pending", "Failed"}
    /\ \/ call.tool \in {"verify", "start", "git"}
       \/ call.tool = "read" /\ call.file \in c.modified

\* A background process has no outcome yet: that it was started is enough.
VerificationPassed(call, r) ==
    /\ r.ok
    /\ call.tool \in {"verify", "git"} => r.success

CommandOf(call) == IF call.tool \in {"verify", "start"} THEN call.command ELSE call.tool

ObserveFiles(c, call, r) ==
    CASE call.tool = "read" /\ r.ok   -> Inspect(c, call.file, r.hash)
      [] call.tool \in {"write", "create"} /\ r.ok ->
            [Inspect(c, call.file, r.hash) EXCEPT !.modified = @ \cup {call.file}]
      [] call.tool = "list" /\ r.ok   -> [c EXCEPT !.wf = RecordRelevant(@, r.files)]
      [] call.tool = "git"            -> RecordUserModified(c, r.files)
      [] OTHER                        -> c

\* A command's target is invalidated and then looked at again.
ObserveMutation(c, call) ==
    LET told == IF call.tool # "shell" THEN c
                ELSE [c EXCEPT !.modified = @ \cup {call.file},
                               !.inspected[call.file] = IF @ = Unseen THEN @ ELSE [@ EXCEPT !.stale = TRUE],
                               !.changed = TRUE,
                               !.wf = RecordRelevant(@, {call.file})]
        seenAgain == Promote([told EXCEPT !.wf = RecordMutation(@)], {call.file})
    IN [seenAgain EXCEPT !.wf = SetVerificationPlan(@, PlanFor[seenAgain.modified])]

ObserveVerification(c, call, r) ==
    LET ok      == VerificationPassed(call, r)
        cmd     == CommandOf(call)
        counted == IF Awaiting(c.wf, cmd) # {} THEN RecordVerificationCommand(c.wf, cmd, ok)
                   ELSE IF c.wf.steps = <<>> THEN RecordVerification(c.wf, ok)
                   ELSE c.wf
        noted   == RecordWorkVerification(counted, cmd, ok)
    IN IF ok THEN [c EXCEPT !.wf = ClearFailure(noted, FailureKey(call))]
       ELSE Promote([c EXCEPT !.wf = RecordFailure(RecordRelevant(noted, r.files), FailureKey(call))], r.files)

\* observe_with_effects, in its order.
Observe(c, call, r) ==
    LET found   == ObserveFiles(c, call, r)
        settled == [found EXCEPT !.wf = IF r.ok THEN ClearFailure(@, FailureKey(call))
                                        ELSE RecordFailure(@, FailureKey(call))]
        applied == IF r.ok /\ Mutates(call) THEN ObserveMutation(settled, call) ELSE settled
        checked == IF Focused(c, call) THEN ObserveVerification(applied, call, r) ELSE applied
        read    == IF call.tool = "read" /\ r.ok THEN [checked EXCEPT !.wf = RecordInspection(@)]
                   ELSE checked
        again   == call.tool = "shell" /\ fs[call.file] # NoFile
    IN IF r.ok /\ (Observes(call) \/ call.tool \in {"write", "create"} \/ again) /\ ~IsStale(read)
         THEN [read EXCEPT !.changed = FALSE]
         ELSE read

\* The contents whose hashes the agent is given by a result, or by the
\* runtime's own look at the file.
Shown(call, r) ==
    LET looks == (IF r.ok /\ Mutates(call) THEN {call.file} ELSE {})
                   \cup (IF Focused(ctx, call) /\ ~VerificationPassed(call, r) THEN r.files ELSE {})
    IN [f \in Files |-> IF f \in looks /\ fs[f] # NoFile THEN fs[f]
                        ELSE IF r.ok /\ call.tool \in {"read", "write", "create"} /\ call.file = f
                               THEN r.hash
                        ELSE seen[f]]

-----------------------------------------------------------------------------
(* The gate.                                                               *)

\* A bug: evidence is good for ever.
HasEvidenceOnce(c, f) == f \in c.wf.relevant /\ c.inspected[f].present

HasEvidence(c, f) ==
    /\ f \in c.wf.relevant
    /\ c.inspected[f].present /\ ~c.inspected[f].stale

\* A call is refused for want of evidence, before it is executed.
Admitted(c, call) ==
    CASE call.tool = "write"  -> HasEvidence(c, call.file) /\ c.inspected[call.file].hash = call.expected
      [] call.tool = "create" -> c.wf.relevant # {} /\ call.file \notin c.userModified
      [] call.tool = "shell"  -> HasEvidence(c, call.file) /\ call.file \notin c.userModified
      [] OTHER                -> TRUE

\* A read of evidence that still stands may be answered from the context.
MayReuse(c, call) ==
    /\ Optimize
    /\ call.tool = "read" /\ ~c.changed
    /\ c.inspected[call.file].present /\ ~c.inspected[call.file].stale
    /\ c.inspected[call.file].hash = fs[call.file]

\* What a call may be answered with before anything is executed. The user may
\* deny what needs consent, and an observation that keeps failing is not
\* repeated: any call may be refused.
Preflight(c, call) ==
    IF ~Admitted(c, call) THEN {Refusal}
    ELSE {NotYet, Refusal} \cup
         (IF MayReuse(c, call) THEN {[Refusal EXCEPT !.ok = TRUE, !.hash = fs[call.file]]} ELSE {})

\* The footprints of two calls: native writes are exclusive, a command names
\* its target, and a check only its artifacts and manifests.
Conflicts(a, b) ==
    \/ {a.tool, b.tool} \cap {"write", "create"} # {}
    \/ /\ "shell" \in {a.tool, b.tool}
       /\ {a.tool, b.tool} \subseteq {"shell", "read"}
       /\ a.file = b.file

-----------------------------------------------------------------------------
(* Executing a call.                                                       *)

Failure == [Refusal EXCEPT !.executed = TRUE]
Done    == [Failure EXCEPT !.ok = TRUE]
Outcome(r, files) == [result |-> r, fs |-> files]

Dirty == {f \in Files : fs[f] # Committed[f]}

\* What executing a call may answer and leave behind. A command that ran is
\* ok whatever its exit status, and may have done nothing; a check that fails
\* names the files at fault, if any.
Outcomes(call) ==
    LET failed == {Outcome(Failure, fs)}
        put(v) == [fs EXCEPT ![call.file] = v]
    IN CASE call.tool = "read" ->
              failed \cup IF fs[call.file] = NoFile THEN {}
                          ELSE {Outcome([Done EXCEPT !.hash = fs[call.file]], fs)}
         [] call.tool = "write" ->
              IF fs[call.file] # call.expected THEN {Outcome([Failure EXCEPT !.retry = TRUE], fs)}
              ELSE failed \cup {Outcome([Done EXCEPT !.hash = call.content], put(call.content))}
         [] call.tool = "create" ->
              failed \cup IF fs[call.file] # NoFile THEN {}
                          ELSE {Outcome([Done EXCEPT !.hash = call.content], put(call.content))}
         [] call.tool = "shell" ->
              failed \cup {Outcome(Done, put(v)) : v \in {call.content, fs[call.file]}}
         [] call.tool = "verify" ->
              failed \cup {Outcome([Done EXCEPT !.success = TRUE], fs)}
                     \cup {Outcome([Done EXCEPT !.files = d], fs) : d \in {{}} \cup {{f} : f \in Files}}
         [] call.tool = "start" -> failed \cup {Outcome(Done, fs)}
         [] call.tool = "list"  ->
              failed \cup {Outcome([Done EXCEPT !.files = {f \in Files : fs[f] # NoFile}], fs)}
         [] call.tool = "git"   ->
              failed \cup {Outcome([Done EXCEPT !.success = TRUE, !.files = Dirty], fs)}

\* The effect of an executed call on the workspace and on its history.
Apply(call, o) ==
    /\ fs' = o.fs
    /\ wrote' = IF o.fs # fs THEN wrote \cup {call.file} ELSE wrote
    /\ passed' = IF o.fs # fs THEN {}
                 ELSE IF call.tool = "verify" /\ o.result.success THEN passed \cup {call.command}
                 ELSE passed

\* Whether a result counts as progress of the turn.
Progress(call, r) ==
    r.executed /\ (r.ok \/ r.retry \/ call.tool \in {"verify", "start", "git"})

-----------------------------------------------------------------------------
Init ==
    /\ fs = Committed
    /\ ctx = [inspected |-> [f \in Files |-> Unseen], modified |-> {}, userModified |-> {},
              changed |-> FALSE, wf |-> FreshWorkflow]
    /\ pc = "idle" /\ steps = 0 /\ blocked = 0 /\ stalled = 0
    /\ cont = FALSE /\ calls = <<>> /\ results = <<>> /\ mutated = FALSE
    /\ outcome = "none" /\ turns = 0 /\ edits = 0
    /\ seen = [f \in Files |-> NoFile]
    /\ wrote = {} /\ passed = {} /\ owned = {}

\* The task is set and git is asked which files are not as committed.
StartTurn ==
    /\ pc = "idle" /\ turns < MaxTurns
    /\ turns' = turns + 1 /\ outcome' = "none" /\ pc' = "start"
    /\ cont' \in BOOLEAN
    /\ ctx' = RecordUserModified(ctx, Dirty)
    /\ LET forget == outcome \in {"none", "Completed", "Cancelled"}
       IN /\ wrote' = IF forget THEN {} ELSE wrote
          /\ passed' = IF forget THEN {} ELSE passed
          /\ owned' = (Dirty \ ctx.modified) \cup (IF forget THEN {} ELSE owned)
    /\ UNCHANGED <<fs, steps, blocked, stalled, calls, results, mutated, edits, seen>>

RefreshTurn ==
    /\ pc = "start"
    /\ ctx' = RefreshAgainstWorkspace(ctx) /\ pc' = "top"
    /\ UNCHANGED <<fs, steps, blocked, stalled, cont, calls, results, mutated, outcome, turns,
                   edits, historyVars>>

\* The turn is over; what it has not folded into the context is lost.
EndTurn(how) ==
    /\ pc' = "idle" /\ outcome' = how
    /\ steps' = 0 /\ blocked' = 0 /\ stalled' = 0 /\ cont' = FALSE
    /\ calls' = <<>> /\ results' = <<>> /\ mutated' = FALSE
    /\ UNCHANGED <<fs, turns, edits, historyVars>>

Top ==
    /\ pc = "top"
    /\ \/ /\ steps >= MaxSteps
          /\ EndTurn("StepLimit")
       \/ /\ steps < MaxSteps
          /\ steps' = steps + 1 /\ pc' = "backend"
          /\ UNCHANGED <<fs, blocked, stalled, cont, calls, results, mutated, outcome, turns,
                         edits, historyVars>>
    /\ UNCHANGED ctx

\* A bug: the continuation that was refused is sent again.
InvalidContinuationAgain ==
    /\ pc = "backend" /\ steps = 1 /\ cont
    /\ steps' = steps - 1 /\ pc' = "top"
    /\ UNCHANGED <<fs, ctx, cont, blocked, stalled, calls, results, mutated, outcome, turns, edits,
                   historyVars>>

\* The provider no longer knows the continuation: the step is taken again
\* from the context, once.
InvalidContinuation ==
    /\ pc = "backend" /\ steps = 1 /\ cont
    /\ cont' = FALSE /\ steps' = steps - 1 /\ pc' = "top"
    /\ UNCHANGED <<fs, ctx, blocked, stalled, calls, results, mutated, outcome, turns, edits,
                   historyVars>>

BackendError ==
    /\ pc = "backend"
    /\ EndTurn("Failed")
    /\ UNCHANGED ctx

\* The model's step. Every call of it is checked against the same context.
ModelAnswers ==
    /\ pc = "backend"
    /\ \E answer \in Answers :
          /\ calls' = answer
          /\ IF answer = <<>> THEN results' = <<>> /\ pc' = "refresh" /\ UNCHANGED blocked
             ELSE /\ LET possible == UNION {Preflight(ctx, answer[i]) : i \in DOMAIN answer}
                     IN results' \in {r \in [DOMAIN answer -> possible] :
                                        \A i \in DOMAIN answer : r[i] \in Preflight(ctx, answer[i])}
                  /\ pc' = "run" /\ blocked' = 0
    /\ UNCHANGED <<fs, ctx, steps, stalled, cont, mutated, outcome, turns, edits, historyVars>>

\* A call runs once no earlier one that it conflicts with is still to run.
Execute ==
    /\ pc = "run"
    /\ \E i \in DOMAIN calls :
          /\ results[i] = NotYet
          /\ \A j \in 1..(i - 1) : results[j] = NotYet => ~Conflicts(calls[i], calls[j])
          /\ \E o \in Outcomes(calls[i]) :
                /\ Apply(calls[i], o)
                /\ results' = [results EXCEPT ![i] = o.result]
    /\ UNCHANGED <<ctx, pc, steps, blocked, stalled, cont, calls, mutated, outcome, turns, edits,
                   seen, owned>>

\* A result is folded into the context and counted.
Consume(call, r) ==
    /\ ctx' = Observe(ctx, call, r)
    /\ seen' = Shown(call, r)
    /\ stalled' = IF Progress(call, r) THEN 0 ELSE stalled + 1

\* The results are taken in the order of the calls once all are there.
ConsumeResult ==
    /\ pc \in {"run", "fold"} /\ calls # <<>>
    /\ \A i \in DOMAIN results : results[i] # NotYet
    /\ Consume(Head(calls), Head(results))
    /\ calls' = Tail(calls) /\ results' = Tail(results)
    /\ mutated' = (mutated \/ (Head(results).executed /\ Head(results).ok /\ Mutates(Head(calls))))
    /\ pc' = IF Len(calls) > 1 THEN "fold" ELSE IF Optimize /\ mutated' THEN "auto" ELSE "judge"
    /\ UNCHANGED <<fs, steps, blocked, cont, outcome, turns, edits, wrote, passed, owned>>

\* The planned commands that a step of the current revision waits for; the
\* first of them is next_pending_verification.
PendingChecks ==
    {i \in DOMAIN PlanFor[ctx.modified] : Awaiting(ctx.wf, PlanFor[ctx.modified][i]) # {}}

\* After a step that changed the workspace the planned commands are run, up
\* to the first that is refused or fails.
AutoVerify ==
    /\ pc = "auto"
    /\ \/ /\ PendingChecks = {}
          /\ pc' = "judge"
          /\ UNCHANGED <<fs, ctx, stalled, seen, wrote, passed>>
       \/ \E i \in PendingChecks :
             /\ \A j \in PendingChecks : i <= j
             /\ LET call == [tool |-> "verify", command |-> PlanFor[ctx.modified][i]]
                IN \E o \in Outcomes(call) \cup {Outcome(Refusal, fs)} :
                      /\ Apply(call, o)
                      /\ Consume(call, o.result)
                      /\ pc' = IF o.result.success THEN "auto" ELSE "judge"
    /\ UNCHANGED <<steps, blocked, cont, calls, results, mutated, outcome, turns, edits,
                   owned>>

EndStep ==
    /\ pc = "judge"
    /\ \/ /\ stalled >= MaxStalled
          /\ EndTurn("StepLimit")
       \/ /\ stalled < MaxStalled
          /\ pc' = "top" /\ mutated' = FALSE
          /\ UNCHANGED <<fs, steps, blocked, stalled, cont, calls, results, outcome, turns, edits,
                         historyVars>>
    /\ UNCHANGED ctx

\* The model claims to be done: the inspected files are hashed again ...
RefreshBeforeCompletion ==
    /\ pc = "refresh"
    /\ ctx' = RefreshAgainstWorkspace(ctx)
    /\ pc' = "git"
    /\ UNCHANGED <<fs, steps, blocked, stalled, cont, calls, results, mutated, outcome, turns,
                   edits, seen, wrote, passed, owned>>

\* ... git is asked once more ...
CaptureGit ==
    /\ pc = "git"
    /\ ctx' = RecordUserModified(ctx, Dirty) /\ pc' = "finish"
    /\ UNCHANGED <<fs, steps, blocked, stalled, cont, calls, results, mutated, outcome, turns,
                   edits, historyVars>>

\* ... and the claim is accepted, or refused and explained.
Accepts(c) ==
    /\ ~c.changed /\ ~IsStale(c)
    /\ CompleteIfReady(c.wf, c.modified, c.userModified \cap c.modified = {})

FinishTurn ==
    /\ pc = "finish"
    /\ ctx' = IF ctx.changed \/ IsStale(ctx)
                THEN [ctx EXCEPT !.wf = ResetForWorkspaceChange(@, ctx.modified)] ELSE ctx
    /\ \/ /\ Accepts(ctx)
          /\ EndTurn("Completed")
       \/ /\ ~Accepts(ctx) /\ blocked + 1 >= MaxBlocked
          /\ EndTurn("CompletionBlocked")
       \/ /\ ~Accepts(ctx) /\ blocked + 1 < MaxBlocked
          /\ blocked' = blocked + 1 /\ pc' = "top"
          /\ UNCHANGED <<fs, steps, stalled, cont, calls, results, mutated, outcome, turns, edits,
                         historyVars>>

\* The user stops the turn, or whoever listens to it is gone. That is noticed
\* where the loop waits, and what it waits for is lost: the results of calls
\* that were executed, or the look at the workspace before completion.
Cancel ==
    /\ pc \in {"top", "backend", "run", "auto", "refresh"}
    /\ pc = "auto" => PendingChecks # {}
    /\ EndTurn("Cancelled")
    /\ UNCHANGED ctx

UserEdit ==
    /\ edits < MaxEdits /\ edits' = edits + 1
    /\ \E f \in Files, v \in Live : fs[f] # v /\ fs' = [fs EXCEPT ![f] = v]
    /\ UNCHANGED <<ctx, loopVars, historyVars>>

Turn ==
    \/ RefreshTurn \/ Top \/ InvalidContinuation \/ BackendError \/ ModelAnswers
    \/ Execute \/ ConsumeResult \/ AutoVerify \/ EndStep
    \/ RefreshBeforeCompletion \/ CaptureGit \/ FinishTurn

Stop == pc = "idle" /\ turns = MaxTurns /\ UNCHANGED vars

Next == StartTurn \/ Turn \/ Cancel \/ UserEdit \/ Stop

Spec == Init /\ [][Next]_vars

-----------------------------------------------------------------------------

\* Work in which the agent changed the workspace is complete only after the
\* change was observed and every command planned for the modified files has
\* succeeded since the agent's last change (completion_review,
\* set_verification_plan, record_verification_command).
CompletionObservesVerification ==
    outcome = "Completed" /\ wrote # {} =>
        /\ wrote \subseteq ctx.modified
        /\ \A c \in Range(PlanFor[ctx.modified]) : c \in passed

\* A native write replaces only content whose hash the agent was given last,
\* whatever the user did to the file before, during or after the check (the
\* gate's expected_hash_matches, and write's own comparison).
WritesReplaceGivenContent ==
    [][\A i \in DOMAIN calls :
          /\ calls' = calls /\ calls[i].tool = "write"
          /\ results[i] = NotYet /\ results'[i] # NotYet /\ results'[i].ok
          => fs[calls[i].file] = seen[calls[i].file]]_vars

\* A turn that changed a file which was the user's when it began does not
\* complete, however it came to change it (record_user_modified, finish_turn).
UserOwnedFilesSurvive == outcome = "Completed" => wrote \cap owned = {}

\* What a turn may still use: steps and a new start without the continuation,
\* then the stages of the step, then the work of the stage.
Budget == 2 * (MaxSteps - steps) + (IF cont THEN 3 ELSE 0)
Stage  == [idle |-> 0, top |-> 1, judge |-> 2, finish |-> 2, auto |-> 3, git |-> 3, fold |-> 4,
           refresh |-> 4, run |-> 5, backend |-> 6, start |-> 7][pc]
Work   == Len(calls) + Cardinality({i \in DOMAIN results : results[i] = NotYet})
            + (IF pc = "auto" THEN Cardinality(PendingChecks) ELSE 0)

\* Every turn ends: whatever the model, the provider and the tools answer, each
\* step of a turn uses up something that no later one gives back
\* (run_with_broker, execute_pending_verifications).
TurnsAreBounded ==
    [][pc # "idle" /\ edits' = edits =>
          \/ pc' = "idle"
          \/ Budget' < Budget
          \/ Budget' = Budget /\ Stage' < Stage
          \/ Budget' = Budget /\ Stage' = Stage /\ Work' < Work]_vars

\* "Completion is a current-revision review over task state, evidence,
\* verification, blockers, and user-owned paths" (docs/architecture.md): once
\* every command planned for the modified files has succeeded since the last
\* change, and nothing else of the list stands against it, the model's claim
\* to be done is accepted (completion_review, finish_turn).
VerifiedWorkCompletes ==
    /\ pc = "finish" /\ wrote # {} /\ wrote \subseteq ctx.modified
    /\ \A c \in Range(PlanFor[ctx.modified]) : c \in passed
    /\ ctx.wf.failures = {} /\ ctx.wf.relevant # {}
    /\ ~ctx.changed /\ ~IsStale(ctx)
    /\ ctx.userModified \cap ctx.modified = {}
    => Accepts(ctx)

(***************************************************************************)
(* What makes WritesReplaceGivenContent and UserOwnedFilesSurvive          *)
(* inductive: evidence that is not stale is the hash the agent was given   *)
(* last, every write that is still to run was admitted on it, and what the *)
(* agent has changed is in the context or in a result that is still to be  *)
(* folded.                                                                 *)
(***************************************************************************)
Entry  == [hash : Live, stale : BOOLEAN, present : BOOLEAN]
Result == [executed : BOOLEAN, ok : BOOLEAN, success : BOOLEAN, retry : BOOLEAN, hash : Live, files : SUBSET Files]

\* The workflow of a context may be anything.
ContextOK(c) ==
    /\ c = [inspected |-> c.inspected, modified |-> c.modified, userModified |-> c.userModified,
            changed |-> c.changed, wf |-> c.wf]
    /\ c.inspected \in [Files -> Entry] /\ c.modified \subseteq Files /\ c.userModified \subseteq Files

\* An entry that is not stale is what the agent was shown last.
Evidence(e, shown) == e = Unseen \/ e.stale \/ (e.present /\ e.hash = shown)

LoopTypeOK ==
    /\ fs \in [Files -> Live]
    /\ ContextOK(ctx)
    /\ pc \in {"idle", "start", "top", "backend", "run", "fold", "auto", "judge", "refresh", "git", "finish"}
    /\ calls \in Seq(Call) /\ results \in Seq(Result \cup {NotYet}) /\ Len(results) = Len(calls)
    /\ seen \in [Files -> Live]
    /\ wrote \subseteq Files /\ owned \subseteq Files

StageInv ==
    /\ pc \notin {"run", "fold"} => calls = <<>>
    /\ pc = "fold" => \A i \in DOMAIN calls : results[i] # NotYet
    /\ pc # "idle" => outcome = "none"

EvidenceInv ==
    /\ \A f \in Files : Evidence(ctx.inspected[f], seen[f])
    /\ \A i \in DOMAIN calls : results[i] = NotYet /\ calls[i].tool = "write" =>
                                 calls[i].expected = seen[calls[i].file]

\* The files that results still to be folded say the agent has changed.
Changes(k) == Mutates(calls[k]) /\ results[k] # NotYet /\ results[k].executed /\ results[k].ok
Unfolded == {calls[k].file : k \in {i \in DOMAIN calls : Changes(i)}}

OwnerInv ==
    /\ outcome # "Cancelled" => wrote \subseteq ctx.modified \cup Unfolded
    /\ owned \subseteq ctx.userModified
    /\ UserOwnedFilesSurvive

LoopInv == LoopTypeOK /\ StageInv /\ EvidenceInv /\ OwnerInv

(***************************************************************************)
(* What makes CompletionObservesVerification inductive, for answers in     *)
(* which every check runs to its end and after the commands before it:     *)
(* what is planned has a step, and a step of the current revision that is  *)
(* passed, or is going to be, is of a command that succeeded since the     *)
(* last change.                                                            *)
(***************************************************************************)
Foreground(answer) ==
    /\ \A i \in DOMAIN answer : answer[i].tool # "start"
    /\ \A i, k \in DOMAIN answer : k < i /\ answer[k].tool = "shell" => answer[i].tool # "verify"

Check == [command : Commands, revision : Nat, status : {"Pending", "Passed", "Failed", "Stale"}]

WorkflowOK(w) ==
    /\ w = [relevant |-> w.relevant, inspected |-> w.inspected, revision |-> w.revision,
            verification |-> w.verification, steps |-> w.steps, checks |-> w.checks, failures |-> w.failures]
    /\ w.revision \in Nat /\ w.steps \in Seq(Check)
    /\ \A i \in DOMAIN w.steps : w.steps[i].revision <= w.revision

PlanInv ==
    /\ WorkflowOK(ctx.wf)
    /\ ctx.modified # {} => \A p \in DOMAIN PlanFor[ctx.modified] :
          \E i \in DOMAIN ctx.wf.steps : ctx.wf.steps[i].command = PlanFor[ctx.modified][p]

Passes(i) == calls[i].tool = "verify" /\ results[i] # NotYet /\ results[i].ok /\ results[i].success

\* A check that passed is of a command that did, unless a later change is still to be folded.
PassedInv ==
    wrote # {} =>
       /\ \A i \in DOMAIN calls : Passes(i) /\ (\A k \in DOMAIN calls : k > i => ~Changes(k)) =>
                                    calls[i].command \in passed
       /\ outcome # "Cancelled" /\ (\A k \in DOMAIN calls : ~Changes(k)) =>
             \A i \in DOMAIN ctx.wf.steps :
                ctx.wf.steps[i].revision = ctx.wf.revision /\ ctx.wf.steps[i].status = "Passed" =>
                   ctx.wf.steps[i].command \in passed

CheckInv ==
    /\ Foreground(calls)
    /\ \A i, k \in DOMAIN calls : k < i /\ Passes(i) /\ Mutates(calls[k]) => results[k] # NotYet
    /\ PlanInv /\ PassedInv
    /\ CompletionObservesVerification

(***************************************************************************)
(* What makes TurnsAreBounded inductive: a step that waits for its command *)
(* keeps the verification open, so the next check of the plan is one whose *)
(* result is recorded, and no step waits for that command after it.        *)
(***************************************************************************)
OpenWhilePending(w) ==
    (\E i \in DOMAIN w.steps : w.steps[i].revision = w.revision /\ w.steps[i].status = "Pending")
       => w.verification \in {"Pending", "Failed"}

BoundInv ==
    /\ steps \in 0..MaxSteps /\ edits \in Nat
    /\ WorkflowOK(ctx.wf) /\ OpenWhilePending(ctx.wf)
=============================================================================

---------------------------- MODULE RepositoryPlan ----------------------------
(***************************************************************************)
(* The repository planner (planner.rs, policy.rs, agent.rs): a batch of    *)
(* search and read calls that the agent may answer with one bounded        *)
(* observation instead of running them, and the plan of verification       *)
(* commands for the modified files (verification.rs).                      *)
(*                                                                         *)
(* A context is what the planner sees of ContextSnapshot: inspected files  *)
(* with the ranges seen, retained excerpts, and the decision state's       *)
(* candidates.  Ranges are pairs of line numbers; every file has           *)
(* FileLines lines.  An excerpt records the numbers it gives its lines.    *)
(***************************************************************************)
EXTENDS RepositoryMap

CONSTANTS PlannerContexts, \* the contexts a batch may start from
          Batches,         \* sequences of calls [tool, targets, terms, bounded]
          ModifiedSets,    \* sequences of modified paths
          FileLines,
          MaxRangeLines,   \* a range is cut behind that many lines
          MaxExcerptBytes, \* the text of one read, a line being a byte
          MaxPlanCandidates, MaxPlanFiles, MaxPlanActions, MaxPlanBytes,
          MinPlannerConfidence, MaxVerificationCommands

\* A read names a range of lines or none (repository_plan_for_actions).
ReadTargetType == [path : DOMAIN RepoFiles, ranges : {r \in Seq(Nat \X Nat) : Len(r) <= 1}]
ExcerptType == [path : DOMAIN RepoFiles, start : Nat, end : Nat, version : Nat, lines : SUBSET Nat]

ASSUME PlanAssumption ==
    /\ {FileLines, MaxVerificationCommands} \subseteq Nat \ {0}
    /\ {MaxRangeLines, MaxExcerptBytes, MaxPlanCandidates, MaxPlanFiles, MaxPlanActions, MaxPlanBytes} \subseteq Nat
    /\ \A calls \in Batches :
          /\ Len(calls) \in Nat /\ DOMAIN calls = 1 .. Len(calls)
          /\ \A i \in DOMAIN calls : calls[i].targets \in Seq(ReadTargetType)
    /\ \A context \in PlannerContexts : context.excerpts \in Seq(ExcerptType)
    /\ ModifiedSets \subseteq Seq(DOMAIN RepoFiles)

VARIABLE planBatch         \* the batch in progress and its answer

planVars == <<repoVars, planBatch>>

EmptyObservation == [files |-> <<>>, symbols |-> {}, excerpts |-> <<>>, bytes |-> 0, cacheHit |-> FALSE]
EmptyPlan == [actions |-> <<>>, observation |-> EmptyObservation, aborted |-> TRUE, confidence |-> 0]
NoContext == [inspected |-> <<>>, excerpts |-> <<>>, changed |-> FALSE, lowValue |-> 0, candidates |-> <<>>]
NoBatch == [pc |-> "idle", calls |-> <<>>, context |-> NoContext, plan |-> EmptyPlan,
            at |-> 1, observation |-> EmptyObservation, results |-> <<>>]

(* ------------------------------ the context ------------------------------ *)

IsCurrentFile(context, p) == p \in DOMAIN context.inspected /\ ~context.inspected[p].stale

Covers(outer, inner) == outer[1] <= inner[1] /\ inner[2] <= outer[2]

RangesCovered(context, p, ranges) ==
    /\ IsCurrentFile(context, p)
    /\ \A i \in DOMAIN ranges : \E seen \in context.inspected[p].ranges : Covers(seen, ranges[i])

(* a range that names no line is dropped, a long one is cut; without any, the
   range is the whole file and has no end that an excerpt could reach *)
NormalizeRanges(ranges) ==
    LET first == AtMost(16, ranges)
        valid == Sift(first, {r \in ToSet(first) : 0 < r[1] /\ r[1] <= r[2]})
        cut(r) == <<r[1], IF r[2] <= r[1] + MaxRangeLines THEN r[2] ELSE r[1] + MaxRangeLines>>
    IN  IF valid = <<>> THEN << <<1, FileLines + 1>> >> ELSE [i \in DOMAIN valid |-> cut(valid[i])]

(* current_excerpt: one retained excerpt that holds every range *)
CurrentExcerptOfFile(context, p, ranges) ==
    LET hits == {i \in DOMAIN context.excerpts :
                   context.excerpts[i].path = p /\ IsCurrentFile(context, p)}
    IN  IF hits = {} THEN <<>> ELSE <<context.excerpts[CHOOSE i \in hits : \A j \in hits : j <= i]>>

CurrentExcerpt(context, p, ranges) ==
    LET hits == {i \in DOMAIN context.excerpts :
                   /\ context.excerpts[i].path = p /\ IsCurrentFile(context, p)
                   /\ \A k \in DOMAIN ranges :
                        Covers(<<context.excerpts[i].start, context.excerpts[i].end>>, ranges[k])}
    IN  IF hits = {} THEN <<>> ELSE <<context.excerpts[CHOOSE i \in hits : \A j \in hits : j <= i]>>

PushExcerpt(observation, excerpt) ==
    IF excerpt.lines = {} \/ \E i \in DOMAIN observation.excerpts :
          /\ observation.excerpts[i].path = excerpt.path
          /\ observation.excerpts[i].start = excerpt.start
          /\ observation.excerpts[i].end = excerpt.end
    THEN observation
    ELSE [observation EXCEPT !.excerpts = AtMost(MaxPlanFiles, Append(@, excerpt)), !.cacheHit = TRUE]

Observed(context, p, score) ==
    [path |-> p, score |-> score, inspected |-> IsCurrentFile(context, p),
     stale |-> p \in DOMAIN context.inspected /\ context.inspected[p].stale]

(* ---------------------------- planning reads ---------------------------- *)

(* one target: a path is planned once, whatever range it is asked for again *)
PlanTarget(context, acc, target) ==
    LET p == target.path
        ranges == NormalizeRanges(target.ranges)
        cached == IF RangesCovered(context, p, ranges) THEN CurrentExcerpt(context, p, ranges) ELSE <<>>
        noted == [acc EXCEPT !.seen = Append(@, p),
                             !.plan.observation.files = Append(@, Observed(context, p, 100))]
    IN  IF p \in ToSet(acc.seen) \/ Len(acc.seen) >= MaxPlanFiles THEN acc
        ELSE IF cached # <<>>
        THEN [noted EXCEPT !.plan.observation = PushExcerpt(@, cached[1])]
        ELSE IF Len(acc.plan.actions) >= MaxPlanActions THEN noted
        ELSE [noted EXCEPT !.plan.actions = Append(@, [path |-> p, ranges |-> ranges])]

PlanTargets(context, targets) ==
    LET after[n \in 0 .. Len(targets)] ==
            IF n = 0 THEN [seen |-> <<>>, plan |-> EmptyPlan]
            ELSE PlanTarget(context, after[n - 1], targets[n])
    IN  after[Len(targets)]

(* a plan with nothing to read and nothing retained is refused *)
UnlessEmpty(plan) ==
    IF plan.actions = <<>> /\ ~plan.observation.cacheHit THEN EmptyPlan ELSE [plan EXCEPT !.aborted = FALSE]

PlanReadTargets(context, targets) ==
    IF context.changed \/ targets = <<>> THEN EmptyPlan
    ELSE UnlessEmpty(PlanTargets(context, AtMost(MaxPlanCandidates, targets)).plan)

(* --------------------------- planning a search --------------------------- *)

(* add_candidate: one entry per path, with the best score of its mentions *)
AddCandidate(out, c) ==
    LET at == {i \in DOMAIN out : out[i].path = c.path}
        i  == CHOOSE i \in at : TRUE
    IN  IF at # {}
        THEN [out EXCEPT ![i] = [@ EXCEPT !.score = IF @ < c.score THEN c.score ELSE @,
                                          !.related = @ \/ c.related,
                                          !.symbol = IF @ = "" THEN c.symbol ELSE @,
                                          !.line = IF @ = 0 THEN c.line ELSE @]]
        ELSE IF Len(out) >= MaxPlanCandidates THEN out ELSE Append(out, c)

IsPlannerTestPath(p) == ToSet(RepoFiles[p].dir) \cap {"test", "tests"} # {} \/ "_test" \in RepoFiles[p].marks

(* Candidate::from_decision *)
FromDecision(d) == [path |-> d.path, score |-> d.score, symbol |-> d.symbol, line |-> d.line,
                    related |-> IsPlannerTestPath(d.path)]

CandidateMatchesTerms(c, terms) ==
    \E t \in ToSet(terms) : <<t, c.path>> \in DOMAIN MatchScore \/ t = c.symbol

PlanConfidence(top, second) ==
    LET base == IF top >= 120 THEN 94 ELSE IF top >= 100 THEN 90 ELSE IF top >= 84 THEN 82
                ELSE IF top >= 68 THEN 68 ELSE 40
        gap  == IF second = {} THEN 10
                ELSE LET d == top - (CHOOSE s \in second : TRUE) IN IF d > 10 THEN 10 ELSE d
    IN  IF base + gap > 100 THEN 100 ELSE base + gap

CandidateRanges(context, c) ==
    IF c.line # 0 THEN << <<c.line, c.line + 80>> >>
    ELSE IF c.path \in DOMAIN context.inspected /\ context.inspected[c.path].ranges # {}
    THEN << (CHOOSE r \in context.inspected[c.path].ranges : TRUE) >>
    ELSE << <<1, 96>> >>

SameStem(p, q) == RepoFiles[p].stem = RepoFiles[q].stem

PlanCandidate(context, plan, c) ==
    LET ranges == CandidateRanges(context, c)
        cached == CurrentExcerpt(context, c.path, ranges)
        noted == [plan EXCEPT !.observation.files = Append(@, Observed(context, c.path, c.score)),
                              !.observation.symbols = @ \cup IF c.symbol = "" THEN {} ELSE {c.symbol}]
    IN  IF RangesCovered(context, c.path, ranges)
        THEN [noted EXCEPT !.observation = IF cached = <<>> THEN [@ EXCEPT !.cacheHit = TRUE]
                                           ELSE [PushExcerpt(@, cached[1]) EXCEPT !.cacheHit = TRUE]]
        ELSE IF Len(plan.actions) >= MaxPlanActions THEN noted
        ELSE [noted EXCEPT !.actions = Append(@, [path |-> c.path, ranges |-> ranges])]

(* plan: refused unless one candidate stands out and matches the search *)
PlanSearch(context, terms) ==
    LET merged == FoldLeft(AddCandidate, <<>>,
                           [i \in DOMAIN context.candidates |-> FromDecision(context.candidates[i])])
        ranked == SortSeq(merged, LAMBDA a, b : a.score > b.score \/ (a.score = b.score /\ a.path < b.path))
        top == ranked[1]
        second == IF Len(ranked) < 2 THEN {} ELSE {ranked[2].score}
        sure == PlanConfidence(top.score, second)
        close == second # {} /\ ranked[2].score + 16 >= top.score
        chosen == AtMost(MaxPlanFiles, SelectSeq(ranked, LAMBDA c :
                     c.path = top.path \/ c.related \/ IsPlannerTestPath(c.path) \/ SameStem(c.path, top.path)))
        refused == \/ terms = <<>> \/ context.changed \/ context.lowValue >= 3
                   \/ ranked = <<>>
    IN  IF refused THEN EmptyPlan
        ELSE IF ~CandidateMatchesTerms(top, terms) THEN EmptyPlan
        ELSE IF close \/ sure < MinPlannerConfidence THEN [EmptyPlan EXCEPT !.confidence = sure]
        ELSE FoldLeft(LAMBDA plan, c : PlanCandidate(context, plan, c),
                      [EmptyPlan EXCEPT !.aborted = FALSE, !.confidence = sure], chosen)

(* coalesce: one refused plan refuses the batch; a file is listed, an excerpt
   shown and an action made once *)
WithFiles(files, new) ==
    AtMost(MaxPlanCandidates, files \o SelectSeq(new, LAMBDA f : \A i \in DOMAIN files : files[i].path # f.path))

PushExcerpts(observation, excerpts) ==
    LET after[n \in 0 .. Len(excerpts)] ==
            IF n = 0 THEN observation ELSE PushExcerpt(after[n - 1], excerpts[n])
    IN  after[Len(excerpts)]

WithAction(actions, action) ==
    IF Len(actions) >= MaxPlanActions \/ (\E i \in DOMAIN actions : actions[i] = action)
    THEN actions ELSE Append(actions, action)

WithActions(actions, new) ==
    LET after[n \in 0 .. Len(new)] == IF n = 0 THEN actions ELSE WithAction(after[n - 1], new[n])
    IN  after[Len(new)]

MergePlans(a, b) ==
    [aborted |-> FALSE, actions |-> WithActions(a.actions, b.actions),
     confidence |-> IF a.confidence < b.confidence THEN b.confidence ELSE a.confidence,
     observation |-> [PushExcerpts(a.observation, b.observation.excerpts) EXCEPT
                        !.files = WithFiles(a.observation.files, b.observation.files),
                        !.symbols = a.observation.symbols \cup b.observation.symbols,
                        !.cacheHit = @ \/ b.observation.cacheHit]]

MergeAll(plans) ==
    LET after[n \in 0 .. Len(plans)] ==
            IF n = 0 THEN EmptyPlan ELSE MergePlans(after[n - 1], plans[n])
    IN  after[Len(plans)]

Coalesce(plans) ==
    IF plans = <<>> \/ \E i \in DOMAIN plans : plans[i].aborted THEN EmptyPlan
    ELSE UnlessEmpty(MergeAll(plans))

(* repository_plan_for_actions: searches are planned one by one, the reads of
   all calls together; anything else, or a read with a byte limit, is not *)
SearchPlans(context, calls) ==
    LET upTo[n \in 0 .. Len(calls)] ==
            IF n = 0 THEN <<>>
            ELSE IF calls[n].tool = "search" THEN Append(upTo[n - 1], PlanSearch(context, calls[n].terms))
            ELSE upTo[n - 1]
    IN  upTo[Len(calls)]

ReadTargets(calls) ==
    LET upTo[n \in 0 .. Len(calls)] ==
            IF n = 0 THEN <<>>
            ELSE IF calls[n].tool = "read" THEN upTo[n - 1] \o calls[n].targets
            ELSE upTo[n - 1]
    IN  upTo[Len(calls)]

PlanForActions(context, calls) ==
    LET searches == SearchPlans(context, calls)
        plans == IF \A i \in DOMAIN calls : calls[i].tool # "read" THEN searches
                 ELSE Append(searches, PlanReadTargets(context, ReadTargets(calls)))
    IN  IF \/ calls = <<>> \/ Len(calls) > 8
           \/ \E i \in DOMAIN calls : calls[i].tool \notin {"search", "read"} \/ calls[i].bounded
        THEN EmptyPlan ELSE Coalesce(plans)

IsUsable(plan) ==
    ~plan.aborted /\ (plan.observation.cacheHit \/ plan.actions # <<>> \/ plan.observation.files # <<>>)

(* ------------------------------- executing ------------------------------- *)

(* read_excerpt: the lines in any of the ranges, numbered from the first on, but
   not behind the end of the last; the text is cut *)
ReadExcerpt(p, ranges, left) ==
    LET read  == {n \in 1 .. FileLines : n <= left /\ \E i \in DOMAIN ranges : ranges[i][1] <= n /\ n <= ranges[i][2]}
        lines == {n \in read : Cardinality({m \in read : m <= n}) <= MaxExcerptBytes}
        first == ranges[1][1]
        shown == first + Cardinality(lines) - 1
        last  == ranges[Len(ranges)][2]
    IN  [path |-> p, start |-> first, version |-> disk[p], lines |-> lines,
         end |-> IF lines = {} \/ last < first THEN first ELSE IF shown < last THEN shown ELSE last]

PlanInit == planBatch = NoBatch

(* a model step asks for a batch; the policy plans it *)
BeginBatch ==
    /\ planBatch.pc = "idle"
    /\ \E calls \in Batches, context \in PlannerContexts : \E plan \in {PlanForActions(context, calls)} :
          planBatch' = [NoBatch EXCEPT !.calls = calls, !.context = context, !.plan = plan,
                           !.observation = plan.observation,
                           !.pc = IF IsUsable(plan) THEN "execute" ELSE "scheduler"]
    /\ UNCHANGED repoVars

(* execute, one action: the context's excerpt if it has one, or else the file *)
ExecuteAction ==
    /\ planBatch.pc = "execute" /\ planBatch.at <= Len(planBatch.plan.actions)
    /\ LET action == planBatch.plan.actions[planBatch.at]
           cached == CurrentExcerpt(planBatch.context, action.path, action.ranges)
           left   == MaxPlanBytes - planBatch.observation.bytes
           excerpt == ReadExcerpt(action.path, action.ranges, left)
       IN  IF left <= 0
           THEN planBatch' = [planBatch EXCEPT !.at = Len(planBatch.plan.actions) + 1]
           ELSE IF cached # <<>>
           THEN planBatch' = [planBatch EXCEPT !.at = @ + 1,
                                !.observation = PushExcerpt(@, cached[1])]
           ELSE /\ disk[action.path] # 0
                /\ planBatch' = [planBatch EXCEPT !.at = @ + 1,
                       !.observation.excerpts = AtMost(MaxPlanFiles, Append(@, excerpt)),
                       !.observation.bytes = @ + Cardinality(excerpt.lines)]
    /\ UNCHANGED repoVars

(* a file that cannot be read, or the time budget: the batch runs as it is *)
ExecutionFails ==
    /\ planBatch.pc = "execute" /\ planBatch.at <= Len(planBatch.plan.actions)
    /\ planBatch' = [planBatch EXCEPT !.pc = "scheduler", !.observation = EmptyObservation]
    /\ UNCHANGED repoVars

(* the first call gets the observation, every other call a note that it was
   coalesced into it *)
AnswerBatch ==
    /\ planBatch.pc = "execute" /\ planBatch.at > Len(planBatch.plan.actions)
    /\ planBatch' = [planBatch EXCEPT !.pc = "answered",
                       !.results = [i \in DOMAIN planBatch.calls |-> IF i = 1 THEN "observation" ELSE "coalesced"]]
    /\ UNCHANGED repoVars

(* the calls run through the scheduler (ToolStep) *)
RunBatch ==
    /\ planBatch.pc = "scheduler"
    /\ planBatch' = [planBatch EXCEPT !.pc = "answered",
                       !.results = [i \in DOMAIN planBatch.calls |-> "own"]]
    /\ UNCHANGED repoVars

NextBatch == planBatch.pc = "answered" /\ planBatch' = NoBatch /\ UNCHANGED repoVars

PlanNext == \/ BeginBatch \/ ExecuteAction \/ ExecutionFails \/ AnswerBatch \/ RunBatch
            \/ NextBatch \/ (FileChanges /\ UNCHANGED planBatch)

PlanSpec == RepoInit /\ PlanInit /\ [][PlanNext \/ (RepoNext /\ UNCHANGED planBatch)]_planVars

(* ------------------------- planning verification ------------------------- *)

Command(program, args, cwd, scope) == [program |-> program, args |-> args, cwd |-> cwd, scope |-> scope]
SameCommand(c, d) == c.program = d.program /\ c.args = d.args /\ c.cwd = d.cwd
PushUnique(out, c) == IF \E i \in DOMAIN out : SameCommand(out[i], c) THEN out ELSE Append(out, c)

(* nearest_manifest: the deepest one whose directory holds the path *)
NearestManifests(map, p) ==
    LET Dir(i) == RepoFiles[map.manifests[i].path].dir
        above == {i \in DOMAIN map.manifests : IsPrefix(Dir(i), RepoFiles[p].dir)}
    IN  {i \in above : \A j \in above : Len(Dir(j)) < Len(Dir(i)) \/ (Len(Dir(j)) = Len(Dir(i)) /\ j <= i)}

SupportsPath(manifest, p) ==
    \/ p = manifest.path
    \/ manifest.kind = "cargo" /\ (RepoFiles[p].ext = "rs" \/ RepoFiles[p].name \in {"Cargo.lock", "Cargo.toml"})
    \/ manifest.kind = "node" /\ (RepoFiles[p].ext \in {"js", "ts", "tsx"} \/ RepoFiles[p].name = "yarn.lock")
    \/ manifest.kind = "python" /\ (RepoFiles[p].ext = "py" \/ RepoFiles[p].name = "requirements.txt")

Workspaces(map) == {i \in DOMAIN map.manifests : map.manifests[i].kind = "cargo" /\ map.manifests[i].members # <<>>}
FirstWorkspace(map) == map.manifests[CHOOSE i \in Workspaces(map) : \A j \in Workspaces(map) : i <= j].path

(* requires_workspace_scope: the workspace's own files, or a package's public API *)
RequiresWorkspaceScope(map, manifest, p) ==
    /\ manifest.kind = "cargo" /\ Len(map.packages) >= 2 /\ map.members # <<>>
    /\ Workspaces(map) # {}
    /\ \/ p = FirstWorkspace(map)
       \/ RepoFiles[p].name = "Cargo.lock" /\ RepoFiles[p].dir = RepoFiles[FirstWorkspace(map)].dir
       \/ /\ \E i \in DOMAIN map.packages : map.packages[i].manifest = manifest.path
          /\ RepoFiles[p].name \in {"lib.rs", "mod.rs"}

PlanRust(out, map, root, p) ==
    LET owners == {i \in DOMAIN map.packages : map.packages[i].root = root /\ map.packages[i].name # <<>>}
        owner == IF owners = {} THEN <<>> ELSE map.packages[CHOOSE i \in owners : \A j \in owners : i <= j].name
        test == IF IsPrefix(Append(root, "tests"), RepoFiles[p].dir)
                THEN Command("cargo", <<"test", "--test", RepoFiles[p].stem>>, root, owner)
                ELSE IF owner # <<>> THEN Command("cargo", <<"test", "-p", owner>>, <<>>, owner)
                ELSE Command("cargo", <<"test">>, root, root)
        check == IF owner # <<>> THEN Command("cargo", <<"check", "-p", owner>>, <<>>, owner)
                 ELSE Command("cargo", <<"check">>, root, root)
    IN  PushUnique(PushUnique(out, test), check)

PlanNode(out, root, p) ==
    PushUnique(out, Command("npm", IF IsTestPath(p) THEN <<"test", "--", p>> ELSE <<"test">>, root, root))

PlanPython(out, root, p) ==
    PushUnique(PushUnique(out, Command("python", IF IsTestPath(p) THEN <<"-m", "pytest", p>>
                                                 ELSE <<"-m", "pytest">>, root, root)),
               Command("python", <<"-m", "compileall">>, root, root))

(* the narrow commands of one modified path *)
PlanModified(map, plan, p) ==
    LET nearest == NearestManifests(map, p)
        manifest == map.manifests[CHOOSE i \in nearest : TRUE]
        root == RepoFiles[manifest.path].dir
    IN  IF nearest = {} THEN plan
        ELSE IF ~SupportsPath(manifest, p) THEN plan
        ELSE [broader |-> plan.broader \/ RequiresWorkspaceScope(map, manifest, p),
              commands |-> CASE manifest.kind = "cargo" -> PlanRust(plan.commands, map, root, p)
                             [] manifest.kind = "node" -> PlanNode(plan.commands, root, p)
                             [] manifest.kind = "python" -> PlanPython(plan.commands, root, p)
                             [] OTHER -> plan.commands]

(* the workspace check takes the last place of a full plan *)
BroadCommand(map, modified) ==
    Command("cargo", IF \E i \in DOMAIN modified : modified[i] = FirstWorkspace(map)
                                                   \/ RepoFiles[modified[i]].name = "Cargo.lock"
                     THEN <<"test", "--workspace">> ELSE <<"check", "--workspace">>, <<>>, <<"workspace">>)

AddBroad(commands, broad) ==
    IF \E i \in DOMAIN commands : SameCommand(commands[i], broad) THEN commands
    ELSE PushUnique(AtMost(MaxVerificationCommands - 1, commands), broad)

NarrowPlan(map, modified) ==
    LET after[n \in 0 .. Len(modified)] ==
            IF n = 0 THEN [broader |-> FALSE, commands |-> <<>>]
            ELSE PlanModified(map, after[n - 1], modified[n])
    IN  after[Len(modified)]

PlanVerification(map, modified) ==
    LET narrow == NarrowPlan(map, modified)
        some == IF narrow.commands # <<>> THEN narrow.commands
                ELSE <<Command("git", <<"diff", "--check">>, <<>>, <<"diff">>)>>
        broad == narrow.broader /\ Workspaces(map) # {}
    IN  [broader |-> narrow.broader,
         commands |-> AtMost(MaxVerificationCommands,
                             IF broad THEN AddBroad(some, BroadCommand(map, modified)) ELSE some)]

(* ------------------------------- properties ------------------------------- *)

(* The lines an observation gives for a path, under their own numbers. *)
ShownLines(observation, p) ==
    UNION {LET e == observation.excerpts[i]
           IN  {n \in e.lines : e.start <= n /\ n <= e.end} :
           i \in {i \in DOMAIN observation.excerpts : observation.excerpts[i].path = p}}

Asked(target) ==
    {n \in 1 .. FileLines :
        target.ranges = <<>> \/ \E i \in DOMAIN target.ranges : target.ranges[i][1] <= n /\ n <= target.ranges[i][2]}

TargetsOf(calls) == UNION {ToSet(calls[i].targets) : i \in DOMAIN calls}

(* Reads of different files, or of the same lines, that the planner has room for. *)
WithinLimits(calls) ==
    LET targets == ReadTargets(calls)
    IN  /\ \A i \in DOMAIN calls : calls[i].tool = "read"
        /\ Len(targets) <= MaxPlanFiles /\ Len(targets) <= MaxPlanActions /\ Len(targets) <= MaxPlanCandidates
        /\ \A i, j \in DOMAIN targets : targets[i].path = targets[j].path => targets[i] = targets[j]
        /\ \A i \in DOMAIN targets : \A k \in DOMAIN targets[i].ranges :
              targets[i].ranges[k][2] <= targets[i].ranges[k][1] + MaxRangeLines
        /\ FileLines <= MaxExcerptBytes /\ FileLines * Len(targets) <= MaxPlanBytes

(* An excerpt holds the lines it says, unless its text was cut. *)
IsWhole(e) == e.start .. e.end \cap 1 .. FileLines \subseteq e.lines

PlannedAnswer == planBatch.pc = "answered" /\ "observation" \in ToSet(planBatch.results)

(* A batch of reads of different files, within the planner's limits, that is
   answered with one observation, finds in it every line it asked for: a
   retained excerpt stands for a read only when the file is current and the
   excerpt holds the whole range (plan_read_targets, current_excerpt). Contexts
   with an excerpt whose text was cut are left out: it is kept under all of its
   lines, and is given for them as if it were whole. *)
AnswersHoldTheirRanges ==
    /\ PlannedAnswer
    /\ WithinLimits(planBatch.calls)
    /\ \A i \in DOMAIN planBatch.context.excerpts : IsWhole(planBatch.context.excerpts[i])
    => \A t \in TargetsOf(planBatch.calls) : Asked(t) \subseteq ShownLines(planBatch.observation, t.path)

(* When a modified file needs the workspace-wide check and the repository has
   a Cargo workspace, the check is in the plan, also when the narrow commands
   of many packages fill it (plan_verification). *)
BroadCheckSurvives ==
    mapCall.pc = "answered" =>
        \A modified \in ModifiedSets :
            LET plan == PlanVerification(mapCall.answer.map, modified)
            IN  plan.broader =>
                  \E i \in DOMAIN plan.commands :
                      SameCommand(plan.commands[i], BroadCommand(mapCall.answer.map, modified))

(* The limits of a plan do not cut off what it was made for: a batch's answer
   still shows every line that was asked for, and a verification plan
   still has its broadest check. *)
PlansKeepTheirPurpose == AnswersHoldTheirRanges /\ BroadCheckSurvives
===============================================================================

---------------------------- MODULE PromptContext ----------------------------
(***************************************************************************)
(* What a turn's prompt tells the model of the workspace: the context      *)
(* packet (context.rs, working_set.rs, agent.rs).                          *)
(*                                                                         *)
(* The engine is a ContextSnapshot.  A packet is a delta: items whose      *)
(* fingerprint was recorded with an earlier packet are left out.  The      *)
(* fingerprints are persisted with the session, the excerpts are not.      *)
(* A file's content is a number, 0 when there is no file; a hash is the    *)
(* number of the content it was taken of, or Unhashed.  A fingerprint is   *)
(* the tuple that is hashed.  The state of the work (phase, subgoals,      *)
(* failures, candidates) is an input here: WorkLedger and CodingPolicy     *)
(* are about how it comes to be.                                           *)
(***************************************************************************)
EXTENDS ContextSelection

CONSTANTS PromptTasks, Contents, ReadRanges, AutoRange, WorkStates,
          InstructionsFrom, \* path -> the instructions that apply to it, "" for none
          MaxInspectedFiles, MaxFileExcerpts, MaxSummaries, MaxModified, MaxUserModified,
          MaxFingerprints, MaxSymbolPaths, MaxInstructionPaths, MaxWorkingSet, MaxShownPaths,
          PhaseBudget, MaxPacket, FixedBytes, RangeBytes,
          MaxPromptEvents, MaxPromptEdits

ASSUME PromptAssumption ==
    /\ Len(PromptPaths) \in Nat /\ DOMAIN PromptPaths = 1 .. Len(PromptPaths)
    /\ Contents \subseteq Nat \ {0} /\ 1 \in Contents
    /\ WorkStates # {} /\ \A w \in WorkStates : /\ {"phase", "relevant", "recovery"} \subseteq DOMAIN w
                                                /\ w.relevant \in Seq(DOMAIN PromptPaths)
    /\ MaxInspectedFiles \in Nat \ {0}
    /\ {MaxFileExcerpts, MaxSummaries, MaxModified, MaxUserModified, MaxFingerprints,
        MaxSymbolPaths, MaxInstructionPaths, MaxShownPaths, MaxItems} \subseteq Nat

VARIABLES files,       \* path -> content
          engine,      \* the ContextSnapshot
          turn,        \* [pc, continuation, pending]: the turn in progress
          packet,      \* the packet last rendered
          rendered,    \* [whole, lost]: fingerprints of items that packets held in full,
                       \* and of items that were to be in full but fell to the final cut
          lookedAt,    \* the files as the last refresh found them
          pushedOut,   \* the files that were pushed out of the list of inspected files while
                       \* an excerpt of them stayed
          promptCount  \* [events, edits]: the turns and calls, and the user's edits, so far

contextVars == <<files, engine, turn, packet, rendered, lookedAt, pushedOut, promptCount>>

Paths == DOMAIN PromptPaths
Unhashed == -1
NoPacket == [mode |-> "none", items |-> <<>>]
NoTurn == [pc |-> "idle", continuation |-> FALSE, pending |-> <<>>]

(* ------------------------------ the engine ------------------------------ *)

EmptyEngine == [task |-> "", inspected |-> <<>>, modified |-> <<>>, userModified |-> <<>>,
                excerpts |-> <<>>, summaries |-> <<>>, git |-> <<>>, changed |-> FALSE,
                fingerprints |-> <<>>, work |-> CHOOSE w \in WorkStates : TRUE]

InspectedPaths(e) == {e.inspected[i].path : i \in DOMAIN e.inspected}
ExcerptPaths(e) == {e.excerpts[i].path : i \in DOMAIN e.excerpts}
StaleIn(e, p) == \E i \in DOMAIN e.inspected : e.inspected[i].path = p /\ e.inspected[i].stale
AnyStaleFile(e) == \E i \in DOMAIN e.inspected : e.inspected[i].stale
DropExcerpts(e, dropped) == [e EXCEPT !.excerpts = Sift(@, {x \in ToSet(@) : x.path \notin dropped})]

(* an inspected file that was looked at again *)
LookAgain(f, hash, lines) ==
    [f EXCEPT !.hash = IF hash = Unhashed THEN @ ELSE hash, !.lines = @ \cup lines,
              !.present = TRUE, !.stale = FALSE]

(* upsert_inspected: a bug keeps the excerpts of the content before *)
UpsertKeeping(e, p, hash, lines) ==
    LET known == {i \in DOMAIN e.inspected : e.inspected[i].path = p}
    IN  IF known = {}
        THEN [e EXCEPT !.inspected = Newest(Append(@, [path |-> p, hash |-> hash, lines |-> lines,
                                                       present |-> TRUE, stale |-> FALSE]), MaxInspectedFiles)]
        ELSE [e EXCEPT !.inspected[CHOOSE i \in known : TRUE] = LookAgain(@, hash, lines)]

(* ... a new hash drops them *)
UpsertInspected(e, p, hash, lines) ==
    LET changed == \E i \in DOMAIN e.inspected :
                      e.inspected[i].path = p /\ Unhashed \notin {hash, e.inspected[i].hash}
                                              /\ e.inspected[i].hash # hash
        known == {i \in DOMAIN e.inspected : e.inspected[i].path = p}
        entry == [path |-> p, hash |-> hash, lines |-> lines, present |-> TRUE, stale |-> FALSE]
    IN  IF known = {}
        THEN [e EXCEPT !.inspected = Newest(Append(@, entry), MaxInspectedFiles)]
        ELSE DropExcerpts([e EXCEPT !.inspected[CHOOSE i \in known : TRUE] = LookAgain(@, hash, lines)],
                          IF changed THEN {p} ELSE {})

(* push_excerpt: one per path and range, the newest last *)
PushFileExcerpt(e, x) ==
    [e EXCEPT !.excerpts = Newest(Append(Sift(@, {y \in ToSet(@) : y.path # x.path \/ y.range # x.range}), x),
                                  MaxFileExcerpts)]

PushSummary(e, tool, shown) ==
    [e EXCEPT !.summaries = Newest(Append(@, [tool |-> tool, shown |-> Oldest(Distinct(shown), MaxShownPaths)]),
                                   MaxSummaries)]

RecordModifiedPath(e, p) ==
    [e EXCEPT !.modified = Newest(IF p \in ToSet(@) THEN @ ELSE Append(@, p), MaxModified)]

RecordUserPath(users, modified, p) ==
    IF p \in ToSet(modified) \cup ToSet(users) THEN users ELSE Newest(Append(users, p), MaxUserModified)

(* set_git: the dirty paths that are not the agent's are the user's *)
SetGit(e, dirty) ==
    LET users[n \in 0 .. Len(dirty)] ==
            IF n = 0 THEN e.userModified ELSE RecordUserPath(users[n - 1], e.modified, dirty[n])
    IN  [e EXCEPT !.git = dirty, !.userModified = users[Len(dirty)]]
DirtyPaths == Sift([p \in Paths |-> p], {p \in Paths : files[p] # 1})

ResetWorkflow(e) ==
    [e EXCEPT !.work.phase = "discover", !.work.relevant = <<>>,
              !.work.recovery = [active |-> TRUE, paths |-> e.work.relevant]]

(* one inspected file compared with the workspace *)
RehashFile(f) ==
    IF files[f.path] = 0 THEN [f EXCEPT !.stale = @ \/ f.present, !.present = FALSE]
    ELSE IF f.hash \notin {Unhashed, files[f.path]} THEN [f EXCEPT !.stale = TRUE, !.hash = files[f.path]]
    ELSE IF f.stale \/ f.hash # Unhashed THEN [f EXCEPT !.present = TRUE]
    ELSE [f EXCEPT !.hash = files[f.path]]

DriftedPaths(e) ==
    {e.inspected[i].path : i \in {i \in DOMAIN e.inspected :
        LET f == e.inspected[i]
        IN  IF files[f.path] = 0 THEN f.present ELSE f.hash \notin {Unhashed, files[f.path]}}}

RefreshInspected(e) ==
    LET now == [e EXCEPT !.inspected = [i \in DOMAIN @ |-> RehashFile(@[i])]]
    IN  IF DriftedPaths(e) = {} THEN now
        ELSE ResetWorkflow(DropExcerpts([now EXCEPT !.changed = TRUE], DriftedPaths(e)))

(* read_auto_excerpt, store_automatic_excerpt: one read, its text and its hash *)
StoreAutomaticExcerpt(e, p, text) ==
    PushFileExcerpt(UpsertInspected(e, p, text, AutoRange[1] .. AutoRange[2]),
                    [path |-> p, range |-> AutoRange, text |-> text, hash |-> text])

(* the end of an observation: nothing stale, nothing drifted; of the recoveries
   only the one of ResetWorkflow is modelled *)
ClearDrift(e) == IF AnyStaleFile(e) THEN e
                 ELSE [e EXCEPT !.changed = FALSE, !.work.recovery = [active |-> FALSE, paths |-> <<>>]]

(* invalidate_command_effects of a command that names the paths it changes, or none *)
InvalidateCommand(e, affected) ==
    LET all == affected = {}
        Hit(f) == [f EXCEPT !.stale = @ \/ all \/ f.path \in affected]
    IN  DropExcerpts([e EXCEPT !.inspected = [i \in DOMAIN @ |-> Hit(@[i])], !.changed = TRUE],
                     IF all THEN Paths ELSE affected)

(* persistable: no prompt, no excerpts, no status; commands keep only their name *)
PersistableSummary(s) == IF s.tool \in {"shell", "git"} THEN [s EXCEPT !.shown = <<>>] ELSE s

Persistable(e) ==
    [e EXCEPT !.task = "", !.excerpts = <<>>, !.git = <<>>,
              !.userModified = Oldest(@, MaxUserModified),
              !.summaries = [i \in DOMAIN @ |-> PersistableSummary(@[i])],
              !.fingerprints = Oldest(@, MaxFingerprints)]

(* ContextEngine::restore, of a snapshot that an older version may have stored *)
RestoreEngine(e) ==
    [e EXCEPT !.inspected = Oldest(@, MaxInspectedFiles), !.excerpts = Oldest(@, MaxFileExcerpts),
              !.summaries = Oldest(@, MaxSummaries), !.modified = Oldest(@, MaxModified),
              !.userModified = Oldest(@, MaxUserModified),
              !.fingerprints = Oldest(@, MaxFingerprints)]

(* ---------------------------- the working set ---------------------------- *)

AddItem(items, new) ==
    LET same == {i \in DOMAIN items : items[i].path = new.path /\ items[i].role = new.role}
        more == Append(items, new)
    IN  IF same # {}
        THEN [items EXCEPT ![CHOOSE i \in same : TRUE] =
                [@ EXCEPT !.priority = IF @ < new.priority THEN new.priority ELSE @,
                          !.fresh = @ /\ new.fresh]]
        ELSE IF Len(more) > 2 * MaxWorkingSet
        THEN Oldest(SortSeq(more, LAMBDA a, b : a.priority > b.priority), MaxWorkingSet)
        ELSE more

RoleOrder == [target |-> 1, changed |-> 2, user_owned |-> 3, diagnostic |-> 4, definition |-> 5,
              relationship |-> 6, test |-> 7, evidence |-> 8]

EvidenceRole == [symbol |-> "definition", relationship |-> "relationship",
                 verification |-> "diagnostic", observation |-> "evidence"]

(* WorkingSet::from_snapshot: path roles from every part of the snapshot *)
WorkingItems(e) ==
    LET w == e.work
        Item(p, role, priority, fresh) == [path |-> p, role |-> role, priority |-> priority, fresh |-> fresh]
        Of(s, F(_)) == [i \in DOMAIN s |-> F(s[i])]
        added == Of(w.candidates, LAMBDA c : Item(c.path, IF c.evidence > 0 THEN "target" ELSE "evidence",
                                                  c.score, c.inspected /\ ~c.stale))
                 \o Of(e.modified, LAMBDA p : Item(p, "changed", 100, TRUE))
                 \o Of(e.userModified, LAMBDA p : Item(p, "user_owned", 96, TRUE))
                 \o Of(w.mutations, LAMBDA m : Item(m.path, "changed", 92, m.revision = w.revision))
                 \o Of(w.evidence, LAMBDA x : Item(x.path, EvidenceRole[x.kind], x.weight, TRUE))
                 \o Of(w.observed, LAMBDA x : Item(x.path, "evidence", 20, x.valid))
        Before(a, b) == \/ a.priority > b.priority
                        \/ a.priority = b.priority /\ a.path < b.path
                        \/ a.priority = b.priority /\ a.path = b.path /\ RoleOrder[a.role] < RoleOrder[b.role]
    IN  Oldest(SortSeq(FoldLeft(AddItem, <<>>, added), Before), MaxWorkingSet)

WorkingSetOf(e) ==
    [items |-> WorkingItems(e), revision |-> e.work.revision, phase |-> e.work.phase,
     objective |-> e.work.objective,
     blockers |-> Distinct(e.work.failures \o e.work.blockers),
     stale |-> {e.inspected[i].path : i \in {i \in DOMAIN e.inspected : e.inspected[i].stale}}]

(* ------------------------------ candidates ------------------------------ *)

(* relevant_symbol_paths *)
RelevantPaths(e) ==
    Oldest(Distinct([i \in DOMAIN e.inspected |-> e.inspected[i].path] \o e.modified \o e.work.relevant),
           MaxSymbolPaths)

(* the instructions in force for the active paths, each text once *)
AddInstruction(out, p) ==
    IF InstructionsFrom[p] = "" \/ \E i \in DOMAIN out : out[i].text = InstructionsFrom[p] THEN out
    ELSE Append(out, [path |-> p, text |-> InstructionsFrom[p]])

ScopedInstructions(e) ==
    LET active == IF RelevantPaths(e) = <<>> THEN <<0>> ELSE RelevantPaths(e)
        near == Oldest(active, MaxInstructionPaths)
        scoped[n \in 0 .. Len(near)] == IF n = 0 THEN <<>> ELSE AddInstruction(scoped[n - 1], near[n])
    IN  scoped[Len(near)]

(* the active subgoal's paths come first; all of them count *)
SubgoalPaths(e) == UNION {ToSet(e.work.subgoals[i].paths) : i \in DOMAIN e.work.subgoals}
DiagnosticPaths(e) == ToSet(e.work.diagnosed) \cup ToSet(e.work.recovery.paths)

ItemFingerprint(c) == <<c.task, c.kind, c.path, c.content, c.range, c.modified, c.stale>>

NewItem(e, kind, p, content) ==
    [kind |-> kind, path |-> p, content |-> content, range |-> <<>>, task |-> e.task,
     phase |-> e.work.phase, modified |-> FALSE, stale |-> FALSE,
     targeted |-> p \in SubgoalPaths(e), diagnostic |-> p \in DiagnosticPaths(e),
     recency |-> 0, delta |-> TRUE]

InspectedItem(e, f) ==
    [NewItem(e, "inspected", f.path, f.hash) EXCEPT !.range = f.lines, !.stale = f.stale,
                                                    !.modified = f.path \in ToSet(e.modified)]
ModifiedItem(e, p) == [NewItem(e, "modified", p, 0) EXCEPT !.modified = TRUE]
UserModifiedItem(e, p) == NewItem(e, "user", p, 0)
SummaryItem(e, s) == NewItem(e, "tool", -1, s)
ExcerptItem(e, x) ==
    [NewItem(e, "excerpt", x.path, x.text) EXCEPT !.range = x.range, !.stale = StaleIn(e, x.path),
                                                  !.modified = x.path \in ToSet(e.modified)]
InstructionItem(e, s) == [NewItem(e, "instructions", s.path, s.text)
                             EXCEPT !.targeted = FALSE, !.diagnostic = FALSE]
GitItem(e) == [NewItem(e, "git", -1, e.git) EXCEPT !.stale = e.changed]
RepositoryItem(e) == [NewItem(e, "repository", -2, "map") EXCEPT !.stale = e.changed]

(* Every item the packet could hold, in order; recency is its place. *)
PacketCandidates(e, deltaOnly) ==
    LET Of(s, F(_, _)) == [i \in DOMAIN s |-> F(e, s[i])]
        all == Of(e.inspected, InspectedItem) \o Of(e.modified, ModifiedItem)
               \o Of(e.userModified, UserModifiedItem) \o Of(e.summaries, SummaryItem)
               \o Of(e.excerpts, ExcerptItem) \o Of(ScopedInstructions(e), InstructionItem)
               \o <<GitItem(e), RepositoryItem(e)>>
    IN  [i \in DOMAIN all |->
           [all[i] EXCEPT !.recency = i - 1,
                          !.delta = ~deltaOnly \/ ItemFingerprint(all[i]) \notin ToSet(e.fingerprints)]]

(* ------------------------------- rendering ------------------------------- *)

PacketBudget(e) ==
    (IF e.work.failures # <<>> \/ e.changed \/ e.work.recovery.active THEN MaxPacket
     ELSE IF PhaseBudget[e.work.phase] < MaxPacket THEN PhaseBudget[e.work.phase] ELSE MaxPacket)
    - FixedBytes

(* what the workflow lines say *)
WorkflowFacts(e) ==
    [phase |-> e.work.phase, recovery |-> e.work.recovery,
     failure |-> IF e.work.failures = <<>> THEN <<>> ELSE <<Last(e.work.failures)>>,
     relevant |-> Newest(e.work.relevant, MaxShownPaths), modified |-> Newest(e.modified, MaxShownPaths),
     user |-> Newest(e.userModified, MaxShownPaths),
     checks |-> SelectSeq(e.work.checks, LAMBDA s : s.revision = e.work.revision)]

RecordEvery(selected) == selected

(* an item is known to the model once it was selected and not cut short *)
RecordWhole(selected) == Sift(selected, {s \in ToSet(selected) : ~s.truncated})

RecordRendered(e, selected, showsSet) ==
    LET marks == [i \in DOMAIN RecordWhole(selected) |-> ItemFingerprint(RecordWhole(selected)[i].item)]
        added == Distinct(e.fingerprints \o Oldest(marks, MaxFingerprints))
    IN  [e EXCEPT !.fingerprints =
            Newest(IF showsSet THEN Append(added, <<"working set", WorkingSetOf(e)>>) ELSE added,
                   MaxFingerprints)]

(* The finished packet is cut at its end.  That happens: an item cut short by
   the budget is written out in full, and the ranges of an inspected file are
   not in the budget. *)
WrittenBytes(item) ==
    ByteLen(item) + (IF item.kind = "inspected" /\ item.range # {} THEN RangeBytes ELSE 0)
EndsInside(selected, i) ==
    FoldLeft(LAMBDA sum, s : sum + WrittenBytes(s.item), FixedBytes, Oldest(selected, i)) <= MaxPacket

RenderPacket(e, deltaOnly) ==
    LET candidates == PacketCandidates(e, deltaOnly)
        selected == SelectContext(candidates, PacketBudget(e))
        showsSet == ~deltaOnly \/ <<"working set", WorkingSetOf(e)>> \notin ToSet(e.fingerprints)
        Marks(inside) == {ItemFingerprint(selected[i].item) : i \in
                            {i \in DOMAIN selected : ~selected[i].truncated /\ (EndsInside(selected, i) <=> inside)}}
    IN  [packet |-> [mode |-> IF deltaOnly THEN "delta" ELSE "full", items |-> selected,
                     workingSet |-> showsSet, facts |-> WorkflowFacts(e),
                     omitted |-> {ItemFingerprint(c) : c \in {c \in ToSet(candidates) : ~c.delta}}],
         whole |-> Marks(TRUE), lost |-> Marks(FALSE),
         engine |-> RecordRendered(e, selected, showsSet)]

(* render_evidence_delta: the newest excerpts of files that are not stale *)
EvidenceDelta(e) ==
    Newest(SelectSeq(e.excerpts, LAMBDA x : ~StaleIn(e, x.path)), 3)

(* -------------------------------- a turn -------------------------------- *)

PromptInit ==
    /\ files = [p \in Paths |-> 1] /\ engine = EmptyEngine /\ turn = NoTurn
    /\ packet = NoPacket /\ rendered = [whole |-> {}, lost |-> {}] /\ lookedAt = files
    /\ pushedOut = {} /\ promptCount = [events |-> 0, edits |-> 0]

(* prepare_turn *)
BeginPrompt ==
    /\ turn.pc = "idle" /\ promptCount.events < MaxPromptEvents
    /\ \E t \in PromptTasks, w \in WorkStates :
          engine' = [engine EXCEPT !.task = t,
                                   !.work = IF engine.work.recovery.active THEN @ ELSE w]
    /\ turn' = [turn EXCEPT !.pc = "look"]
    /\ promptCount' = [promptCount EXCEPT !.events = @ + 1]
    /\ UNCHANGED <<files, packet, rendered, lookedAt>>

LookAround ==
    /\ turn.pc = "look"
    /\ engine' = SetGit(RefreshInspected(engine), DirtyPaths)
    /\ lookedAt' = files
    /\ turn' = [turn EXCEPT !.pc = "attach"]
    /\ UNCHANGED <<files, packet, rendered, promptCount>>

Deliver(r) == /\ packet' = r.packet
              /\ rendered' = [whole |-> rendered.whole \cup r.whole, lost |-> rendered.lost \cup r.lost]
              /\ engine' = r.engine

(* context_packet: with a continuation only after a drift *)
AttachPacket ==
    /\ turn.pc = "attach"
    /\ IF ~turn.continuation \/ engine.changed \/ AnyStaleFile(engine)
       THEN Deliver(RenderPacket(engine, TRUE))
       ELSE packet' = NoPacket /\ UNCHANGED <<rendered, engine>>
    /\ turn' = [turn EXCEPT !.pc = "sent"]
    /\ UNCHANGED <<files, lookedAt, promptCount>>

(* the backend does not know the continuation: the turn starts over with a full packet *)
Reconstruct ==
    /\ turn.pc = "sent" /\ turn.continuation
    /\ Deliver(RenderPacket(engine, FALSE))
    /\ turn' = [turn EXCEPT !.continuation = FALSE]
    /\ UNCHANGED <<files, lookedAt, promptCount>>

StartCall == /\ turn.pc \in {"sent", "running"} /\ promptCount.events < MaxPromptEvents
             /\ promptCount' = [promptCount EXCEPT !.events = @ + 1]

(* read, first the lines ... *)
ReadLines ==
    /\ StartCall
    /\ \E p \in Paths, r \in ReadRanges :
          /\ files[p] # 0
          /\ turn' = [turn EXCEPT !.pc = "hash", !.pending = [path |-> p, range |-> r, text |-> files[p]]]
    /\ UNCHANGED <<files, engine, packet, rendered, lookedAt>>

(* ... and then the hash of the file as it is by now *)
HashFile ==
    /\ turn.pc = "hash"
    /\ LET x == turn.pending
           hash == IF files[x.path] = 0 THEN Unhashed ELSE files[x.path]
           seen == UpsertInspected(PushSummary(engine, "read", <<x.path>>), x.path, hash, x.range[1] .. x.range[2])
       IN  engine' = ClearDrift(PushFileExcerpt(seen, [path |-> x.path, range |-> x.range,
                                                       text |-> x.text, hash |-> hash]))
    /\ turn' = [turn EXCEPT !.pc = "running", !.pending = <<>>]
    /\ UNCHANGED <<files, packet, rendered, lookedAt, promptCount>>

(* a file of a read whose bytes were used up by the files before it *)
ReadNothing ==
    /\ StartCall
    /\ \E p \in Paths :
          engine' = ClearDrift(UpsertInspected(PushSummary(engine, "read", <<p>>), p, Unhashed, {}))
    /\ turn' = [turn EXCEPT !.pc = "running"]
    /\ UNCHANGED <<files, packet, rendered, lookedAt>>

(* write and patch, and the runtime's own look at what they wrote *)
AgentWrites ==
    /\ StartCall
    /\ \E p \in Paths : \E v \in Contents \ {files[p]} :
          LET wrote == DropExcerpts(RecordModifiedPath(
                          UpsertInspected(PushSummary(engine, "write", <<p>>), p, v, {}), p), {p})
          IN  /\ files' = [files EXCEPT ![p] = v]
              /\ engine' = ClearDrift(StoreAutomaticExcerpt(wrote, p, v))
    /\ turn' = [turn EXCEPT !.pc = "running"]
    /\ UNCHANGED <<packet, rendered, lookedAt>>

(* a command whose effects are known, or are not *)
CommandRuns ==
    /\ StartCall
    /\ \E p \in Paths, v \in Contents \cup {0}, known \in BOOLEAN :
          LET named == IF known THEN {p} ELSE {}
              ran == InvalidateCommand(IF known THEN RecordModifiedPath(PushSummary(engine, "shell", <<p>>), p)
                                       ELSE PushSummary(engine, "shell", <<>>), named)
          IN  /\ files' = [files EXCEPT ![p] = v]
              /\ engine' = IF known /\ v # 0
                           THEN ClearDrift(StoreAutomaticExcerpt(ran, p, v)) ELSE ran
    /\ turn' = [turn EXCEPT !.pc = "running"]
    /\ UNCHANGED <<packet, rendered, lookedAt>>

(* the developer message after a step that changed something *)
UpdateEvidence ==
    /\ turn.pc = "running" /\ packet.mode # "evidence"
    /\ packet' = [NoPacket EXCEPT !.mode = "evidence", !.items = EvidenceDelta(engine)]
    /\ UNCHANGED <<files, engine, turn, rendered, lookedAt, promptCount>>

(* a Chat Completions turn ends without a continuation *)
EndPrompt ==
    /\ turn.pc \in {"sent", "running"}
    /\ \E c \in BOOLEAN : turn' = [NoTurn EXCEPT !.continuation = c]
    /\ packet' = NoPacket
    /\ UNCHANGED <<files, engine, rendered, lookedAt, promptCount>>

(* the process ends, and the session is resumed from its last record *)
ResumeSession ==
    /\ turn.pc = "idle" /\ engine.task # ""
    /\ LET stored == RestoreEngine(Persistable(engine))
           now == RefreshInspected(stored)
           drift == DriftedPaths(stored) # {}
       IN  /\ engine' = now
           /\ turn' = [turn EXCEPT !.continuation = @ /\ ~drift]
    /\ lookedAt' = files
    /\ UNCHANGED <<files, packet, rendered, promptCount>>

UserEdits ==
    /\ promptCount.edits < MaxPromptEdits /\ turn.pc \in {"idle", "hash"}
    /\ \E p \in Paths : \E v \in (Contents \cup {0}) \ {files[p]} : files' = [files EXCEPT ![p] = v]
    /\ promptCount' = [promptCount EXCEPT !.edits = @ + 1]
    /\ UNCHANGED <<engine, turn, packet, rendered, lookedAt>>

ContextNext ==
    /\ \/ BeginPrompt \/ LookAround \/ AttachPacket \/ Reconstruct \/ ReadLines \/ HashFile
       \/ ReadNothing \/ AgentWrites \/ CommandRuns \/ UpdateEvidence \/ EndPrompt
       \/ ResumeSession \/ UserEdits
    /\ pushedOut' = (pushedOut \cup (InspectedPaths(engine) \ InspectedPaths(engine'))) \cap ExcerptPaths(engine')

PromptSpec == PromptInit /\ [][ContextNext]_contextVars

(* ------------------------------- properties ------------------------------- *)

TurnPacket == turn.pc = "sent" /\ packet.mode \in {"delta", "full"}

(* What a delta leaves out was selected in full for an earlier packet: with
   the same task, content and marks, and never as an item that was cut short
   (render_internal, rendered_fingerprints); also when the session was stored
   and resumed in between.  Whether the final cut took it is not looked at. *)
OmittedWasGiven ==
    TurnPacket => packet.omitted \subseteq rendered.whole \cup rendered.lost

(* the excerpts that a packet marks [current] *)
ShownExcerpts == {packet.items[i].item : i \in {i \in DOMAIN packet.items :
                    packet.items[i].item.kind = "excerpt" /\ ~packet.items[i].item.stale}}

(* An excerpt that a packet calls current shows the file as this turn's look
   at the workspace found it, when the file was never pushed out of the list of
   inspected files and the excerpt's hash is that of its own text: nothing the agent wrote,
   ran or re-read, and no edit of the user, leaves an older excerpt behind
   (upsert_inspected, refresh_against_workspace, invalidate_command_effects). *)
OwnHashIsCurrent ==
    TurnPacket => \A x \in ShownExcerpts :
        (/\ x.path \notin pushedOut
         /\ \E k \in DOMAIN engine.excerpts : /\ engine.excerpts[k].path = x.path
                                              /\ engine.excerpts[k].text = x.content
                                              /\ engine.excerpts[k].hash = x.content)
        => x.content = lookedAt[x.path]

(* The inductive invariant behind both. *)
Hashes == Contents \cup {Unhashed}
InspectedFile == [path : Paths, hash : Hashes, lines : SUBSET Int, present : BOOLEAN, stale : BOOLEAN]
FileExcerpt == [path : Paths, range : ReadRanges \cup {AutoRange}, text : Contents, hash : Hashes]
ToolSummary == [tool : {"read", "write", "shell"}, shown : Seq(Paths)]

EngineOK(e) ==
    /\ DOMAIN e = DOMAIN EmptyEngine
    /\ e.inspected \in Seq(InspectedFile) /\ e.excerpts \in Seq(FileExcerpt)
    /\ e.modified \in Seq(Paths) /\ e.userModified \in Seq(Paths) /\ e.summaries \in Seq(ToolSummary)
    /\ {"phase", "relevant", "recovery"} \subseteq DOMAIN e.work /\ e.work.relevant \in Seq(Paths)
    /\ \A i, j \in DOMAIN e.inspected : e.inspected[i].path = e.inspected[j].path => i = j
    /\ \A i \in DOMAIN e.inspected : e.inspected[i].present \/ e.inspected[i].stale

(* what is recorded as shown was given, or is the mark of a working set *)
RecordedIn(e, given) ==
    /\ e.fingerprints \in Seq(ToSet(e.fingerprints))
    /\ \A i \in DOMAIN e.fingerprints : e.fingerprints[i] \in given \/ Len(e.fingerprints[i]) = 2

(* an excerpt with a hash of its own text has the hash its file was last seen with *)
HashedAsInspected(e, except) ==
    \A k \in DOMAIN e.excerpts :
        e.excerpts[k].text = e.excerpts[k].hash /\ e.excerpts[k].path \notin except =>
            \E i \in DOMAIN e.inspected : /\ e.inspected[i].path = e.excerpts[k].path
                                          /\ e.inspected[i].hash = e.excerpts[k].hash

(* what a look at the workspace found stays what a packet may be made of *)
AsLookedAt(e) ==
    \A i \in DOMAIN e.inspected : e.inspected[i].stale \/ e.inspected[i].hash = lookedAt[e.inspected[i].path]

ContextTypes ==
    /\ {files, lookedAt} \subseteq [Paths -> Contents \cup {0}]
    /\ EngineOK(engine) /\ DOMAIN turn = DOMAIN NoTurn
    /\ turn.pc = "hash" =>
          turn.pending \in [path : Paths, range : ReadRanges \cup {AutoRange}, text : Contents]
    /\ DOMAIN rendered = {"whole", "lost"}

ContextInv ==
    /\ ContextTypes
    /\ RecordedIn(engine, rendered.whole \cup rendered.lost)
    /\ packet.mode \in {"delta", "full"} => packet.omitted \subseteq rendered.whole \cup rendered.lost
    /\ HashedAsInspected(engine, pushedOut)
    /\ turn.pc \in {"attach", "sent"} => AsLookedAt(engine)
    /\ TurnPacket => \A x \in ShownExcerpts : ~StaleIn(engine, x.path)
==============================================================================

# AETHER Fx: TLA+ models, checks and proofs

AETHER Fx is a coding agent for the terminal, written in Rust (`crates/`). A user writes prompts
into a terminal UI; each prompt is a *turn* of an agent that talks to a model backend, executes the
tools the model asks for under the user's permission, and records every turn in a session journal
that a later process can resume. This directory holds TLA+ models of the parts of that program
whose correctness depends on order, on failure or on concurrency, the TLC configurations that check
them on small instances, and TLAPS proofs of the central results for every value of the constants.

## 1. Inventory

The program runs on one current-thread Tokio runtime; slow file work runs in `spawn_blocking`
threads, child processes have reader tasks of their own. Concurrency is therefore between tasks at
their `await`s, between threads of blocking tools, between the user and all of these, and between
this process and others that use the same workspace.

| Component | State | Operations | Interacts with | Hard part |
|---|---|---|---|---|
| Interactive shell (`aether/main.rs`) | agent, store, session id, context seed, running turn, cancellation token | prompt, model and session selection, `/clear`, `/exit`, finishing a turn | screen (`TuiAction`), agent (task, event channel), broker, journal | screen and runtime disagree after a cancel; half-finished set-up; leaving while a turn runs |
| Terminal UI state (`aether-tui`) | composer, queue of at most 8 prompts, busy flag, overlays | keys in, typed actions out; applies agent events | shell | queue and busy flag against the real turn |
| Agent loop (`aether-agent/agent.rs`) | context engine, conversation, step and blocked counters | request, stream, run tools, observe, finish or feed back | backend, scheduler, policy | termination, stale evidence, one retry |
| Tool scheduler (`scheduler.rs`) | prepared calls, results, current batch | prepare, ask, select batch, run, report | broker, tools, event channel | order of conflicting calls; cancellation at every await |
| Permission broker (`permission.rs`) | pending requests, session grants | register, wait, resolve, forget | scheduler, shell | a dropped channel, a late answer, a stale request |
| Write and patch tools (`write.rs`, `patch.rs`, `common.rs`) | files, staged files, backups | resolve, lock, read, stage, check, install, roll back | mutation locks, file system, other processes | check-then-act on files; all-or-nothing over several files |
| Mutation locks (`common.rs`) | table of weak references to mutexes | look up or create, lock in key order, unlock, clean up | write and patch | a lock dropped from the table while someone has it; lock order |
| Session journal (`session.rs`, `session_fs.rs`) | one JSONL file per session, next sequence number | open, append, compact, replay, restore | shell | torn writes, crash inside compaction, limits, replay of a damaged file |
| Process registry (`process.rs`, `common.rs`) | at most 16 children, output buffers | start, read, write, signal, kill, status, shutdown | tools, shell | failed termination, a full table after the spawn, futures dropped at any await |
| Workflow, work and decision state, policy, guardrails (`workflow.rs`, `work.rs`, `decision.rs`, `policy.rs`, `guardrails.rs`) | phase, obligations, failures, evidence | observe a result, gate a mutation, may the turn finish | agent loop, context engine | a turn that finishes with unverified changes |
| Context engine (`context.rs`, `working_set.rs`, `context_selection.rs`) | inspected files with hashes and staleness, excerpts, fingerprints of what was shown | observe, refresh, select, render | agent loop, journal | stale evidence taken for current; deltas that leave out what was never shown |
| Repository map, symbol index (`repo_map.rs`, `symbol_index.rs`) | cached map behind a stamp, bounded index of symbols and relations | snapshot, select, look up | git, planner, context | files and index change while they are read; eviction |
| Planner, verification planning (`planner.rs`, `verification.rs`) | none beyond a step | answer a batch by one observation; plan checks | map, context, policy | limits that cut off what was asked for |
| Obscura supervisor (`aether-obscura/lib.rs`, `protocol.rs`) | child process, request ids, health, storage to restore | launch, call with timeout, stop, detach | tools, shell | late answers, half frames, a child that dies, a save that fails |
| Obscura installation (`install.rs`) | directory, backup, staging, lock | inspect, download, extract, activate | shell, other processes | kills between two renames |
| Updater (`updater.rs`) | executable, lock file, temporaries | lock, clean up, download, verify, replace, hand over on Windows | file system, other updaters | a lock file that is removed, temporaries of others |
| Private files (`session_fs.rs`, `calendar.rs`, `config.rs`) | directories, metadata, appointments, configuration | prepare, read, replace | shell, other processes, editor | no lock, kills between write and rename |
| Credential helper (`config.rs`) | command, reader thread, deadline | run, read, judge | shell | output that goes on after the command's end |
| Rainy backend (`aether-rainy`) | catalogue, refused models, stream adapters | list, request, adapt | agent, provider | events in any order, a stream that breaks off, a receiver that is gone |
| Command analysis, line terminal, web demo, evaluation | pure, or apart from the program | | | see section 5 |

What makes each of the modelled parts correct:

* *Journal*: a turn that was acknowledged is found again by the next resume as long as it is among
  the newest `MAX_STORED_TURNS`; resuming never goes back to an older turn; a file that cannot be
  read is never rewritten; nothing the store itself writes makes the file unreadable while there is
  room.
* *Locks*: two operations never hold one key; everyone is served.
* *Write and patch*: calls on one path are serialized; a patch over several files is all or nothing,
  and nothing staged is left behind; a file is replaced only as it was read, and a creation never
  replaces; a change that was reported survives the others.
* *Scheduler and broker*: no tool that needs consent runs without the user's yes to that very call
  or to its scope; conflicting calls keep the model's order; only the user denies; a step and its
  cancellation come to an end; the broker forgets a step that is over.
* *Agent loop, workflow, policy, context engine*: work completes only after every command planned for
  it has succeeded since the last change; a native write replaces only content the agent was given
  last; a turn that changed a file of the user's does not complete; every turn ends; what is
  recommended is offered; a call that keeps failing is cut off; what a prompt calls current is, and
  what it leaves out was given before.
* *Work ledger*: units never wait for each other in a circle; a criterion counts as satisfied only by
  a check since the last change.
* *Map, index, planner*: an answer describes the workspace as it was at some moment of the call, its
  relations are those of the files it retains, and limits do not cut off what a plan is for.
* *Provider*: a response that is done is whole; a call that its stream names alike is reported once; a
  model refused tools is not asked with them again.
* *Shell*: every turn is recorded; what a turn learned reaches the next one; a queued prompt is taken.
* *Children*: a process that AETHER started is owned until it is ended; a clean shutdown leaves none;
  what is read is what was written; an answer belongs to its request; a stop reports what it did;
  calls end, except where they write to a child that reads no more.
* *Installed files*: whatever is killed, the executable and the browser are whole and verified, a
  reported installation stays, and what was confirmed to the user is kept.

`PROJECT.json` lists every component, and under `hazards` what in this code is hard to test, at the
line where it bites, with the properties that cover it.

## 2. Modules

| Module | Models | Kind |
|---|---|---|
| `SessionLog` | what a session store promises | abstract specification |
| `SessionJournal` | `SessionStore` and the file under it | detailed specification |
| `MCSessionJournal` | instance for TLC | |
| `SessionJournalProofs` | | proofs |
| `KeyLocks` | a lock per key | abstract specification |
| `MutationLocks` | `PathMutationCoordinator` | detailed specification |
| `FileMutation` | the write and patch tools over the coordinator's locks | specification |
| `MCFileMutation` | `MutationLocks` and `FileMutation`, and the operations TLC tries | instance |
| `MutationProofs` | | proofs, of both |
| `ToolStep` | scheduler, broker, footprints and the shell's part in them | composition of agent task, shell task, tool threads and user |
| `TurnShell` | event loop, screen, sessions, seeds; uses the journal as a list of records and the agent as an outcome | composition |
| `ToolStepProofs` | | proofs, of both |
| `MCToolStep` | `ToolStep` and `TurnShell`, and the steps TLC tries | instance |
| `Workflow` | `WorkflowState`, as operators on one record | operators |
| `AgentLoop` | `run_with_broker` with context engine, gate and workflow, in a workspace the user edits too | composition |
| `AgentLoopProofs` | | proofs |
| `MCAgentLoop` | files, plans and answers of the model that TLC tries | instance |
| `ProcessRegistry` | persistent processes, their table, buffers and termination | specification |
| `BrowserSession` | `ObscuraSupervisor`, its JSON-RPC channel and the stored browser state | specification |
| `CredentialHelper` | `helper_key`: command, reader thread, deadline | specification |
| `MCChildProcesses` | the three modules above | instance |
| `ChildProcessProofs` | | proofs, of all three |
| `Updater` | `aether update`, several at a time, with the helper on Windows | specification |
| `Installation` | installation of the pinned Obscura by several processes | specification |
| `PrivateFiles` | directories, metadata, appointments, configuration | specification |
| `LocalStateProofs` | | proofs, of all three |
| `MCLocalState` | `SessionJournal` and the three modules above | instance |
| `SymbolNavigation` | masking, tokens, symbols, relations and the bounded index | operators |
| `Lists` | the bounded lists of the context and the repository map | operators |
| `RepositoryMap` | inventory, cache, manifests and selection, with `SymbolNavigation` as its index | composition |
| `RepositoryPlan` | planner and verification planning, over `RepositoryMap` | composition |
| `WorkLedger` | `WorkState`: objective, criteria, units, blockers | specification |
| `CodingPolicy` | phase, recovery, decision, guardrails and policy, over `Workflow` | composition |
| `ContextSelection` | score and budget of context items | operators |
| `PromptContext` | context packets, over `ContextSelection` | composition |
| `RainyBackend` | catalogue, requests and the two stream adapters | specification |
| `ContextProofs` | | proofs, of `RepositoryMap` with `SymbolNavigation`, of `RepositoryPlan`, and of `PromptContext` |
| `ModelEvidenceProofs` | | proofs, of `WorkLedger`, `RainyBackend` and `CodingPolicy` |
| `MCModelEvidence` | the modules from `RepositoryPlan` to `RainyBackend` | instance |

An instance of several modules that share no state (its parts) has a variable `part`: a behaviour is
one of a single part, which `Init` chooses, while the variables of the others keep an initial value.
The run explores the union of the parts' state spaces, not their product, and every property is one
of a single part: it says nothing of the others, whose state does not move. Modules that do interact
are composed by `EXTENDS` and shared variables, as the table says.

`AgentLoop` takes the native write's comparison and replacement as one step, which `FileMutation`
models in detail, and the order of a step's calls as a relation of conflicts, which `ToolStep`
derives from footprints. `FileMutation` uses the locks as `KeyLocks` describes them (a key is free or held), which
`MutationLocks` is shown to implement; `TurnShell` uses the journal as the record list that
`SessionLog` keeps, which `SessionJournal` is shown to implement.

### Session journal

`file` is the session file: its turn records and its markers with their line numbers and sizes,
what follows the last newline (nothing, a torn piece, or a whole record without its newline),
whether some terminated line is not a record, and its length. One action per operation of
`SessionStore`: `Start` and `Resume`/`Reopen` open a store, `AppendStarted`, `AppendTurn`,
`AppendFinished` encode a line (and may compact first), `Compact` rewrites the file through a
temporary file and rename, `WriteLine` writes and syncs, `Verify` replays, and each has its failure
(`RefuseTurn`, `CompactFails`, `WriteFails`, `VerifyFails`). `Crash` may come between any two of
them, and a write that fails or crashes leaves any prefix of its bytes. Sizes are numbers of bytes
in units that keep the order of the real limits; content is the turn's number.

### Mutation locks

`table` maps keys to lock objects; a worker keeps strong references to the locks it has found. A
lock that nobody references is dead, and an upgrade of its weak reference fails, so that `Find`
makes a new one. `Forget` is the removal in `Drop`, with its test of the strong count.

### Write and patch

`disk` maps a path to its content or to a symbolic link, `Links` are the links at the start. A call
runs `Begin`, `Resolve` (the keys), `Lock` (one by one), `Prepare` (read and hash), `Stage`,
`Check`, `Install` (rename, or exclusive link for a creation), and on failure `Restore` in reverse
order, with `Release` at the end. `FailEarly`, `FailCommit` and `RestoreFails` are the error
returns, `ChangeOutside` is another process that writes a file, at any time. The content of a file
is the set of edits that made it, so that a lost edit shows.

### Tool step

The agent's task, the shell's task, tool threads and the user, connected by the bounded event
channel, by the broker's table and by the cancellation token. A call has a permission scope, a gate
verdict and a footprint of reads and writes over resources that are sequences (a prefix contains
what it is a prefix of), as `resources_overlap` has it. Every `await` of the scheduler is a place
where cancellation may win (`StopAt`, `StopAtSelect`, `StopAtRun`, `Abandon`).

### Turn shell

The state of `Runtime` (agent, store, session, seed), of the screen (composer, queue, busy) and of
the running turn. What a turn learns is the turn itself, so a context is a set of turns, and the
journal is the sequence of turn records of each session with what they know. Failures of the
surroundings (opening a store, appending, drawing) happen at every place the code returns an
error, at most `MaxFaults` times.

### Agent loop and workflow

`Workflow` is the record a completion is judged by: the revision (number of observed mutations), the
verification steps of the plan with the revision they belong to, the aggregate verification status,
the ledger's verifications of the current revision, the keys of unresolved failures, and the relevant
and inspected files. Its operators are the methods of `WorkflowState`.

`AgentLoop` keeps the workspace (`fs`), the context (`ctx`: inspected files with hash, staleness and
presence, modified and user-owned paths, the workflow) and the place in the loop (`pc`). A turn is
`StartTurn`, `RefreshTurn`, then for each step `Top` (step limit), `ModelAnswers` (the gate, against the
context as it is before the step) or `InvalidContinuation` or `BackendError`, `Execute` (one call at
a time, in an order the conflicts allow), `ConsumeResult` (`Observe` is `observe_with_effects`),
`AutoVerify` after a change, `EndStep`; an answer without calls goes through
`RefreshBeforeCompletion`, `CaptureGit` and `FinishTurn` instead. `UserEdit` may come between any two of
these and `Cancel` wherever the loop waits. A content stands for its hash. `seen`, `wrote`, `passed`
and `owned` are history: what the agent was shown, what it changed, what succeeded since, what was
the user's before it began.

Abstractions: repository mode only. The planner's batches (`RepositoryPlan`), the model's outline of
work (`WorkLedger`), the guardrails and the decision state (`CodingPolicy`) and the limits of the
context's lists (`PromptContext`) have modules of their own; here a planned read is a read of the same
file, the task has no subgoals, the refusal of a failure that repeats, like the user's denial, is one
that any call may meet, and no list of files or failures is full. At most two calls per answer, so
results come in call order; the plan of commands is any function of the modified files, and a command
is a name. `read` takes its bytes and its hash in two looks at the file; here it is one.

### Persistent processes

`ProcessRegistry` has the operating system's view of each child (`child`), the registry (`table`), the
child's mutex, the drain task with its buffer, and per slot of a batch the place in its call. `start`
spawns first and asks for a place afterwards, as the code does; a termination that fails leaves its
process in the table, and a process that found no place is killed when its handle is dropped. `DropBatch` is the cancellation that drops the futures of a batch at
any of their awaits; `BeginShutdown` takes a snapshot of the table, which the following steps work on. `Stubborn` processes cannot
be killed. Bytes are numbered as the process wrote them, so that a lost, repeated or moved byte shows.

### Browser

`BrowserSession` has the provider's process, the two directions of its pipe (`requests`, `frames`), the
supervisor's connection, flags and pending storage, the stored file with its temporaries, and one task
at a time: a launch, a call, a stop or a detach, each with the awaits at which a cancelled turn drops it. The provider
answers in order, late, with an error, with a frame that is too long, or dies; `Crash` kills AETHER. It may also
stop reading its input for good (`deaf`): a request is written (`WriteFrame`) before its response is awaited, and
`write_frame` (`protocol.rs:309`) has neither a timeout nor a look at the cancellation flag. A frame for such a provider
may still fit into the pipe (`WriteUnread`), or wait.

### Credential helper

`CredentialHelper` has the command, a process it may leave behind with the pipe, the reading thread and
the polling loop with its deadline. A key is the number of bytes it has.

### Installed files and private state

`Updater` has several updaters of one executable: each takes the lock by opening a path and locking what
it has opened (`lockPath` and `inodes` tell a lock file from the one that has taken its place), cleans up, picks a
release, stages, verifies and replaces; on Windows the helper process takes over. `Installation` has several
processes in the fixed directory: inspection, download, extraction member by member, the check of the
staged version, two renames with a backup. `PrivateFiles` has the chain of directories, the metadata
file, the appointments and the configuration, with no lock between processes. In all three a process may be
killed at every step, and what it leaves stays on disk for the others.

### Repository map, symbols and planner

`SymbolNavigation` is `symbol_index.rs` as operators: masking of comments and literals, the token
machine with its brace scopes, the merge of a file's symbols and relations into an index of bounded
size, and its lookups. A source is a sequence of tokens. `RepositoryMap` composes it with the files, the
git index and the cache: a snapshot is taken file by file, so that an edit may come between two looks,
and cached behind the stamp of the index file and the digests of the special files. `RepositoryPlan` adds the planner (a batch
of calls, the files chosen for them, the cuts of one observation, and the results that answer the calls from it)
and the verification plan for a set of modified files. In the planner a line is a byte, and an excerpt has the lines
of its text beside the range it is kept under, so that a text that was cut can be told from a whole one. The 16 KiB of one
observation (`MAX_PLANNER_OBSERVATION_BYTES`) are left out: they are four excerpts of 4 KiB each, and no plan has more. Scores of paths and of texts are constants; Cargo and JavaScript manifests are modelled.

### Work ledger, policy and context

`WorkLedger` is `WorkState` with its bounded lists; a prompt is what the code recognizes in it, and an
outline of the model has subgoals with dependencies.

`CodingPolicy` extends `Workflow` with phase, recovery, decision state and guardrails; one action
checks a batch of calls and folds their results in order, as the agent loop does. A call lists, searches, reads, writes,
asks git, or runs a check; a listing, a search and a read report any files of their scope, or none (`Reports`), so that a result
may settle a change (`SettleChange`) without a file that becomes relevant. A look at the workspace finds inspected files
that differ (`Looked`); the look of a process that resumes a session may find that its root is another one, with
or without a file that differs (`Resumed`, `context.rs:423`).

`PromptContext` is
the engine's snapshot, the refresh against the files, and the packet: what is selected
(`ContextSelection`), left out because it was shown before, compacted and cut. A fingerprint is the tuple that
is hashed. `rendered`, `lookedAt` and `pushedOut` are history: what packets held in full, the files as the
last look found them, and the files that left the bounded list of inspected files while an excerpt of them stayed.

### Provider

`RainyBackend` has the catalogue and its cache, the models that were refused tools, the request of a
step, and the task that turns a stream into model events on a bounded channel. A stream is any sequence of
events, in any order, that may break off; the agent reads the channel or drops it. Text is a sequence
of pieces of which some are JSON documents. An event names a call by a `call_id`, by an `item_id` or `id`, by both, by
neither, or by an empty string, as `event_string` tells them apart; the adapter knows no more of a call than that identifier. A
chunk of Chat names it by an index, and by the provider's id in some of the pieces. `opened`
and `named` are history: what the stream has begun, and under which identifiers it has named what.

## 3. Runs

| Run | Module, configuration | Result | What it shows |
|---|---|---|---|
| `local_state` | `MCLocalState`, `MCLocalState.cfg` | holds | newest turns kept, room means readable, the journal implements `SessionLog`; the executable and the browser are whole and verified, stay installed and leave no temporary behind; confirmed appointments are kept |
| `session_torn` | `MCSessionJournal`, `MCSessionTorn.cfg` | violated | a torn record is glued to the next append and the file becomes unreadable, although "Partial writes of this record are ignored on replay" |
| `file_mutation` | `MCFileMutation`, `MCFileMutation.cfg` | holds | the mutexes implement `KeyLocks` and everyone is served; changes are all or nothing, survive the others, and replace what was read |
| `file_links` | `MCFileMutation`, `MCFileLinks.cfg` | violated | with a symbolic link as destination, the rename changes what the key meant: two calls hold different locks for one path |
| `turn` | `MCToolStep`, `MCToolStep.cfg` | holds | consent, model order, every started step ends; every turn is recorded, nothing learned is forgotten, queued prompts are taken |
| `tool_leave` | `MCToolStep`, `MCToolLeave.cfg` | violated | leaving the shell while the event channel is full: shell and agent wait for each other |
| `turn_prompt` | `TurnShell`, `MCTurnPrompt.cfg` | violated | Enter between Esc and the end of the cancelled turn loses the prompt |
| `agent_loop` | `MCAgentLoop`, `MCAgentLoop.cfg` | holds | completed work was verified since the last change, user-owned files, writes replace what was given, every turn ends |
| `agent_unobserved` | `MCAgentLoop`, `MCAgentUnobserved.cfg` | violated | a planned check that is only started as a background process counts as passed |
| `agent_repair` | `MCAgentLoop`, `MCAgentRepair.cfg` | violated | after a second change, verified in full, the stale steps of the first keep completion from being accepted |
| `child_processes` | `MCChildProcesses`, `MCChildProcesses.cfg` | holds | nothing runs unowned, a clean shutdown leaves nothing, what is read is what was written, answers match requests, a stop tells the truth; process calls end, and so does browser work unless it writes to a provider that reads no more |
| `model_evidence` | `MCModelEvidence`, `MCModelEvidence.cfg` | holds | a map is of this call, relations are of retained files, plans keep their purpose; the outline stays acyclic, satisfied was checked; the recommended is offered, failures are cut off; the omitted was given, an excerpt with the hash of its own text is current; done is the whole response, with each call once for each identifier it was given; tools are refused once |

A run marked *violated* checks one sentence of a document, a comment or an assertion of the
repository; `findings` in `PROJECT.json` quotes the sentence and describes the behaviour TLC finds.

Every property of a run that holds has a mutant: an operator next to the original, marked
"A bug:" or "Mutant:", that changes it the way a slip in the code would, and under which TLC finds the
property violated. Beside the properties of the runs, the proofs establish some that no run lists
(section 4).

### Bounds, and why they are enough

Many limits of the code are set to one or two here, so that lists overflow, evictions happen and
buffers are full within the few steps that a run can take.

* Journal: turns of size 2 and 3, a mark of size 2, `MaxFileBytes` 18, `MaxLines` 5,
  `MaxStoredTurns` 2, `MaxTurns` 4. Both the byte limit and the line limit trigger compactions, a
  compaction drops turns, and torn pieces of every length occur. `MaxSequence` 7
  bounds only the numbering.
* Locks: two workers, three keys and four lock objects: every pair of key sets overlaps in every
  way, and a key's lock can be replaced while the old one is still held by the other.
* Files: two calls out of seven operations on two paths with one outside change per path;
  three calls and one link in `MCFileLinks.cfg`, the least with which the links go wrong.
* Tool step: every step of three calls out of four kinds, and longer or mixed ones;
  `MaxParallel` 2 (of 4 in the code) so that a batch can be full with calls left over; channel
  capacity 2 (of 64) so that it fills up.
* Agent loop: one committed file and one that is not there yet, two contents, two commands of which
  one is planned only for the first file; eight answers (none, reads, writes there and back, a write
  beside its check, a removal beside a read, a creation, git), two turns of two steps, one edit of
  the user, two blocked completions (of three), two results without progress (of six). A turn can change
  a file, be verified, meet an edit, be blocked and be continued in the next; the step limit, the block limit
  and the stall limit all end turns. `MaxVerifications` 3 (of 16) is less than two plans have, so old
  steps are dropped; in `MCAgentRepair.cfg` it is 4, so none is.
* Turn shell: three prompts, queue of two (of eight), two sessions, one fault: a full queue, a
  resumed session after another one, and a fault at every place that can fail.
* Processes: a registry of one place (of 16) with two processes, of which one prints three bytes into a buffer
  of two and the other cannot be killed; two slots and three calls: a start meets a full table,
  a read meets dropped bytes, and a shutdown meets every call halfway.
* Browser: four tasks, one site, two versions of its storage, one crash: a restored state can be changed, saved,
  lost to a crash and restored again; the provider may go deaf at any write. Credential helper: three bytes where two are allowed.
* Updater: two users, six releases on two pages with drafts among them, three starts, one kill, on Windows and elsewhere: an
  updater can be killed and two others meet what it left. Installation: two processes, six archives,
  three attempts, one death. Private files: two shells one after the other or at once, five drafts, three operations.
* Map and planner: five files, of which four fit the inventory and one the index; one rewrite, one edit of the git
  index, two calls, lookups of three with a fan-out of two; a plan of two files, two actions and twelve
  bytes, so that each of the three limits cuts; ranges are cut behind the second line (`MaxRangeLines`), one
  batch asks for more, and one of the five contexts retains an excerpt whose text was cut.
* Work ledger: four subgoals, two criteria, two checks, one blocker, five updates: a prompt, two outlines, a change and a check fit. Policy:
  two paths, four results, recovery after two without progress (of six); batches of a read, of a search, of a write before
  `git status`, and of two checks; one path is related to what the task names, so that it is relevant before it is looked at.
* Prompt context: one inspected file and two excerpts kept, six fingerprints, four turns or calls, one edit of the user; the
  packet is cut at ten units.
* Provider: streams of three events besides their end, a channel of one place, two requests: enough for a call that
  begins, is filled and completed, for a repeated or foreign one, for one that is named by item and then by call, and for
  a refusal with its repetition. Two calls, two identifiers; one call is named in four ways (`MCNamings`).

### Fairness

* `MutationLocks`: weak fairness of each worker's own steps (a blocking thread runs on) and strong
  fairness of getting a mutex that is free again and again, as the operating system's mutexes
  give it.
* `ToolStep`: weak fairness of the agent's task, of the shell's receive and of dropping a request:
  the runtime polls a task that can go on. The user and the tools owe nothing, so the liveness
  results are conditional on an answer or a cancellation, and on tools that end, where they need to be.
* `TurnShell`: weak fairness of the agent's task, and of the branches of the shell's own loop. The
  user owes nothing.
* `ProcessRegistry`: weak fairness of each call's own steps, of the deadlines of its waits, of a dropped
  batch and of the shutdown's steps: tasks are polled and timers fire. Processes owe nothing: they need not print, read, or end.
* `BrowserSession`: weak fairness of the task at work, whose waits for a response or an exit have timeouts. The write of a
  frame is fair only while the provider reads, or when it is gone; towards one that reads no more it may wait forever, and
  `BrowserWorkEnds` says of an operation that does not end that it waits there. The provider owes nothing.
* `AgentLoop` has no fairness. That a turn ends is the action property `TurnsAreBounded`: each step
  of a turn lowers a triple of naturals (steps and continuation left, stage, work of the stage) in
  lexicographic order, so a turn has finitely many steps whatever answers come. Both that each step
  lowers the triple and that it stays one of naturals are theorems.
* The other modules have no liveness property: their operations are synchronous, or may wait for a
  lock, a network or a user without a limit that the code sets.

## 4. Proofs

| Module | About | Theorems |
|---|---|---|
| `SessionJournalProofs` | the journal | `IndInvHolds`, `NewestTurnsAreKept`, `NothingIsRolledBack`, `CorruptFilesAreLeftAlone`, `StoreImplementsLog`, `RoomInvHolds`, `RoomIsEnough` |
| `MutationProofs` | mutation locks | `IndInvHolds`, `UsersFindOneLock`, `OneHolderPerKey`, `CoordinatorImplementsKeyLocks` |
| | write and patch | `CallsInvHolds`, `CallsAreAtomic`, `PatchesStay`, `OnlyWhatWasRead`, `DestinationsAreSerialized`, `CallsUseKeyLocks` |
| `ToolStepProofs` | scheduler and broker | `IndInvHolds`, `ToolsRunWithConsent`, `ConflictsKeepModelOrder`, `OnlyTheUserDenies`, `BrokerForgetsTheStep` |
| | the interactive shell | `ShellInvHolds`, `TurnsAreRecordedOnce`, `LearnedIsKept` |
| `AgentLoopProofs` | the agent loop | `LoopInvHolds`, `UsersFilesAreSafe`, `WritesAreOfGivenContent`, `CheckInvHolds`, `CompletionIsVerified`, `BoundInvHolds`, `EveryTurnIsBounded`, `WhatATurnUsesIsNatural` |
| `ChildProcessProofs` | persistent processes | `RegistryInvHolds`, `ProcessesAreOwned`, `ShutdownIsComplete`, `OutputIsReadInOrder` |
| | the browser | `BrowserInvHolds`, `BrowserAnswersMatch`, `StopsAreTruthful` |
| | the credential helper, and all children | `HelperInvHolds`, `ChildrenAreReadWhole` |
| `LocalStateProofs` | private files | `FilesInvHolds`, `AppointmentsAreKept`, `OneShellLosesNothing` |
| | the installation of Obscura | `InstallInvHolds`, `InstallationStays` |
| | the updater | `UpdaterInvHolds`, `ExecutableIsVerified`, `TemporariesAreRemoved` |
| `ContextProofs` | the repository map and its symbol index | `MapInvHolds`, `MapsAreOfTheirCalls`, `RelationsAreRetained` |
| | the planner and the verification plan | `PlanInvHolds`, `PlansKeepTheirs` |
| | the prompt's context | `ContextInvHolds`, `NothingNewIsOmitted`, `CurrentExcerptsAreCurrent` |
| `ModelEvidenceProofs` | the work ledger | `LedgerInvHolds`, `CriteriaAreEarned`, `OutlineInvHolds`, `OutlinesStayAcyclic` |
| | the Rainy adapter | `RainyInvHolds`, `DoneMeansWhole`, `RefusalsAreRemembered` |
| | the coding policy | `AdviceInvHolds`, `AdviceCanBeFollowed`, `CutOffInvHolds`, `RepetitionIsCutOff` |

`PROJECT.json` says of each of these theorems, except the invariants `CutOffInvHolds` and `PlanInvHolds`, what it
establishes and which checked property it states: 35 of them state one. The others are the main inductive invariants (`...InvHolds`), what they imply beyond the runs
(`NothingIsRolledBack`, `CorruptFilesAreLeftAlone`, `UsersFindOneLock`, `OneHolderPerKey`, `OnlyTheUserDenies`,
`BrokerForgetsTheStep`, `OneShellLosesNothing`, `WhatATurnUsesIsNatural`), the refinements, and two results that need an
assumption which a run shows to be needed.

### Assumptions

The theorems hold for every value of the constants under the named assumptions of the modules that
declare them (`ASSUME`, evaluated by TLC in every run of an extending module). Most are types and
bounds. Those that say something of the world:

* `PublisherAssumption` (`Updater`): where a release's checksum file names the binary, it is the binary that was
  published. Of what the network delivers nothing is assumed: that is what the updater checks.
* `PathsAssumption`, `OpsAssumption` (`FileMutation`): a link leads to a path that is no link, a write has one
  destination, a patch at least one: what the tools' parsers let through.
* `LoopAssumption` (`AgentLoop`): what is planned for a set of files is a list of at most `MaxVerifications`
  commands, and neither `git` nor a read is one.
* `PromptsAssumption`, `OutlinesAssumption` (`WorkLedger`): a prompt's criteria and an outline's units are lists.
* `PlanAssumption` (`RepositoryPlan`): a read names one range of lines or none, as the policy makes its targets from a
  call (`policy.rs:118`).
* `NoOneAssumption` and the like: the value that stands for "nobody" is not the name of anybody.

Two groups of theorems have hypotheses of their own, each with a run that shows what happens otherwise:

* The theorems about `FileMutation` are for a workspace without symbolic links (`DOMAIN Links = {}`). With one, two
  names of a file have two keys, and the run `file_links` shows two calls on one file at once.
* `CheckInvHolds` and `CompletionIsVerified` are for answers that start no check in the background, and put none
  behind a shell command of the same answer, whose effects it need not see (`Foreground`). Otherwise the
  claim is false: that a background check was started counts as its success, as the run `agent_unobserved` shows.

### Arguments

None of the properties is inductive by itself. What makes it so:

* *Journal.* During an append the acknowledged turns are
  spread over the file, the line being written and, after a compaction, the rewritten file. `IndInv`
  relates the file's turns to the acknowledged ones in each phase of an append, and says that a torn
  piece is only at the end. From it the refinement of `SessionLog` follows, where a compaction
  is the abstract step that forgets the oldest turns and everything else of an append stutters.
  `RoomInv` adds the sizes: a compacted file is at most a marker and the newest turns (induction on the sum of its
  lines), which `HasRoom` compares with the limit. A marker may be the line that follows a compaction, so
  `HasRoom` counts it among the lines that have to fit, not only the turns.
* *Locks.* Mutual exclusion by key needs that the table and every user agree on the lock of a key
  (`TableLeadsToUsers`): whoever refers to a live lock of a key refers to the one the table shows,
  so holding a lock object is holding the key. The refinement maps the holder of a key
  to the worker whose held locks contain that key's.
* *Write and patch.* `CallsInv` has, beside `OneHolderPerPath`, three parts for each call. `KeysInv`: its keys are its
  destinations, each once, and from the first read to the end of its work it holds them all. `ProgressInv`: what it
  has read, staged and installed fits the phase. `DiskInv`: each of its files is what it has read or
  what it has put there, by how far the call has come, unless somebody else touched it or a rollback
  failed. Only the holder of a file's key moves it, so the calls keep each other's `DiskInv`. After the comparison
  before an installation, the destination is what was read unless it was changed from outside in between:
  that window is the code's, and `AllOrNothing` and `ReplacesWhatItRead` name it.
* *Tool step.* `ConsentInv` says where consent for a call can come from in each phase, `RequestInv`
  relates the request the agent waits for to the broker's table, to the channel and to the approval
  on the screen, `OrderInv` says which calls are taken, running and reported.
* *Shell.* `PromptInv`: prompts that were started, wait or are being typed are prompts that were written;
  `TurnInv`: a turn has a session, and its engine has what the seed gave it. `RecordInv`: while the loop runs, a record
  belongs to a turn that is over, every such turn has one and none has two, in whatever session.
  `KnowledgeInv`: what the last record of a session restores, and the seed of the current one, know
  every turn of the session that did not fail.
* *Agent loop.* `LoopInv`: the stage of a step says which calls are prepared, executed and observed
  (`StageInv`); evidence that is not stale is the hash the agent was given last (`EvidenceInv`); what the
  agent has changed is in the context or in a result that is still to be folded, and everything else is the
  user's (`OwnerInv`). `CheckInv` adds that the plan covers what was modified (`PlanInv`), and that a step that counts as
  passed at the current revision is of a command that succeeded after the last change (`PassedInv`). That a turn
  ends is not an invariant but a variant: an answer uses up the budget, a stage of the round or a call of the stage.
  The stages of automatic verification use up the checks that are still to come, which takes that the
  result of each is recorded: a step that waits for its command keeps the verification open (`BoundInv`).
* *Processes.* A call may return because its process is in the table or
  no longer runs; only a call at a termination may have a running process outside the table, and its handle is dropped at
  the end (`CallInv`). The shutdown is complete because no call is in progress while it lasts, and every
  entry of the table is still to come, has failed, or is the one at work (`ShutdownInv`); an id that is not
  allocated yet belongs to nobody (`FreshInv`). Processes that the system does not let AETHER kill may be
  any set, and are the exception that `NothingRunsUnowned` names. Output is written once and in order: what was
  read, what was dropped and what is in the buffer is a beginning of it (`Accounted`).
* *Browser.* `TaskInv`: where the one task can be. `ProviderInv`: a provider that runs is in the hands of the
  supervisor, attached and with its connection, or of a task that will end it.
  `ExportInv`: what a stop has exported is on disk when it closes the provider.
* *Helper.* `ReaderInv`: a reader that reached the end of the pipe has everything, for good. `AskerInv`: what
  the caller holds is what the thread sent and how the command ended, and it judges with both.
* *Private files.* `ScheduleInv`: wherever a process is on its way, it writes what it read only if there was room for
  one more appointment. `AloneInv`: a process that is alone writes the file that is still there.
* *Installation.* `LockInv`: past the lock, a process is alone. `ReplaceInv`: by its place, what is
  staged is the verified pair and what lies in the directory and the backup is older, so that a kill anywhere
  leaves one of these; what the second inspection found is still there when it is moved away.
  `InstalledStaysInstalled` says of the pair what the verification looks at (`WholePair`).
* *Updater.* `StagedInv`: from the verification on, what is staged is the published binary of the release's own
  version, in the updater and in the helper that goes on with its file. `TempInv`: on Unix and without kills, a temporary
  file belongs to an updater at work.
* *Ledger.* Every update leaves the criteria alone, clears them, or satisfies those that the check at
  hand speaks of (`LedgerInv`). For the outline, `OutlineInv` follows the proposals one by one: after each, a unit waits for
  what the last proposal of it says, or for what it waited for before. So what comes out of an outline has the graph that was
  checked for circles, units that were left included. All other updates keep ids and dependencies, add a
  unit that waits for nothing, or drop the oldest one.
* *Rainy.* `Said` is all that a stream has said: received, in the channel, and still to be sent. `StreamInv` is about
  that list, not about the parts: no call twice with one identifier (`ApartIn`), every reported identifier one that the stream gave to that
  call (`GivenIn`), a `done` last, without an error and after every call that was begun; what was begun and is not
  reported is open in the adapter as long as it runs. The adapter does report one call twice when its stream names it by
  `item_id` in the deltas and by `call_id` in the item (`lib.rs:953`, `lib.rs:999`), and two indices of Chat under one
  id when the provider gives them one (`lib.rs:891`). No text of the repository promises otherwise, so
  `DoneIsTheWholeResponse` says what "once" can mean here: once for each identifier that the stream gave to the call. `RefusalInv`: every refused model is in `denied_tool_models`.
* *Repository map.* `WorldInv`: what a call has seen of the index and the files holds what they are now. `CacheInv`
  and `CallInv`: a listing taken with a stamp is what the index holds as long as the index has that stamp
  (`AsStamped`), wherever the listing is kept, and its special files were there when they were read.
  The cached map of an earlier call is an answer because it is returned only when both still agree.
* *Symbol index.* `HeldBy` is the property of any index and any set of retained files. Removing a file takes away all
  that it contributed, so a file that is parsed again never leaves evidence of its old symbols; a
  contribution of a retained file keeps `HeldBy`, and so, by induction, do the loops of an insertion.
* *Planner.* `PlanInv`: while a batch of reads is executed, every line it asks for is shown already, or is of a read that is
  still to come, and for each of these reads a place and the bytes of a whole file are left. That a plan begins like this
  follows from the loops over targets, plans and actions (`PlanTargets`, `MergeAll`, `WithActions`), pass by
  pass: a target is noted once and either has its excerpt or its action. An excerpt that is pushed hides none,
  because two with the same path and range show the same lines when both are whole.
  A narrow verification command is never one of the workspace (`StaysNarrow`), so the broad one is always added, and
  its place is kept by cutting the others first.
  The proof attempt showed where `PlansKeepTheirPurpose` has to stop, beyond the limits that the run already met:
  a range is cut behind 256 lines (`planner.rs:945`) and what follows is not read, a search in the same batch may take
  the places of a read, and an excerpt whose text was cut stays retained under all its lines (`context.rs:1434`) and is served
  for them as if it were whole (`planner.rs:983`). `WithinLimits` and `IsWhole` say so; a batch outside of them is answered
  with less than it asked for.
* *Coding policy: advice.* The candidate of the recommendation, the tools on offer and the recovery are computed at
  different moments of a batch, so `AdviceInv` ties what they are computed from. `Known`: a stale file means a change; a
  change, or a candidate that counts as inspected, means a file that was looked at, unless nothing was known to look at;
  a failed verification has the phase `Verify`. `Rediscovers`: discovery over open verification has a stale file and nothing
  that is relevant, or is carried over. `Ready` and `Unseen`: what is relevant is looked at or is a candidate, and a change
  that is not settled leaves either a file that was looked at or nothing relevant. Most of an observation leaves these
  fields alone (`Steady`); the others are followed one by one. `carried` marks the exceptions, all of a turn that is in
  `Discover` with the verification open or failed, so that the runtime recommends a check while the shell is not on
  offer (`workflow.rs:769`, `policy.rs:1430`): its task is a new one on top of changes that were not verified; or the root
  of a resumed session is another one, though no inspected file differs (`context.rs:423`, `context.rs:478`). A result
  that settles the change and names no file (`context.rs:371`) leaves it there. Without the exceptions
  `RecommendedIsOffered` is false, at sizes the run does not reach; the proof attempt showed it.
* *Coding policy: repetition.* A call is refused when the circuit has counted `NoProgressLimit` failures of it at this revision. `Counts`:
  the queue is ordered by revision, has one entry of a call at each, and has one of every watched call that failed at the
  current revision, with a count that is not too low or is the largest of a byte. The queue is bounded and drops its oldest entry
  (`guardrails.rs:402`): with more failing calls than `MaxFailureObservations` it forgets counts, and a call
  can be repeated for ever by turns. `FailuresAreCutOff` is for as many as there is room for. The calls of a batch are
  checked before any of them runs, hence the length of a batch in the bound (`Within`).
* *Prompt context.* A delta leaves out what `fingerprints` lists, so the first part of `ContextInv` is that each of
  these was in an earlier packet, in full, or is the mark of a working set (`RecordedIn`); the list is cut,
  stored and restored, and never gains anything else. The second part is about excerpts: one with the hash of its own text
  has the hash its file was last seen with (`HashedAsInspected`), since every new hash of a file drops its excerpts,
  and after a look at the workspace that hash is the file's content unless the file is marked stale (`AsLookedAt`).
  A file that was pushed out of the list of inspected files (`context.rs:1552`) breaks the second part: when it is inspected
  again it is a new entry, without a hash to compare with, and excerpts of its old content stay and are called
  current. `OwnHashIsCurrent` therefore leaves out the files in `pushedOut`, and excerpts whose lines were
  read before their hash was (`read.rs:152`).

### Only model-checked

* Liveness under fairness (`EveryRequestIsServed`, `StartedStepsEnd`, `QueuedPromptsAreTaken`,
  `ProcessCallsEnd`, `BrowserWorkEnds`), which is out of the prover's reach.

Induction over data is within reach where the model computes with a recursive function on a segment of the
naturals: `NaturalInduction` in `SessionJournalProofs` and `Induction` in `ContextProofs` state it with the property as a
set. `SumLines`, `WithProposals`, `PathsEnsured`, `Sift`, `AddLists` and the loops of the planner have that form; an operator that folds over a list has not.

## 5. Not modelled, and why

* *Command analysis*: classification of the text of a command. Where the class matters it
  is part of a call (its scope, its footprint, whether it is a check).
* *Scanners for languages other than Rust*, *manifests other than Cargo's and JavaScript's*: tables of
  patterns in the same frame as those that are modelled.
* *Line terminal, rendering, text editing*: output and key decoding.
* *Web demo, evaluation harness, scripted backend*: apart from the program. The *backend boundary*
  is data types and a trait; what its two users make of it is in `RainyBackend` and `AgentLoop`.
* *Capture of a foreground command's output* (`shell.rs`) beyond its consent, footprint and cancellation.
* *The choice of the state root* from the environment, *permissions of files*, and the checks of
  `security.rs`: constants of a process, or texts judged one at a time.
* *Two processes on one session file*, and clocks (session ids made of seconds): no code serialises
  the first, and nothing of the model tells times apart; both are listed as hazards.

## 6. Plan

What is left, in this order:

1. The line-based shell and one-shot runs as further users of `TurnShell`'s operations, and the
   listing of sessions.
2. The pipes of a foreground command: capture, truncation, and its end by timeout.
3. The remaining manifest kinds of `RepositoryMap` and scanners of `SymbolNavigation`.

Every safety property that a run checks has a theorem; what an extension adds should get one too.

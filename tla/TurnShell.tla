----------------------------- MODULE TurnShell ------------------------------
(***************************************************************************)
(* The interactive shell between its prompts and its sessions.             *)
(*                                                                         *)
(* The event loop (main.rs, run_tui) starts a turn for a prompt, lets the  *)
(* user queue more prompts while it runs, and when the agent's task is     *)
(* done records the turn in the session's journal, keeps what the turn     *)
(* learned as the seed of the next one, and starts the next queued prompt. *)
(* The composer, the queue and the busy flag belong to the screen          *)
(* (aether-tui), the agent, store, session and seed to the Runtime; the    *)
(* two do not always agree about whether a turn is running.                *)
(*                                                                         *)
(* What a turn learns is the turn itself: a context is a set of turns.     *)
(* The journal is the one SessionJournal describes, seen as the records    *)
(* that a restore would find.                                              *)
(***************************************************************************)
EXTENDS Naturals, Sequences, SequencesExt, FiniteSets

CONSTANTS
    MaxPrompts,   \* prompts the user writes (bound)
    MaxQueued,    \* MAX_QUEUED_PROMPTS
    MaxSessions,  \* sessions that are ever created (bound)
    MaxFaults     \* failures of the surroundings (bound)

ASSUME BoundsAssumption ==
    MaxPrompts \in Nat /\ MaxQueued \in Nat \ {0} /\ MaxSessions \in Nat /\ MaxFaults \in Nat

VARIABLES
    model,     \* a model is selected
    agent,     \* the Runtime has an Agent
    engine,    \* the context its ContextEngine holds
    store,     \* the Runtime has a SessionStore
    session,   \* session_id, or NoSession
    seed,      \* context_seed, or NoSeed
    created,   \* session ids given out
    journal,   \* the turns recorded in each session
    active,    \* the running turn, or NoTurn
    turnCancelled, \* its CancellationToken
    task,      \* where its task is
    turns,     \* turns started
    busy,      \* the screen shows a running turn
    composer,  \* the prompt in the composer, or NoPrompt
    written,   \* prompts written
    queued,    \* the queued prompts
    loop,      \* where the event loop is
    entered,   \* (history) prompts for which Enter was pressed
    begun,     \* (history) prompts of the turns started, in order
    refused,   \* (history) prompts answered with an error notice
    faults     \* (bound) failures so far

runtimeVars == <<model, agent, engine, store, session, seed, created>>
turnVars    == <<active, turnCancelled, task, turns>>
screenVars  == <<busy, composer, written, queued>>
historyVars == <<entered, begun, refused>>
shellVars == <<runtimeVars, journal, turnVars, screenVars, loop, historyVars, faults>>

NoTurn    == 0
NoPrompt  == 0
NoSession == 0
NoSeed    == {NoTurn}  \* not a set of turns

Record(t, how, knows) == [turn |-> t, how |-> how, knows |-> knows]

Fault == faults < MaxFaults /\ faults' = faults + 1

-----------------------------------------------------------------------------
(* Starting a turn. *)

\* ensure_agent makes an agent and opens the store of its session, if there is no agent.
Fresh == IF session = NoSession THEN created + 1 ELSE session

NewEngine == IF agent THEN engine ELSE {}

Ensured ==
    IF agent
      THEN UNCHANGED <<agent, store, session, created>>
      ELSE /\ Fresh <= MaxSessions
           /\ agent' = TRUE /\ store' = TRUE /\ session' = Fresh
           /\ created' = IF session = NoSession THEN created + 1 ELSE created

\* The turn is spawned with the engine its seed restores, and the screen begins it.
Begin(p) ==
    /\ agent => session # NoSession
    /\ Ensured
    /\ engine' = IF seed = NoSeed THEN NewEngine ELSE seed
    /\ turns' = turns + 1
    /\ active' = turns + 1 /\ turnCancelled' = FALSE /\ task' = "running"
    /\ busy' = TRUE
    /\ begun' = Append(begun, p)
    /\ loop' = "on"
    /\ UNCHANGED <<model, seed, refused, faults>>

\* The start fails: the prompt is gone and a notice says why.
NotStarted(p) ==
    /\ Fault
    /\ refused' = refused \cup {p}
    /\ loop' = "on"
    /\ UNCHANGED <<model, seed, begun, turnVars, busy>>

\* ... without a backend or a tool registry, before anything has changed;
FailBeforeAgent(p) ==
    /\ ~agent
    /\ NotStarted(p)
    /\ UNCHANGED <<agent, engine, store, session, created>>

\* ... in opening the store or writing Started, when the agent is already there;
FailAfterAgent(p) ==
    /\ ~agent
    /\ NotStarted(p)
    /\ agent' = TRUE /\ engine' = {}
    /\ UNCHANGED <<store, session, created>>

\* ... or in taking the screen back, when everything is there.
FailAfterAll(p) == NotStarted(p) /\ Ensured /\ engine' = NewEngine

\* An agent without a session: the expect in start_tui_turn panics.
Panic(p) ==
    /\ agent /\ session = NoSession
    /\ loop' = "panicked"
    /\ UNCHANGED <<runtimeVars, turnVars, busy, begun, refused, faults>>

StartTurn(p) == Begin(p) \/ FailBeforeAgent(p) \/ FailAfterAgent(p) \/ FailAfterAll(p) \/ Panic(p)

-----------------------------------------------------------------------------
(* What the user does. *)

Write ==
    /\ loop = "on" /\ composer = NoPrompt /\ written < MaxPrompts
    /\ written' = written + 1
    /\ composer' = written + 1
    /\ UNCHANGED <<runtimeVars, journal, turnVars, busy, queued, loop, historyVars, faults>>

\* Enter takes the prompt out of the composer.
Enter ==
    /\ loop = "on" /\ composer # NoPrompt
    /\ composer' = NoPrompt
    /\ entered' = entered \cup {composer}
    /\ UNCHANGED <<journal, written>>

\* While the screen is busy it queues the prompt, as long as there is room.
EnterQueue ==
    /\ busy /\ Len(queued) < MaxQueued
    /\ Enter
    /\ queued' = Append(queued, composer)
    /\ UNCHANGED <<runtimeVars, turnVars, busy, loop, begun, refused, faults>>

\* No turn runs: the prompt is submitted (without a model it goes back to the composer).
EnterSubmit ==
    /\ ~busy /\ active = NoTurn /\ model
    /\ Enter
    /\ StartTurn(composer)
    /\ UNCHANGED queued

\* The screen has given up the turn, but its task is still there: the prompt goes nowhere.
EnterIgnored ==
    /\ ~busy /\ active # NoTurn
    /\ Enter
    /\ UNCHANGED <<runtimeVars, turnVars, busy, queued, loop, begun, refused, faults>>

\* Esc or Ctrl-C while the screen is busy: the token is set, the screen gives up the turn.
CancelActive ==
    /\ loop = "on" /\ busy
    /\ turnCancelled' = (active # NoTurn \/ turnCancelled)
    /\ busy' = FALSE
    /\ UNCHANGED <<runtimeVars, journal, active, task, turns, composer, written, queued, loop,
                   historyVars, faults>>

\* A bug: the seed goes with the agent.
SelectModelAfresh ==
    /\ loop = "on" /\ active = NoTurn
    /\ model' = TRUE /\ agent' = FALSE /\ seed' = NoSeed
    /\ UNCHANGED <<engine, store, session, created, journal, turnVars, screenVars, loop,
                   historyVars, faults>>

\* A model is chosen; the agent is given up, the session is kept.
SelectModel ==
    /\ loop = "on" /\ active = NoTurn
    /\ model' = TRUE /\ agent' = FALSE
    /\ UNCHANGED <<engine, store, session, seed, created, journal, turnVars, screenVars, loop,
                   historyVars, faults>>

\* close_current gives up agent and store even when closing fails.
Closed == agent' = FALSE /\ store' = FALSE

\* /clear: a fresh session, and a fresh screen.
Clear ==
    /\ loop = "on" /\ active = NoTurn
    /\ Closed
    /\ session' = NoSession /\ seed' = NoSeed
    /\ queued' = <<>> /\ composer' = NoPrompt /\ busy' = FALSE
    /\ refused' = refused \cup Range(queued)
    /\ UNCHANGED <<model, engine, created, journal, turnVars, written, loop, entered, begun,
                   faults>>

\* The turns a session's newest record knows.
Restored(s) == IF journal[s] = <<>> THEN {} ELSE Last(journal[s]).knows

\* A session is chosen: the current one is closed, then the other restored.
SelectSession(s) ==
    /\ loop = "on" /\ active = NoTurn
    /\ s <= created
    /\ Closed
    /\ session' = s /\ seed' = Restored(s)
    /\ UNCHANGED <<model, engine, created, journal, turnVars, screenVars, loop, historyVars,
                   faults>>

\* /clear or the choice of a session fails in close_current: the old session stays current.
CloseFails ==
    /\ loop = "on" /\ active = NoTurn
    /\ Fault
    /\ Closed
    /\ UNCHANGED <<model, engine, session, seed, created, journal, turnVars, screenVars, loop,
                   historyVars>>

Quit ==
    /\ loop = "on"
    /\ loop' = IF active = NoTurn THEN "left" ELSE "leaving"
    /\ turnCancelled' = (active # NoTurn \/ turnCancelled)
    /\ UNCHANGED <<runtimeVars, journal, active, task, turns, screenVars, historyVars, faults>>

-----------------------------------------------------------------------------
(* The agent's task, and what the loop does when it is over. *)

\* The task ends, whatever became of the token; it has learned something.
AgentEnds(how) ==
    /\ task = "running" /\ loop \in {"on", "leaving"}
    /\ how = "cancelled" => turnCancelled
    /\ task' = how
    /\ engine' = engine \cup {active}
    /\ UNCHANGED <<model, agent, store, session, seed, created, journal, active, turnCancelled, turns,
                   screenVars, loop, historyVars, faults>>

TaskDone == active # NoTurn /\ task # "running"

\* A bug: a turn that failed is not recorded.
RecordedIfNotFailed ==
    journal' = IF task = "failed" THEN journal
               ELSE [journal EXCEPT ![session] = Append(@, Record(active, task, engine))]

Recorded == journal' = [journal EXCEPT ![session] = Append(@, Record(active, task, engine))]

\* What the next turn starts from: a failed turn leaves the seed as it was.
SeedAfter == IF task = "failed" THEN seed ELSE engine

\* After a failure an unhealthy browser is given up, and the agent is made anew.
Detached ==
    \/ engine' = engine
    \/ task = "failed" /\ engine' = {}

\* finish_tui_turn: the turn leaves the screen, is recorded and remembered.
Finish ==
    /\ store
    /\ busy' = FALSE
    /\ Recorded
    /\ seed' = SeedAfter
    /\ Detached
    /\ UNCHANGED faults

\* Without a store, or when the record cannot be written, the turn is not recorded; after a
\* failed turn, the agent may also not come back from the loss of the browser.
FinishFails ==
    /\ busy' = (busy /\ ~store)
    /\ IF store THEN Fault ELSE UNCHANGED faults
    /\ UNCHANGED journal \/ (store /\ task = "failed" /\ Recorded)
    /\ UNCHANGED <<seed, engine>>

Over ==
    /\ active' = NoTurn /\ task' = "none"
    /\ UNCHANGED <<model, agent, store, session, created, turnCancelled, turns, composer, written,
                   queued, historyVars>>

Done ==
    /\ loop = "on" /\ TaskDone
    /\ Over
    /\ \/ Finish /\ loop' = "next"
       \/ FinishFails /\ loop' = "left"

\* A bug: the queue waits for a turn that was not cancelled.
TakeNextUncancelled ==
    /\ loop = "next"
    /\ IF queued = <<>> \/ turnCancelled
         THEN loop' = "on" /\ UNCHANGED <<runtimeVars, turnVars, busy, queued, begun, refused, faults>>
         ELSE queued' = Tail(queued) /\ StartTurn(Head(queued))
    /\ UNCHANGED <<journal, composer, written, entered>>

\* Still in the same round of the loop: the next queued prompt is started.
TakeNext ==
    /\ loop = "next"
    /\ IF queued = <<>>
         THEN loop' = "on" /\ UNCHANGED <<runtimeVars, turnVars, busy, queued, begun, refused, faults>>
         ELSE queued' = Tail(queued) /\ StartTurn(Head(queued))
    /\ UNCHANGED <<journal, composer, written, entered>>

\* A shell that leaves awaits the task and finishes the turn.
LeaveDone ==
    /\ loop = "leaving" /\ TaskDone
    /\ Over
    /\ Finish \/ FinishFails
    /\ loop' = "left"

-----------------------------------------------------------------------------
ShellInit ==
    /\ model \in BOOLEAN
    /\ agent = FALSE /\ engine = {} /\ store = FALSE
    /\ \/ session = NoSession /\ created = 0 /\ seed = NoSeed
       \/ MaxSessions > 0 /\ session = 1 /\ created = 1 /\ seed = {}
    /\ journal = [s \in 1..MaxSessions |-> <<>>]
    /\ active = NoTurn /\ turnCancelled = FALSE /\ task = "none" /\ turns = 0
    /\ busy = FALSE /\ composer = NoPrompt /\ written = 0 /\ queued = <<>>
    /\ loop = "on"
    /\ entered = {} /\ begun = <<>> /\ refused = {}
    /\ faults = 0

User ==
    \/ Write \/ EnterQueue \/ EnterSubmit \/ EnterIgnored \/ CancelActive \/ SelectModel \/ Clear
    \/ CloseFails \/ Quit
    \/ \E s \in 1..MaxSessions : SelectSession(s)

AgentTask == \E how \in {"ok", "cancelled", "failed"} : AgentEnds(how)

ShellNext == User \/ AgentTask \/ Done \/ TakeNext \/ LeaveDone

(***************************************************************************)
(* Turns end (a step limit, cancellation and ToolStep see to that), and    *)
(* the loop is polled.  The user owes nothing.                             *)
(***************************************************************************)
ShellFairness ==
    /\ WF_shellVars(AgentTask) /\ WF_shellVars(Done)
    /\ WF_shellVars(TakeNext) /\ WF_shellVars(LeaveDone)

ShellSpec == ShellInit /\ [][ShellNext]_shellVars /\ ShellFairness

-----------------------------------------------------------------------------
(* Properties. *)

Prompts == 1..MaxPrompts

(***************************************************************************)
(* While the loop runs, every turn that was started and is over has one    *)
(* record, in the journal of one session, and no turn starts before the    *)
(* one before it is recorded.                                              *)
(***************************************************************************)
Records(t) == {r \in (1..MaxSessions) \X (1..MaxPrompts) :
                 r[2] <= Len(journal[r[1]]) /\ journal[r[1]][r[2]].turn = t}

EveryTurnIsRecorded ==
    loop \in {"on", "next"} =>
      \A t \in 1..turns : Cardinality(Records(t)) = IF t = active THEN 0 ELSE 1

(***************************************************************************)
(* What a completed or cancelled turn of the session learned is there when *)
(* the next turn starts: no change of model, failed turn, lost browser,    *)
(* resumed session or failed close forgets it.                             *)
(***************************************************************************)
Known == IF seed = NoSeed THEN NewEngine ELSE seed

NothingLearnedIsForgotten ==
    (loop = "on" /\ active = NoTurn /\ session # NoSession) =>
      \A r \in Range(journal[session]) : r.how # "failed" => r.turn \in Known

(***************************************************************************)
(* A queued prompt leaves the queue, unless a start failed or the shell is *)
(* gone: the end of each turn starts the next one.                         *)
(***************************************************************************)
QueuedPromptsAreTaken ==
    \A p \in Prompts :
      (p \in Range(queued)) ~> (p \notin Range(queued) \/ refused # {} \/ loop = "left")

(***************************************************************************)
(* A prompt for which Enter was pressed is in the queue, became a turn, or *)
(* was answered with an error.                                             *)
(***************************************************************************)
NoPromptIsLost ==
    loop = "on" => entered \subseteq (Range(queued) \cup Range(begun) \cup refused)

(***************************************************************************)
(* What makes EveryTurnIsRecorded and NothingLearnedIsForgotten inductive, *)
(* while the loop runs.  Every prompt becomes one turn at most, a new      *)
(* session has no records, the newest record of a session knows what all   *)
(* of them have learned, and the seed knows it for the current session.    *)
(***************************************************************************)
Turns == Nat \ {NoTurn}
Endings == {"ok", "cancelled", "failed"}

ShellTypeOK ==
    /\ agent \in BOOLEAN /\ created \in 0..MaxSessions /\ session \in 0..created
    /\ engine \subseteq Turns /\ (seed = NoSeed \/ seed \subseteq Turns)
    /\ journal \in [1..MaxSessions -> Seq([turn : Turns, how : Endings, knows : SUBSET Turns])]
    /\ turns \in Nat /\ active \in {NoTurn, turns} /\ task \in Endings \cup {"none", "running"}
    /\ task = "none" <=> active = NoTurn
    /\ {composer, written} \subseteq Nat /\ queued \in Seq(Nat)
    /\ loop \in {"on", "next", "leaving", "left", "panicked"}

PromptInv == turns + Len(queued) + (IF composer = NoPrompt THEN 0 ELSE 1) <= written /\ written <= MaxPrompts

TurnInv ==
    /\ active # NoTurn => /\ session # NoSession
                          /\ seed # NoSeed => seed \subseteq engine
                          /\ task # "running" => active \in engine
    /\ loop = "next" => active = NoTurn

Looping == loop \in {"on", "next"}

RecordsFit ==
    \A s \in 1..MaxSessions :
        /\ Len(journal[s]) + (IF active = NoTurn THEN 0 ELSE 1) <= turns
        /\ s > created => journal[s] = <<>>
        /\ \A i \in 1..Len(journal[s]) : journal[s][i].turn \in (1..turns) \ {active}

EveryTurnHasOne ==
    \A t \in (1..turns) \ {active} :
        \E s \in 1..MaxSessions : \E i \in 1..Len(journal[s]) : journal[s][i].turn = t

NoTurnHasTwo ==
    \A s, z \in 1..MaxSessions : \A i \in 1..Len(journal[s]), k \in 1..Len(journal[z]) :
        journal[s][i].turn = journal[z][k].turn => s = z /\ i = k

RecordInv == Looping => RecordsFit /\ EveryTurnHasOne /\ NoTurnHasTwo

\* The turns of a session that did not fail are in a context.
Remembers(s, context) ==
    \A i \in 1..Len(journal[s]) : journal[s][i].how # "failed" => journal[s][i].turn \in context

KnowledgeInv ==
    Looping =>
      /\ \A s \in 1..MaxSessions : Remembers(s, Restored(s))
      /\ session # NoSession => Remembers(session, IF seed = NoSeed THEN {} ELSE seed)

ShellInv == ShellTypeOK /\ PromptInv /\ TurnInv /\ RecordInv /\ KnowledgeInv

=============================================================================

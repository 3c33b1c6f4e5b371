------------------------------ MODULE ToolStep ------------------------------
(***************************************************************************)
(* One step of a turn: the tool calls a model asks for together.           *)
(*                                                                         *)
(* The agent's task (aether-agent, scheduler.rs) first prepares the calls  *)
(* in order, asking the permission broker (permission.rs) about each one   *)
(* that needs the user's consent, and then runs them in batches: calls     *)
(* whose footprints (aether-core, tools.rs) conflict keep the model's      *)
(* order, the others run together.  The shell's task (main.rs, run_tui)    *)
(* shows the events it receives through a bounded channel, answers         *)
(* requests, and may cancel the turn or leave.  Tools work on threads of   *)
(* their own, which outlive the futures that wait for them.                *)
(***************************************************************************)
EXTENDS Naturals, Sequences, FiniteSets, SequencesExt

CONSTANTS
    Batches,      \* the sequences of calls a model may ask for in one step
    MaxParallel,  \* DEFAULT_MAX_PARALLEL_TOOLS
    Capacity      \* places in the channel of events

(***************************************************************************)
(* A call: whether it asks for permission and under which scope (tool and  *)
(* class), whether the scope is a browser action, whether the turn's gate  *)
(* lets it execute, and what it touches.  A resource is a sequence: the    *)
(* whole workspace (or everything) is <<>>, a path its components, a       *)
(* process or a browser session a sequence of its own kind.                *)
(***************************************************************************)
IsFootprint(f) ==
    /\ DOMAIN f = {"unknown", "reads", "writes"}
    /\ f.unknown \in BOOLEAN

IsCall(a) ==
    /\ DOMAIN a = {"scope", "asks", "browser", "allowed", "footprint"}
    /\ a.asks \in BOOLEAN /\ a.browser \in BOOLEAN /\ a.allowed \in BOOLEAN
    /\ IsFootprint(a.footprint)

ASSUME BatchesAssumption ==
    \A b \in Batches :
      /\ b # <<>> /\ Len(b) \in Nat /\ DOMAIN b = 1..Len(b)
      /\ \A c \in DOMAIN b : IsCall(b[c])
      /\ \A c, d \in DOMAIN b : b[c].scope = b[d].scope => b[c].browser = b[d].browser

ASSUME LimitsAssumption == MaxParallel \in Nat \ {0} /\ Capacity \in Nat \ {0}

VARIABLES
    batch,      \* the calls of this step
    pc,         \* where the agent's task is
    n,          \* the call it is at
    unprepared, \* calls not yet prepared
    waiting,    \* prepared calls that no batch has taken
    permits,    \* calls that hold an ExecutionPermit
    chosen,     \* the calls of the current batch
    todo,       \* calls of the current batch still to be announced or reported
    running,    \* calls whose tool is at work
    launched,   \* calls whose tool was ever started
    outputs,    \* the results handed back, in order
    result,     \* how the step ended
    cancelled,  \* the turn's CancellationToken
    grants,     \* the broker's session grants
    pending,    \* the broker's pending requests
    answer,     \* what arrived on the oneshot channel of each request
    queue,      \* the channel of events
    asked,      \* the shell's TuiTurn::pending_permission
    overlay,    \* the request shown in the approval overlay
    ui,         \* where the shell's event loop is
    said        \* (history) the answers the user gave to each request

agentVars  == <<pc, n, unprepared, waiting, permits, chosen, todo, launched, outputs, result>>
brokerVars == <<grants, pending, answer>>
uiVars     == <<asked, overlay, ui, said>>
vars == <<batch, agentVars, running, cancelled, brokerVars, queue, uiVars>>

NoCall == 0
Calls  == DOMAIN batch
Scope(c) == batch[c].scope

Event(kind, c) == [kind |-> kind, call |-> c]

Decisions == {"once", "always", "deny"}

-----------------------------------------------------------------------------
(* Footprints. *)

Overlap(left, right) == IsPrefix(left, right) \/ IsPrefix(right, left)

Meet(S, T) == \E s \in S, t \in T : Overlap(s, t)

Conflicts(f, g) ==
    \/ f.unknown \/ g.unknown
    \/ Meet(f.writes, g.writes \cup g.reads)
    \/ Meet(f.reads, g.writes)

Empty == [unknown |-> FALSE, reads |-> {}, writes |-> {}]

\* A call that will not execute touches nothing.
Executes(c)  == c \in permits /\ batch[c].allowed
Footprint(c) == IF Executes(c) THEN batch[c].footprint ELSE Empty

\* A bug: only the call just before is looked at, not every pending one.
EligibleAfterNeighbour(c) ==
    \/ c \notin permits
    \/ c - 1 \notin waiting
    \/ ~Conflicts(Footprint(c), Footprint(c - 1))

\* Nothing that was asked for earlier, and has not been taken, conflicts with c.
Eligible(c) ==
    \/ c \notin permits
    \/ \A p \in waiting : p < c => ~Conflicts(Footprint(c), Footprint(p))

\* The first k members of a set of calls.
FirstOf(k, S) == {c \in S : Cardinality({d \in S : d < c}) < k}


SelectPending == FirstOf(MaxParallel, {c \in waiting : Eligible(c)})

IsFirst(c, S) == c \in S /\ \A d \in S : c <= d

-----------------------------------------------------------------------------
(* The agent's task: preparing the calls. *)

Ended == result # "none"

\* What is left of a step that has ended.
End(how) == pc' = "done" /\ result' = how

\* The broker forgets the request and drops its end of the oneshot channel.
Cancel(c) ==
    /\ pending' = pending \ {c}
    /\ answer' = IF c \in pending THEN [answer EXCEPT ![c] = "dropped"] ELSE answer

\* The agent returns Cancelled where nothing has to be taken back.
StopAt(here) ==
    /\ pc = here /\ cancelled
    /\ End("cancelled")
    /\ UNCHANGED <<batch, n, unprepared, waiting, permits, chosen, todo, running, launched,
                   outputs, cancelled, brokerVars, queue, uiVars>>

\* The call is prepared: on to the next one.
Prepared(c) ==
    /\ unprepared' = unprepared \ {c}
    /\ waiting' = waiting \cup {c}
    /\ pc' = IF unprepared = {c} THEN "select" ELSE "prepare"

\* Nobody has to be asked: an ordinary call, or a scope with a session grant.
PrepareQuietly ==
    /\ pc = "prepare" /\ ~cancelled
    /\ \E c \in unprepared :
         /\ IsFirst(c, unprepared)
         /\ batch[c].asks => Scope(c) \in grants
         /\ Prepared(c)
         /\ permits' = permits \cup {c}
    /\ UNCHANGED <<batch, n, chosen, todo, running, launched, outputs, result, cancelled,
                   brokerVars, queue, uiVars>>

\* needs_prompt and decide: the request is registered before anyone sees it.
Register ==
    /\ pc = "prepare" /\ ~cancelled
    /\ \E c \in unprepared :
         /\ IsFirst(c, unprepared)
         /\ batch[c].asks /\ Scope(c) \notin grants
         /\ n' = c
         /\ pending' = pending \cup {c}
    /\ pc' = "announce"
    /\ UNCHANGED <<batch, unprepared, waiting, permits, chosen, todo, running, launched, outputs,
                   result, cancelled, grants, answer, queue, uiVars>>

Send(event) == Len(queue) < Capacity /\ queue' = Append(queue, event)

Announce ==
    /\ pc = "announce"
    /\ Send(Event("asked", n))
    /\ pc' = "decide"
    /\ UNCHANGED <<batch, n, unprepared, waiting, permits, chosen, todo, running, launched,
                   outputs, result, cancelled, brokerVars, uiVars>>

\* The turn was cancelled, before or together with the decision.
Abandon ==
    /\ pc = "decide" /\ cancelled
    /\ Cancel(n)
    /\ End("cancelled")
    /\ UNCHANGED <<batch, n, unprepared, waiting, permits, chosen, todo, running, launched,
                   outputs, cancelled, grants, queue, uiVars>>

\* The decision arrives; a dropped channel reads as Deny.
Hear ==
    /\ pc = "decide" /\ answer[n] # "none" /\ ~cancelled
    /\ pc' = "resolve"
    /\ UNCHANGED <<batch, n, unprepared, waiting, permits, chosen, todo, running, launched,
                   outputs, result, cancelled, brokerVars, queue, uiVars>>

Resolve ==
    /\ pc = "resolve"
    /\ Send(Event("resolved", n))
    /\ permits' = IF answer[n] \in {"once", "always"} THEN permits \cup {n} ELSE permits
    /\ Prepared(n)
    /\ UNCHANGED <<batch, n, chosen, todo, running, launched, outputs, result, cancelled,
                   brokerVars, uiVars>>

-----------------------------------------------------------------------------
(* The agent's task: running the prepared calls. *)

\* All calls have results: the step is over, cancelled or not.
Succeed ==
    /\ pc = "select" /\ waiting = {}
    /\ End("ok")
    /\ UNCHANGED <<batch, n, unprepared, waiting, permits, chosen, todo, running, launched,
                   outputs, cancelled, brokerVars, queue, uiVars>>

StopAtSelect == waiting # {} /\ StopAt("select")

Select ==
    /\ pc = "select" /\ ~cancelled
    /\ SelectPending # {}
    /\ chosen' = SelectPending
    /\ todo' = SelectPending
    /\ pc' = "start"
    /\ UNCHANGED <<batch, n, unprepared, waiting, permits, running, launched, outputs, result,
                   cancelled, brokerVars, queue, uiVars>>

\* ToolStarted, for each call of the batch.
Start ==
    /\ pc = "start"
    /\ \E c \in todo :
         /\ IsFirst(c, todo)
         /\ Send(Event("started", c))
         /\ todo' = todo \ {c}
    /\ UNCHANGED <<batch, pc, n, unprepared, waiting, permits, chosen, running, launched, outputs,
                   result, cancelled, brokerVars, uiVars>>

\* The batch is taken; calls without permit or stopped by the gate have results at once.
Launch ==
    /\ pc = "start" /\ todo = {}
    /\ waiting' = waiting \ chosen
    /\ running' = {c \in chosen : Executes(c)}
    /\ launched' = launched \cup {c \in chosen : Executes(c)}
    /\ pc' = "run"
    /\ UNCHANGED <<batch, n, unprepared, permits, chosen, todo, outputs, result, cancelled,
                   brokerVars, queue, uiVars>>

\* A bug: the whole batch is awaited before the token is looked at.
StopAfterBatch == running = {} /\ StopAt("run")

\* Cancellation comes first: the futures are dropped, the threads work on.
StopAtRun == StopAt("run")

BatchDone ==
    /\ pc = "run" /\ running = {} /\ ~cancelled
    /\ todo' = chosen
    /\ pc' = "output"
    /\ UNCHANGED <<batch, n, unprepared, waiting, permits, chosen, running, launched, outputs,
                   result, cancelled, brokerVars, queue, uiVars>>

ReportOutput ==
    /\ pc = "output"
    /\ \E c \in todo :
         /\ IsFirst(c, todo)
         /\ Send(Event("output", c))
         /\ n' = c
    /\ pc' = "finish"
    /\ UNCHANGED <<batch, unprepared, waiting, permits, chosen, todo, running, launched, outputs,
                   result, cancelled, brokerVars, uiVars>>

ReportFinish ==
    /\ pc = "finish"
    /\ Send(Event("finished", n))
    /\ outputs' = Append(outputs, n)
    /\ todo' = todo \ {n}
    /\ pc' = IF todo = {n} THEN "select" ELSE "output"
    /\ UNCHANGED <<batch, n, unprepared, waiting, permits, chosen, running, launched, result,
                   cancelled, brokerVars, uiVars>>

Agent ==
    \/ StopAt("prepare") \/ PrepareQuietly \/ Register \/ Announce \/ Abandon \/ Hear \/ Resolve
    \/ Succeed \/ StopAtSelect \/ Select \/ Start \/ Launch \/ StopAtRun \/ BatchDone
    \/ ReportOutput \/ ReportFinish

\* A tool comes to its end, whether or not its future is still there.
Work(c) ==
    /\ c \in running
    /\ running' = running \ {c}
    /\ UNCHANGED <<batch, agentVars, cancelled, brokerVars, queue, uiVars>>

-----------------------------------------------------------------------------
(* The shell's task. *)

\* An event is received and applied to the turn and to the screen.
Receive ==
    /\ ui = "on" /\ queue # <<>>
    /\ queue' = Tail(queue)
    /\ LET e == Head(queue) IN
         /\ asked' = IF e.kind = "asked" THEN e.call
                     ELSE IF e.kind = "resolved" /\ asked = e.call THEN NoCall ELSE asked
         /\ overlay' = IF e.kind = "asked" THEN e.call
                       ELSE IF e.kind = "resolved" THEN NoCall ELSE overlay
    /\ UNCHANGED <<batch, agentVars, running, cancelled, brokerVars, ui, said>>

\* A bug: every yes is remembered for the session.
GrantOnYes(c, d) == IF d # "deny" THEN grants \cup {Scope(c)} ELSE grants

GrantOn(c, d) == IF d = "always" /\ ~batch[c].browser THEN grants \cup {Scope(c)} ELSE grants

\* The broker's resolve: false, and nothing done, for a request it does not know.
Decide(c, d) ==
    /\ pending' = pending \ {c}
    /\ answer' = IF c \in pending THEN [answer EXCEPT ![c] = d] ELSE answer
    /\ grants' = IF c \in pending THEN GrantOn(c, d) ELSE grants

\* The user answers the request on the screen; a browser action has no "always".
Answer(d) ==
    /\ ui = "on" /\ overlay # NoCall
    /\ batch[overlay].browser => d # "always"
    /\ said' = [said EXCEPT ![overlay] = @ \cup {d}]
    /\ Decide(overlay, d)
    /\ overlay' = NoCall
    /\ UNCHANGED <<batch, agentVars, running, cancelled, queue, asked, ui>>

\* Esc or Ctrl-C: the token is set, an approval on the screen is closed.
CancelTurn ==
    /\ ui = "on"
    /\ ~cancelled \/ overlay # NoCall
    /\ cancelled' = TRUE
    /\ overlay' = NoCall
    /\ ui' = "cancelling"
    /\ UNCHANGED <<batch, agentVars, running, brokerVars, queue, asked, said>>

\* The loop is left (quit, end of input, a terminal error) while the turn runs.
Leave ==
    /\ ui = "on"
    /\ cancelled' = TRUE
    /\ ui' = "leaving"
    /\ UNCHANGED <<batch, agentVars, running, brokerVars, queue, asked, overlay, said>>

\* The broker's request is dropped; a shell that leaves awaits the task and receives nothing.
DropRequest ==
    /\ ui \in {"cancelling", "leaving"}
    /\ Cancel(asked)
    /\ ui' = IF ui = "cancelling" THEN "on" ELSE "waiting"
    /\ UNCHANGED <<batch, agentVars, running, cancelled, grants, queue, asked, overlay, said>>

Shell ==
    \/ Receive \/ CancelTurn \/ Leave \/ DropRequest
    \/ \E d \in Decisions : Answer(d)

-----------------------------------------------------------------------------
Init ==
    /\ batch \in Batches
    /\ pc = "prepare" /\ n = NoCall
    /\ unprepared = DOMAIN batch
    /\ waiting = {} /\ permits = {} /\ chosen = {} /\ todo = {}
    /\ running = {} /\ launched = {} /\ outputs = <<>> /\ result = "none"
    /\ cancelled \in BOOLEAN
    /\ grants = {} /\ pending = {} /\ answer = [c \in DOMAIN batch |-> "none"]
    /\ queue \in {<<>>, [p \in 1..Capacity |-> Event("text", NoCall)]}
    /\ asked = NoCall /\ overlay = NoCall /\ ui = "on"
    /\ said = [c \in DOMAIN batch |-> {}]

Next == Agent \/ (\E c \in Calls : Work(c)) \/ Shell

(***************************************************************************)
(* The runtime polls both tasks (agent steps, the shell's receive and its  *)
(* drop of the request); the user and the tools owe nothing by themselves. *)
(***************************************************************************)
Fairness ==
    /\ WF_vars(Agent)
    /\ WF_vars(Receive)
    /\ WF_vars(DropRequest)

Spec == Init /\ [][Next]_vars /\ Fairness

-----------------------------------------------------------------------------
(* Properties. *)

Kinds == {"text", "asked", "resolved", "started", "output", "finished"}

\* Every variable has its type.
TypeOK ==
    /\ batch \in Batches
    /\ pc \in {"prepare", "announce", "decide", "resolve", "select", "start", "run", "output",
               "finish", "done"}
    /\ n \in Calls \cup {NoCall}
    /\ unprepared \subseteq Calls /\ waiting \subseteq Calls /\ permits \subseteq Calls
    /\ chosen \subseteq Calls /\ todo \subseteq Calls
    /\ running \subseteq Calls /\ launched \subseteq Calls
    /\ outputs \in Seq(Calls)
    /\ result \in {"none", "ok", "cancelled"}
    /\ cancelled \in BOOLEAN
    /\ grants \subseteq {Scope(c) : c \in Calls}
    /\ pending \subseteq Calls
    /\ answer \in [Calls -> Decisions \cup {"none", "dropped"}]
    /\ queue \in Seq([kind : Kinds, call : Calls \cup {NoCall}])
    /\ asked \in Calls \cup {NoCall} /\ overlay \in Calls \cup {NoCall}
    /\ ui \in {"on", "cancelling", "leaving", "waiting"}
    /\ said \in [Calls -> SUBSET Decisions]

(***************************************************************************)
(* A tool that needs consent runs only when the user said yes to this very *)
(* call, or "always" to its scope; a browser action needs its own yes.     *)
(* Requests, answers, cancellation and stale approvals may interleave.     *)
(***************************************************************************)
Consented(c) ==
    \/ said[c] \cap {"once", "always"} # {}
    \/ ~batch[c].browser /\ \E p \in Calls : Scope(p) = Scope(c) /\ "always" \in said[p]

NothingRunsWithoutConsent == \A c \in launched : batch[c].asks => Consented(c)

(***************************************************************************)
(* Of two calls that conflict, the one the model asked for later starts    *)
(* only when the tool of the earlier one is no longer at work, however     *)
(* batches are cut and calls that do not conflict run ahead.               *)
(***************************************************************************)
ConflictingCallsKeepModelOrder ==
    \A c \in launched, p \in Calls :
      (p < c /\ Executes(p) /\ Conflicts(Footprint(c), Footprint(p)))
         => p \in launched \ running

(***************************************************************************)
(* A call goes without a permit only because the user denied it: a turn    *)
(* that is cancelled never has its open request read as a denial, though   *)
(* the dropped channel says Deny.                                          *)
(***************************************************************************)
DenialIsTheUsers == \A c \in Calls \ unprepared : c \in permits \/ "deny" \in said[c]

(***************************************************************************)
(* Whatever way a step ends, the broker keeps none of its requests.        *)
(***************************************************************************)
NoRequestOutlivesTheStep == Ended => pending = {}

(***************************************************************************)
(* The parts of the inductive invariant behind consent: grants and yeses   *)
(* on a oneshot channel are the user's, a dropped channel means a          *)
(* cancelled turn, and the broker knows at most the request being decided. *)
(***************************************************************************)
ConsentInv ==
    /\ \A s \in grants : \E p \in Calls :
         Scope(p) = s /\ ~batch[p].browser /\ "always" \in said[p]
    /\ \A c \in Calls : answer[c] \in Decisions => answer[c] \in said[c]
    /\ \A c \in Calls : answer[c] = "dropped" => cancelled
    /\ \A c \in permits : batch[c].asks => Consented(c)
    /\ ui \in {"cancelling", "leaving", "waiting"} => cancelled
    /\ launched \subseteq permits

RequestInv ==
    /\ pc \in {"announce", "decide", "resolve"} => n \in unprepared
    /\ pending \subseteq {n}
    /\ pending # {} => pc \in {"announce", "decide"}
    /\ \A c \in pending : answer[c] = "none"
    /\ \A c \in unprepared : answer[c] = "none" \/ (c = n /\ pc # "prepare")
    /\ pc = "resolve" => answer[n] \in Decisions
    /\ Ended <=> pc = "done"

Preparing == pc \in {"prepare", "announce", "decide", "resolve"}

(***************************************************************************)
(* And behind the order of conflicting calls: whatever is neither          *)
(* unprepared nor waiting was launched if it executes, tools are at work   *)
(* only in the batch that is awaited, and the batch being started still    *)
(* has nothing pending before it that it conflicts with.                   *)
(***************************************************************************)
OrderInv ==
    /\ unprepared \cap waiting = {}
    /\ permits \cap unprepared = {}
    /\ \A c \in Calls \ (unprepared \cup waiting) : Executes(c) => c \in launched
    /\ Preparing => launched = {} /\ running = {}
    /\ pc \in {"select", "start", "output", "finish"} => running = {}
    /\ pc \in {"select", "start", "run", "output", "finish"} => unprepared = {}
    /\ pc = "start" => chosen \subseteq waiting /\ \A c \in chosen : Eligible(c)
    /\ pc = "finish" => n \in todo
    /\ running \subseteq launched /\ launched \cap waiting = {}

(***************************************************************************)
(* The inductive invariant of the step.                                    *)
(***************************************************************************)
IndInv ==
    /\ TypeOK /\ ConsentInv /\ RequestInv /\ OrderInv
    /\ DenialIsTheUsers /\ ConflictingCallsKeepModelOrder

ShellLeft == ui \in {"leaving", "waiting"}

(***************************************************************************)
(* A step ends.  Cancelled, it ends even if a tool never does and nobody   *)
(* answers, as long as the shell receives the events.  Otherwise it ends   *)
(* when tools do and the user answers what the screen shows: no request    *)
(* waits without being shown, and nobody waits for a place in the channel  *)
(* forever.                                                                *)
(***************************************************************************)
EveryStepEnds ==
    /\ (cancelled /\ ~ShellLeft) ~> (Ended \/ ShellLeft)
    /\ (<>[]~ShellLeft /\ []<>(running = {}) /\ []<>(overlay = NoCall)) => <>Ended

(***************************************************************************)
(* A shell that leaves during a turn cancels it and gets away: the task it *)
(* awaits comes to its end.                                                *)
(***************************************************************************)
LeavingEnds == ShellLeft ~> Ended

=============================================================================

--------------------------- MODULE ProcessRegistry ---------------------------
(***************************************************************************)
(* The persistent processes of one workspace: the process tool (start,     *)
(* read, write, signal, kill, status), the bounded table of handles, the   *)
(* termination protocol that a tool call and the shutdown of the workspace *)
(* share, the task that drains the output of a process into its buffer,    *)
(* and the cancellation that drops the futures of a batch at their awaits. *)
(*                                                                         *)
(* A process writes to one stream: stdout and stderr are treated alike.    *)
(* Bytes are numbered in the order in which the process wrote them.  Calls *)
(* with invalid input return before they change anything and are left out, *)
(* and so is ProcessHandle.state, which is written and never read.         *)
(***************************************************************************)
EXTENDS Naturals, Sequences, FiniteSets, SequencesExt

CONSTANTS
    Ids,           \* the process ids that are allocated, 1..n in this order
    Slots,         \* the tool calls of one batch
    Stubborn,      \* processes that the system does not let AETHER kill
    Talkative,     \* processes that write output
    MaxProcesses,  \* MAX_PERSISTENT_PROCESSES
    Capacity,      \* PROCESS_STREAM_BUFFER_BYTES
    ReadLimit,     \* the bytes one read returns at most
    MaxOutput,     \* bound: bytes that one process writes
    MaxCalls       \* bound: tool calls of the workspace

Shell  == "shell"                 \* the caller of shutdown_processes
Nobody == "nobody"
Actors == Slots \cup {Shell}

ASSUME RegistryAssumption ==
    /\ IsFiniteSet(Ids) /\ Ids = 1..Cardinality(Ids)
    /\ Stubborn \subseteq Ids /\ Talkative \subseteq Ids
    /\ Shell \notin Slots /\ Nobody \notin Actors
    /\ {MaxProcesses, Capacity, ReadLimit} \subseteq Nat \ {0}
    /\ {MaxOutput, MaxCalls} \subseteq Nat

VARIABLES
    child,     \* what became of each process: none, running, killed, exited
    table,     \* the ids in the registry
    nextId,    \* ProcessRegistry.next_id
    locked,    \* who holds the child's mutex
    output,    \* per process: bytes written, bytes drained, buffer, dropped bytes, eof
    drain,     \* the drain task: none, reading, done, aborted
    awaited,   \* whether the handle still has the drain task to wait for
    acts,      \* the calls of the batch and the shutdown: operation, process, place
    asked,     \* tool calls made so far
    cancelled, \* the turn's cancellation flag
    shutdown,  \* what the shell does: purpose, ids left, failures
    taken,     \* history: per process the bytes that reads took, and whether one saw the end
    refused    \* history: the processes that found the table full

registryVars == <<child, table, nextId, locked, output, drain, awaited, acts, asked,
                  cancelled, shutdown, taken, refused>>

Reads  == {"read", "status"}
Writes == {"write", "kill"}

\* A slot without a call; the result a call returns is not kept.
Idle == [op |-> "none", id |-> 0, pc |-> "idle", late |-> FALSE]
Busy(a) == acts[a].pc # "idle"
Return(a) == acts' = [acts EXCEPT ![a] = Idle]
Goto(a, pc) == acts' = [acts EXCEPT ![a].pc = pc]

\* The handle of a process is alive while the table or a call has it.
Held(i) == i \in table \/ \E a \in Actors : Busy(a) /\ acts[a].id = i
HeldBy(a) == { i \in Ids : acts[a].id = i /\ Busy(a) }

Running(i) == child[i] = "running"
Exited(i)  == child[i] = "exited"

-----------------------------------------------------------------------------
(* The output buffer.                                                      *)

Push(o, n) ==
    LET all  == o.bytes \o [k \in 1..n |-> o.drained + k]
        over == IF Len(all) > Capacity THEN Len(all) - Capacity ELSE 0
    IN  [o EXCEPT !.drained = @ + n,
                  !.bytes   = SubSeq(all, over + 1, Len(all)),
                  !.dropped = @ + over]

MarkEof(o) == [o EXCEPT !.eof = TRUE]

Count(o) == IF Len(o.bytes) < ReadLimit THEN Len(o.bytes) ELSE ReadLimit
Rest(o)  == SubSeq(o.bytes, Count(o) + 1, Len(o.bytes))
SeesEof(o) == o.eof /\ Rest(o) = <<>>
IsReady(o) == o.bytes # <<>> \/ o.eof

-----------------------------------------------------------------------------
(* The process and the task that reads its pipe.                           *)

ChildWrites(i) ==
    /\ Running(i) /\ i \in Talkative /\ output[i].written < MaxOutput
    /\ output' = [output EXCEPT ![i].written = @ + 1]
    /\ UNCHANGED <<child, table, nextId, locked, drain, awaited, acts, asked, cancelled, shutdown, taken, refused>>

ChildExits(i) ==
    /\ child[i] \in {"running", "killed"}
    /\ child' = [child EXCEPT ![i] = "exited"]
    /\ UNCHANGED <<table, nextId, locked, output, drain, awaited, acts, asked, cancelled, shutdown, taken, refused>>

DrainStream(i) ==
    /\ drain[i] = "reading"
    /\ \/ \E n \in 1..(output[i].written - output[i].drained) :
              /\ output' = [output EXCEPT ![i] = Push(@, n)]
              /\ UNCHANGED drain
       \/ /\ Exited(i) /\ output[i].written = output[i].drained
          /\ output' = [output EXCEPT ![i] = MarkEof(@)]
          /\ drain' = [drain EXCEPT ![i] = "done"]
    /\ UNCHANGED <<child, table, nextId, locked, awaited, acts, asked, cancelled, shutdown, taken, refused>>

\* The drop of the last handle: kill_on_drop, and the drain task is detached.
DroppedWithoutKill(gone) == child
Dropped(gone) ==
    [i \in Ids |-> IF i \in gone /\ Running(i) /\ i \notin Stubborn THEN "killed" ELSE child[i]]

-----------------------------------------------------------------------------
(* terminate_process, for a call that kills and for the shutdown.          *)

\* What try_wait tells about a process.
TryWait(i) == {"error", IF Exited(i) THEN "exited" ELSE "alive"}

\* The lock is released: termination has failed, or the drain is awaited.
TerminationFailed(a, i) ==
    /\ locked' = [locked EXCEPT ![i] = Nobody]
    /\ Goto(a, "failing")
    /\ UNCHANGED child

TerminationExited(a, i) ==
    /\ locked' = [locked EXCEPT ![i] = Nobody]
    /\ Goto(a, "draining")
    /\ UNCHANGED child

LockChild(a) ==
    /\ acts[a].pc \in {"terminate", "look"}
    /\ locked[acts[a].id] = Nobody
    /\ locked' = [locked EXCEPT ![acts[a].id] = a]
    /\ Goto(a, IF acts[a].pc = "look" THEN "looking" ELSE "killing")
    /\ UNCHANGED <<child, table, nextId, output, drain, awaited, asked, cancelled, shutdown, taken, refused>>

StartKill(a) == LET i == acts[a].id IN
    /\ acts[a].pc = "killing"
    /\ \E status \in TryWait(i) :
           \/ status = "error" /\ TerminationFailed(a, i)
           \/ status = "exited" /\ TerminationExited(a, i)
           \/ /\ status = "alive"
              /\ i \in Stubborn
              /\ TerminationFailed(a, i)
           \/ /\ status = "alive"
              /\ i \notin Stubborn
              /\ child' = [child EXCEPT ![i] = "killed"]
              /\ Goto(a, "waiting")
              /\ UNCHANGED locked
    /\ UNCHANGED <<table, nextId, output, drain, awaited, asked, cancelled, shutdown, taken, refused>>

AwaitExitForever(a) == LET i == acts[a].id IN
    /\ acts[a].pc = "waiting"
    /\ Exited(i) /\ TerminationExited(a, i)
    /\ UNCHANGED <<table, nextId, output, drain, awaited, asked, cancelled, shutdown, taken, refused>>

\* child.wait() under PROCESS_TERMINATION_TIMEOUT
AwaitExit(a) == LET i == acts[a].id IN
    /\ acts[a].pc = "waiting"
    /\ \/ Exited(i) /\ TerminationExited(a, i)
       \/ TerminationFailed(a, i)            \* the wait fails, or five seconds are over
    /\ UNCHANGED <<table, nextId, output, drain, awaited, asked, cancelled, shutdown, taken, refused>>

\* finish_drains: the task ends, or is aborted after PROCESS_DRAIN_TIMEOUT.
FinishDrains(a) == LET i == acts[a].id IN
    /\ acts[a].pc = "draining"
    /\ awaited' = [awaited EXCEPT ![i] = FALSE]
    /\ drain' = IF awaited[i] /\ drain[i] = "reading" THEN [drain EXCEPT ![i] = "aborted"] ELSE drain
    /\ Goto(a, "terminated")
    /\ UNCHANGED <<child, table, nextId, locked, output, asked, cancelled, shutdown, taken, refused>>

-----------------------------------------------------------------------------
(* The process tool.                                                       *)

\* process_footprint: calls that write to a process run alone on it.
Conflicts(op, i) ==
    \E s \in Slots : Busy(s) /\ acts[s].id = i /\ (op \in Writes \/ acts[s].op \in Writes)

First == [read |-> "take", write |-> "writing", kill |-> "terminate", status |-> "look"]

Call(s, op, i) ==
    /\ shutdown.for = "none" /\ ~cancelled /\ asked < MaxCalls
    /\ ~Busy(s) /\ asked' = asked + 1
    /\ ~Conflicts(op, i)
    /\ acts' = IF i \in table
               THEN [acts EXCEPT ![s] = [op |-> op, id |-> i, late |-> FALSE, pc |-> First[op]]]
               ELSE acts                                   \* unknown process_id
    /\ UNCHANGED <<child, table, nextId, locked, output, drain, awaited, cancelled, shutdown, taken, refused>>

\* start awaits the resolution of its directory before it spawns.
CallStart(s) ==
    /\ shutdown.for = "none" /\ ~cancelled /\ asked < MaxCalls
    /\ ~Busy(s) /\ asked' = asked + 1
    /\ acts' = [acts EXCEPT ![s] = [op |-> "start", id |-> 0, late |-> FALSE, pc |-> "resolve"]]
    /\ UNCHANGED <<child, table, nextId, locked, output, drain, awaited, cancelled, shutdown, taken, refused>>

Spawned(i) ==
    /\ child' = [child EXCEPT ![i] = "running"]
    /\ drain' = [drain EXCEPT ![i] = "reading"]
    /\ awaited' = [awaited EXCEPT ![i] = TRUE]
    /\ nextId' = nextId + 1

Spawn(s) ==
    /\ acts[s].pc = "resolve"
    /\ \/ /\ Return(s)                        \* cancelled, or nothing can be spawned
          /\ UNCHANGED <<child, drain, awaited, nextId, table, refused>>
       \/ /\ ~cancelled /\ nextId \in Ids
          /\ Spawned(nextId)
          /\ table' = IF Cardinality(table) < MaxProcesses THEN table \cup {nextId} ELSE table
          /\ refused' = refused \cup ({nextId} \ table')
          /\ acts' = [acts EXCEPT ![s].id = nextId,
                                  ![s].pc = IF nextId \in table' THEN "started" ELSE "terminate"]
    /\ UNCHANGED <<locked, output, asked, cancelled, shutdown, taken>>

\* finish_cancelled_start takes over when the flag is seen after the insertion.
Started(s) ==
    /\ acts[s].pc = "started"
    /\ IF cancelled THEN Goto(s, "terminate") ELSE Return(s)
    /\ UNCHANGED <<child, table, nextId, locked, output, drain, awaited, asked, cancelled, shutdown, taken, refused>>

\* What a call makes of the termination; the handle of a refused start is dropped.
Conclude(s) == LET i == acts[s].id IN
    /\ s \in Slots /\ acts[s].pc \in {"terminated", "failing"}
    /\ table' = IF acts[s].pc = "terminated" THEN table \ {i} ELSE table
    /\ Return(s)
    /\ child' = Dropped({i} \ table)
    /\ UNCHANGED <<nextId, locked, output, drain, awaited, asked, cancelled, shutdown, taken, refused>>

Read(s) == LET i == acts[s].id IN
    /\ acts[s].pc = "take"
    /\ \/ /\ cancelled
          /\ Return(s)
          /\ UNCHANGED <<output, taken>>
       \/ /\ IsReady(output[i])
          /\ Return(s)
          /\ taken' = [taken EXCEPT ![i].bytes = @ \o SubSeq(output[i].bytes, 1, Count(output[i])),
                                    ![i].end   = @ \/ SeesEof(output[i])]
          /\ output' = [output EXCEPT ![i].bytes = Rest(output[i])]
       \/ /\ ~IsReady(output[i])
          /\ IF acts[s].late THEN Return(s) ELSE Goto(s, "wait")
          /\ UNCHANGED <<output, taken>>
    /\ UNCHANGED <<child, table, nextId, locked, drain, awaited, asked, cancelled, shutdown, refused>>

\* The reader wakes: by the notifier, after ten milliseconds, or at its deadline.
Wake(s) ==
    /\ acts[s].pc = "wait"
    /\ \/ Goto(s, "take")
       \/ acts[s].late /\ Return(s)
    /\ UNCHANGED <<child, table, nextId, locked, output, drain, awaited, asked, cancelled, shutdown, taken, refused>>

Deadline(s) ==
    /\ acts[s].pc \in {"take", "wait"} /\ ~acts[s].late
    /\ acts' = [acts EXCEPT ![s].late = TRUE]
    /\ UNCHANGED <<child, table, nextId, locked, output, drain, awaited, asked, cancelled, shutdown, taken, refused>>

\* A write ends when the process has read everything, is dead, or the turn is cancelled.
Write(s) ==
    /\ acts[s].pc = "writing"
    /\ Return(s)
    /\ UNCHANGED <<child, table, nextId, locked, output, drain, awaited, asked, cancelled, shutdown, taken, refused>>

Status(s) == LET i == acts[s].id IN
    /\ acts[s].pc = "looking"
    /\ Return(s)
    /\ locked' = [locked EXCEPT ![i] = Nobody]
    /\ UNCHANGED <<child, table, nextId, output, drain, awaited, asked, cancelled, shutdown, taken, refused>>

-----------------------------------------------------------------------------
(* Cancellation: the futures of the batch are dropped where they stand.    *)

Cancel ==
    /\ shutdown.for = "none" /\ ~cancelled /\ \E s \in Slots : Busy(s)
    /\ cancelled' = TRUE
    /\ UNCHANGED <<child, table, nextId, locked, output, drain, awaited, acts, asked, shutdown, taken, refused>>

DropBatch ==
    /\ cancelled
    /\ acts' = [a \in Actors |-> IF a \in Slots /\ Busy(a) THEN Idle ELSE acts[a]]
    /\ locked' = [i \in Ids |-> IF locked[i] \in Slots THEN Nobody ELSE locked[i]]
    /\ awaited' = [i \in Ids |-> awaited[i] /\ \A s \in Slots : ~(acts[s].id = i /\ acts[s].pc = "draining")]
    /\ child' = Dropped((UNION { HeldBy(s) : s \in Slots }) \ table)
    /\ cancelled' = FALSE
    /\ UNCHANGED <<table, nextId, output, drain, asked, shutdown, taken, refused>>

-----------------------------------------------------------------------------
(* shutdown_processes: the shell closes the session or changes the model,  *)
(* when the turn's task has ended.                                         *)

BeginShutdownAtOnce(purpose) ==
    /\ shutdown.for = "none"
    /\ shutdown' = [for |-> purpose, left |-> table, failures |-> {}]
    /\ UNCHANGED <<child, table, nextId, locked, output, drain, awaited, acts, asked, cancelled, taken, refused>>

BeginShutdown(purpose) ==
    /\ shutdown.for = "none"
    /\ ~cancelled /\ \A s \in Slots : ~Busy(s)
    /\ shutdown' = [for |-> purpose, left |-> table, failures |-> {}]
    /\ UNCHANGED <<child, table, nextId, locked, output, drain, awaited, acts, asked, cancelled, taken, refused>>

ShutdownNext(i) ==
    /\ shutdown.for \in {"close", "switch"} /\ ~Busy(Shell) /\ i \in shutdown.left
    /\ acts' = [acts EXCEPT ![Shell] = [op |-> "kill", id |-> i, late |-> FALSE, pc |-> "terminate"]]
    /\ shutdown' = [shutdown EXCEPT !.left = @ \ {i}]
    /\ UNCHANGED <<child, table, nextId, locked, output, drain, awaited, asked, cancelled, taken, refused>>

ShutdownOne == LET i == acts[Shell].id IN
    /\ acts[Shell].pc \in {"terminated", "failing"}
    /\ IF acts[Shell].pc = "terminated"
       THEN table' = table \ {i} /\ UNCHANGED shutdown
       ELSE shutdown' = [shutdown EXCEPT !.failures = @ \cup {i}] /\ UNCHANGED table
    /\ Return(Shell)
    /\ UNCHANGED <<child, nextId, locked, output, drain, awaited, asked, cancelled, taken, refused>>

\* A model change keeps the workspace when a process is left; else it is dropped.
EndShutdown ==
    /\ shutdown.for \in {"close", "switch"} /\ ~Busy(Shell) /\ shutdown.left = {}
    /\ \/ /\ shutdown.for = "switch" /\ shutdown.failures # {}
          /\ shutdown' = [shutdown EXCEPT !.for = "none"]
          /\ UNCHANGED <<table, child>>
       \/ /\ shutdown.for = "close" \/ shutdown.failures = {}
          /\ shutdown' = [shutdown EXCEPT !.for = "closed"]
          /\ table' = {}
          /\ child' = Dropped(table)
    /\ UNCHANGED <<nextId, locked, output, drain, awaited, acts, asked, cancelled, taken, refused>>

-----------------------------------------------------------------------------
RegistryInit ==
    /\ child = [i \in Ids |-> "none"] /\ table = {} /\ nextId = 1
    /\ locked = [i \in Ids |-> Nobody]
    /\ output = [i \in Ids |-> [written |-> 0, drained |-> 0, bytes |-> <<>>, dropped |-> 0, eof |-> FALSE]]
    /\ drain = [i \in Ids |-> "none"] /\ awaited = [i \in Ids |-> FALSE]
    /\ acts = [a \in Actors |-> Idle] /\ asked = 0 /\ cancelled = FALSE
    /\ shutdown = [for |-> "none", left |-> {}, failures |-> {}]
    /\ taken = [i \in Ids |-> [bytes |-> <<>>, end |-> FALSE]] /\ refused = {}

Terminate(a) == LockChild(a) \/ StartKill(a) \/ AwaitExit(a) \/ FinishDrains(a)

CallStep(s) == Spawn(s) \/ Started(s) \/ Conclude(s) \/ Read(s) \/ Wake(s) \/ Status(s) \/ Terminate(s)

ShellStep == (\E i \in Ids : ShutdownNext(i)) \/ ShutdownOne \/ EndShutdown \/ Terminate(Shell)

RegistryNext ==
    \/ \E i \in Ids : ChildWrites(i) \/ ChildExits(i) \/ DrainStream(i)
    \/ \E s \in Slots : CallStart(s) \/ CallStep(s) \/ Deadline(s) \/ Write(s)
    \/ \E s \in Slots, op \in Reads \cup Writes, i \in Ids : Call(s, op, i)
    \/ Cancel \/ DropBatch
    \/ \E purpose \in {"close", "switch"} : BeginShutdown(purpose)
    \/ ShellStep

\* Tokio polls every future that can move, timers fire, and the shell goes on.
RegistryFairness ==
    /\ \A s \in Slots : WF_registryVars(CallStep(s)) /\ WF_registryVars(Deadline(s))
    /\ WF_registryVars(DropBatch) /\ WF_registryVars(ShellStep)

RegistrySpec == RegistryInit /\ [][RegistryNext]_registryVars /\ RegistryFairness

-----------------------------------------------------------------------------
(* Properties.                                                             *)

(* No process is left alone: one that runs and that AETHER never tried to  *)
(* kill is in the table, where the shutdown finds it, or belongs to a call *)
(* in progress, unless the system refuses the kill.  It is about start on a*)
(* full table, a start cancelled half way and the drop of a handle.        *)
NothingRunsUnowned ==
    \A i \in Ids : Running(i) /\ i \notin Stubborn => Held(i)

(* After a shutdown without failures every process that was registered is  *)
(* dead: the snapshot misses none, because no call is in progress that     *)
(* could register another one, and none is taken for dead too early.       *)
CleanShutdownLeavesNothing ==
    shutdown.for = "closed" /\ shutdown.failures = {}
        => \A i \in Ids \ refused : child[i] \in {"none", "exited"}

InOrder(s) == \A m, n \in 1..Len(s) : m < n => s[m] < s[n]

(* What reads return is what the process wrote, in order and once, less the*)
(* bytes counted as dropped; a read that reports the end has the last byte.*)
OutputIsAccountedFor ==
    \A i \in Ids : LET o == output[i] IN
        /\ Len(taken[i].bytes) + Len(o.bytes) + o.dropped = o.drained
        /\ InOrder(taken[i].bytes)
        /\ taken[i].end => o.bytes = <<>> /\ o.drained = o.written

(* Every call other than a write ends: a read by its deadline, a kill by   *)
(* the two timeouts of the termination, a status when it gets the child.   *)
ProcessCallsEnd == \A s \in Slots : Busy(s) /\ acts[s].op # "write" ~> ~Busy(s)

-----------------------------------------------------------------------------
(* The inductive invariant behind the two properties of the shutdown.      *)

Places == {"idle", "resolve", "started", "terminate", "killing", "waiting", "draining", "terminated",
           "failing", "take", "wait", "writing", "look", "looking"}

CallStates == [op : {"none", "start"} \cup Reads \cup Writes, id : Nat, late : BOOLEAN, pc : Places]

(* The types of what the proof looks at.                                   *)
RegistryTypeOK ==
    /\ child \in [Ids -> {"none", "running", "killed", "exited"}]
    /\ table \subseteq Ids /\ nextId \in Nat
    /\ acts \in [Actors -> CallStates]
    /\ cancelled \in BOOLEAN
    /\ shutdown \in [for : {"none", "close", "switch", "closed"}, left : SUBSET Ids,
                     failures : SUBSET Ids]
    /\ refused \subseteq Ids

ShuttingDown == shutdown.for \in {"close", "switch"}

(* An id that is not allocated yet is nobody's.                            *)
FreshInv ==
    \A i \in Ids :
        /\ child[i] = "none" <=> i >= nextId
        /\ i >= nextId => i \notin table /\ \A a \in Actors : Busy(a) => acts[a].id # i

(* What a call knows of its process: while it is at work on a process that *)
(* runs, the process is in the table, or the call is one that gives it up  *)
(* only by a termination, at the end of which the handle is dropped.       *)
CallInv ==
    \A a \in Actors : Busy(a) =>
        /\ acts[a].pc = "resolve" <=> acts[a].id \notin Ids
        /\ acts[a].pc \in {"draining", "terminated"} => Exited(acts[a].id)
        /\ acts[a].pc # "resolve" /\ Running(acts[a].id) /\ acts[a].id \notin table =>
               a \in Slots /\ acts[a].pc \in {"terminate", "killing", "waiting", "failing"}
        /\ a = Shell => ShuttingDown /\ acts[a].pc # "resolve"

(* A shutdown has its workspace for itself, and works on the whole table.  *)
ShutdownInv ==
    /\ shutdown.for # "none" => \A s \in Slots : ~Busy(s)
    /\ shutdown.left \subseteq table
    /\ shutdown.left # {} => ShuttingDown
    /\ Busy(Shell) => acts[Shell].id \notin shutdown.left
    /\ ShuttingDown => table \subseteq shutdown.left \cup shutdown.failures \cup HeldBy(Shell)
    /\ shutdown.for # "closed" =>
           \A i \in Ids \ refused : child[i] \in {"running", "killed"} => i \in table

RegistryInv ==
    /\ RegistryTypeOK /\ FreshInv /\ CallInv /\ ShutdownInv
    /\ NothingRunsUnowned /\ CleanShutdownLeavesNothing

-----------------------------------------------------------------------------
(* The inductive invariant behind the output that reads take.              *)

Outputs == [written : Nat, drained : Nat, bytes : Seq(Nat), dropped : Nat, eof : BOOLEAN]
Takings == [bytes : Seq(Nat), end : BOOLEAN]

(* Buffer o and what was taken from it, t: in order from one to the other, *)
(* and all of it written; the end is marked when nobody writes any more.   *)
Accounted(o, t, gone) ==
    /\ Len(t.bytes) + Len(o.bytes) + o.dropped = o.drained /\ o.drained <= o.written
    /\ InOrder(t.bytes) /\ InOrder(o.bytes)
    /\ \A m \in 1..Len(t.bytes), n \in 1..Len(o.bytes) : t.bytes[m] < o.bytes[n]
    /\ \A m \in 1..Len(t.bytes) : t.bytes[m] <= o.drained
    /\ \A n \in 1..Len(o.bytes) : o.bytes[n] <= o.drained
    /\ o.eof => gone /\ o.drained = o.written
    /\ t.end => o.eof /\ o.bytes = <<>>

OutputInv ==
    /\ output \in [Ids -> Outputs] /\ taken \in [Ids -> Takings]
    /\ \A i \in Ids : Accounted(output[i], taken[i], Exited(i))
=============================================================================

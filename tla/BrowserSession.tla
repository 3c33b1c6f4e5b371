--------------------------- MODULE BrowserSession ---------------------------
(***************************************************************************)
(* The optional Obscura browser of a session: the shell's /browser command *)
(* and its other uses of the provider, ObscuraSupervisor with its process  *)
(* and its line-delimited JSON-RPC channel, and the private storage state  *)
(* that a stop saves and a launch restores.                                *)
(*                                                                         *)
(* Browser calls are exclusive on the session and the shell works between  *)
(* turns, so one task at a time uses the supervisor.  A cancelled turn     *)
(* drops the future of a call wherever it waits; AETHER may be killed.     *)
(* The provider is external: it answers requests in order, slowly, with an *)
(* error, with too long a frame, stops reading its input for good, or dies.*)
(***************************************************************************)
EXTENDS Naturals, Sequences, FiniteSets

CONSTANTS
    Origins,     \* the sites whose storage the browser keeps
    Supports,    \* whether the provider offers the two storage tools
    MaxTasks,    \* bound: launches, calls and stops
    MaxVersion,  \* bound: writes of a page to its storage
    MaxCrashes   \* bound: times AETHER is killed

ASSUME BrowserAssumption ==
    /\ Supports \in BOOLEAN
    /\ {MaxTasks, MaxVersion, MaxCrashes} \subseteq Nat

VARIABLES
    provider,  \* the child process: none, running, exited
    requests,  \* ids on the provider's stdin, 0 for what is no frame
    deaf,      \* the provider reads no more of its stdin
    frames,    \* what the provider wrote and nobody has read yet
    nextReq,   \* McpConnection.next_id
    conn,      \* whether the supervisor has its connection
    usable,    \* the supervisor's flags active and healthy, which change together
    attached,  \* whether the shell has a supervisor
    pending,   \* pending_storage_state: the saved storage per origin, 0 for none
    task,      \* the work in progress
    page,      \* the browser's storage per origin, as a version
    saved,     \* browser_storage_state.json
    temps,     \* temporary files left beside it
    counter,   \* NEXT_SESSION_ID of this process
    tasks, crashes,
    answer,    \* history: the request and the response of the last successful call
    stopped    \* history: what the last stop that reported success had exported

browserVars == <<provider, requests, deaf, frames, nextReq, conn, usable, attached, pending, task, page,
                 saved, temps, counter, tasks, crashes, answer, stopped>>
channel == <<requests, deaf, frames, nextReq>>
disk    == <<saved, temps>>
shellVars == <<attached, pending, counter, tasks>>
history == <<crashes, answer, stopped>>

Nothing == [o \in Origins |-> 0]
NoTask  == [kind |-> "idle", todo |-> <<>>, pc |-> "next", want |-> 0, origin |-> 0,
            failed |-> FALSE, export |-> Nothing]

\* The requests of the six operations; a navigation restores the origin's storage.
Plans == [tool |-> <<"tool">>, navigate |-> <<"navigate", "restore">>,
          audit |-> <<"navigate", "restore", "evaluate">>]

Free == task.kind = "idle"
Drops == provider' = IF provider = "running" THEN "exited" ELSE provider   \* kill_on_drop

-----------------------------------------------------------------------------
(* The provider.                                                           *)

Answer ==
    /\ provider = "running" /\ ~deaf /\ requests # <<>>
    /\ \E kind \in {"result", "rejected", "error", "huge"} :
           frames' = Append(frames, [id |-> Head(requests), kind |-> IF Head(requests) = 0 THEN "error" ELSE kind])
    /\ requests' = Tail(requests)
    /\ UNCHANGED <<provider, deaf, nextReq, conn, usable, task, page, shellVars, disk, history>>

Notify ==
    /\ provider = "running" /\ frames = <<>>
    /\ frames' = Append(frames, [id |-> 0, kind |-> "notice"])
    /\ UNCHANGED <<provider, requests, deaf, nextReq, conn, usable, task, page, shellVars, disk, history>>

\* What is in the pipe stays there.  Before a frame is to be written it is a provider
\* that has not answered yet, and a stall that ends is a slow one.
StopsReading ==
    /\ provider = "running" /\ ~deaf /\ task.pc = "write"
    /\ deaf' = TRUE
    /\ UNCHANGED <<provider, requests, frames, nextReq, conn, usable, task, page, shellVars, disk, history>>

ProviderExits ==
    /\ provider = "running"
    /\ provider' = "exited"
    /\ UNCHANGED <<channel, conn, usable, task, page, shellVars, disk, history>>

PageStores(o) ==
    /\ provider = "running" /\ conn /\ Free /\ page[o] < MaxVersion /\ page[o] # 0
    /\ page' = [page EXCEPT ![o] = @ + 1]
    /\ UNCHANGED <<provider, channel, conn, usable, task, shellVars, disk, history>>

-----------------------------------------------------------------------------
(* The end of a task.                                                      *)

\* should_invalidate: errors of the tool and an overlong frame keep the session.
Invalidates(error) == error \notin {"none", "McpError", "FrameLimit", "Rejected"}

\* A call ends; an error of the channel drops the connection, and with it the process.
EndCall(error) ==
    /\ task' = NoTask
    /\ IF Invalidates(error)
       THEN conn' = FALSE /\ usable' = FALSE /\ Drops
       ELSE UNCHANGED <<conn, usable, provider>>
    /\ UNCHANGED <<attached, pending, counter, stopped>>

\* A launch that fails at any of its requests drops the connection it has built.
FailLaunch ==
    /\ task' = NoTask /\ Drops
    /\ UNCHANGED <<conn, usable, attached, pending, counter, stopped>>

\* A stop goes on without the export.
SkipExport ==
    /\ task' = [task EXCEPT !.todo = <<>>, !.pc = "close", !.failed = TRUE]
    /\ UNCHANGED <<conn, usable, provider, attached, pending, counter, stopped>>

Fail(error) ==
    CASE task.kind = "call"   -> EndCall(error)
      [] task.kind = "launch" -> FailLaunch
      [] task.kind = "stop"   -> SkipExport

StopTask ==
    [NoTask EXCEPT !.kind = "stop", !.todo = IF Supports THEN <<"export">> ELSE <<>>,
                   !.pc = IF Supports THEN "next" ELSE "close"]

\* The next request, or the end: the export is saved; the supervisor is registered, or
\* shut down again because the old agent's processes cannot be ended.
Proceed ==
    LET rest == Tail(task.todo) IN
    IF rest # <<>> THEN /\ task' = [task EXCEPT !.todo = rest, !.pc = "next"]
                        /\ UNCHANGED <<conn, usable, provider, attached, pending, counter, stopped>>
    ELSE CASE task.kind = "call" -> EndCall("none")
           [] task.kind = "stop" -> /\ task' = [task EXCEPT !.todo = <<>>, !.pc = "create", !.export = page]
                                    /\ UNCHANGED <<conn, usable, provider, attached, pending, counter, stopped>>
           [] task.kind = "launch" ->
                /\ counter' = counter + 1
                /\ \/ /\ task' = NoTask
                      /\ conn' = TRUE /\ usable' = TRUE /\ attached' = TRUE
                      /\ pending' = IF Supports THEN saved ELSE Nothing
                   \/ task' = StopTask /\ UNCHANGED <<conn, usable, attached, pending>>
                /\ UNCHANGED <<provider, stopped>>

-----------------------------------------------------------------------------
(* Requests and responses: McpConnection::request.                         *)

Skips == task.todo[1] = "restore" /\ (~Supports \/ pending[task.origin] = 0)

\* The next request takes its id; a call looks at its cancellation flag first.
Send ==
    /\ ~Free /\ task.pc = "next" /\ task.todo # <<>>
    /\ \/ /\ Skips /\ Proceed
          /\ UNCHANGED channel
       \/ /\ ~Skips
          /\ nextReq' = nextReq + 1
          /\ task' = [task EXCEPT !.pc = "write", !.want = nextReq]
          /\ UNCHANGED <<requests, deaf, frames, conn, usable, provider, attached, pending, counter, stopped>>
       \/ /\ ~Skips /\ task.kind = "call"
          /\ Fail("Cancelled")
          /\ UNCHANGED channel
    /\ UNCHANGED <<page, disk, tasks, crashes, answer>>

FrameIsIn ==
    /\ requests' = Append(requests, task.want)
    /\ task' = [task EXCEPT !.pc = "await"]
    /\ UNCHANGED <<deaf, frames, nextReq, conn, usable, provider, attached, pending, counter, stopped>>

\* write_frame waits without a timeout and without a look at the cancellation flag: it
\* ends when the provider has read enough, or is gone.
WriteFrame ==
    /\ task.pc = "write"
    /\ \/ provider = "running" /\ ~deaf /\ FrameIsIn
       \/ provider # "running" /\ Fail("Process") /\ UNCHANGED channel
    /\ UNCHANGED <<page, disk, tasks, crashes, answer>>

\* The frame of a provider that reads no more fits into what is left of the pipe.
WriteUnread ==
    /\ task.pc = "write" /\ provider = "running" /\ deaf /\ FrameIsIn
    /\ UNCHANGED <<page, disk, tasks, crashes, answer>>

\* read_response on the first frame: what it is to the request that waits for `want'.
VerdictOfAny(f, want) == CASE f.kind = "result" -> "none" [] OTHER -> "McpError"

VerdictOfKind == [error |-> "McpError", rejected |-> "Rejected", result |-> "none"]

Verdict(f, want) ==
    CASE f.kind = "rest"     -> "Framing"
      [] f.kind = "huge"     -> "FrameLimit"
      [] f.kind = "notice"   -> "UnsupportedServerMessage"
      [] f.kind \notin {"rest", "huge", "notice"} ->
            IF f.id # want THEN "Protocol"
            ELSE VerdictOfKind[f.kind]

\* What a request does to the browser when it succeeds.
Effect ==
    LET o == task.origin IN
    page' = CASE task.todo[1] = "navigate" /\ page[o] = 0 -> [page EXCEPT ![o] = 1]
              [] task.todo[1] = "restore"                 -> [page EXCEPT ![o] = pending[o]]
              [] OTHER                                    -> page

Receive ==
    /\ task.pc = "await" /\ frames # <<>>
    /\ LET verdict == Verdict(Head(frames), task.want) IN
       /\ frames' = IF verdict = "FrameLimit" THEN <<[id |-> 0, kind |-> "rest"]>> \o Tail(frames) ELSE Tail(frames)
       /\ IF verdict = "none"
          THEN /\ Proceed /\ Effect
               /\ answer' = [want |-> task.want, got |-> Head(frames).id]
          ELSE /\ Fail(verdict)
               /\ UNCHANGED <<page, answer>>
    /\ UNCHANGED <<requests, deaf, nextReq, disk, tasks, crashes>>

ReceiveWithoutTimeout ==
    /\ task.pc = "await"
    /\ \/ provider # "running" /\ frames = <<>> /\ Fail("Process")
       \/ task.kind = "call" /\ Fail("Cancelled")
    /\ UNCHANGED <<channel, page, disk, tasks, crashes, answer>>

\* The pipe is closed, the time is over, or the cancellation flag is seen.
ReceiveNothing ==
    /\ task.pc = "await"
    /\ \/ provider # "running" /\ frames = <<>> /\ Fail("Process")
       \/ Fail("Timeout")
       \/ task.kind = "call" /\ Fail("Cancelled")
    /\ UNCHANGED <<channel, page, disk, tasks, crashes, answer>>

\* The turn is cancelled and the future of the call dropped: half a request may be
\* written, half a response read, and the supervisor learns nothing of it.
DropCall ==
    /\ task.kind = "call"
    /\ \/ /\ task.pc = "await"
          /\ \/ frames' = frames
             \/ frames # <<>> /\ frames' = <<[id |-> 0, kind |-> "rest"]>> \o Tail(frames)
          /\ UNCHANGED requests
       \/ /\ task.pc \in {"next", "write"}
          /\ \/ requests' = requests
             \/ task.pc = "write" /\ requests' = Append(requests, 0)
          /\ UNCHANGED frames
    /\ task' = NoTask
    /\ UNCHANGED <<provider, deaf, nextReq, conn, usable, page, shellVars, disk, history>>

-----------------------------------------------------------------------------
(* The operations of the supervisor.                                       *)

\* dispatch_browser_input, for a healthy supervisor; invoke finds out that the
\* process is gone before it sends anything.
BrowserCall(op, o) ==
    /\ Free /\ attached /\ usable /\ conn /\ tasks < MaxTasks
    /\ tasks' = tasks + 1
    /\ IF provider = "running"
       THEN /\ task' = [NoTask EXCEPT !.kind = "call", !.todo = Plans[op], !.origin = o]
            /\ UNCHANGED <<conn, usable>>
       ELSE conn' = FALSE /\ usable' = FALSE /\ UNCHANGED task
    /\ UNCHANGED <<provider, channel, page, attached, pending, counter, disk, history>>

\* ensure_obscura keeps a provider that is active and healthy.
Reusable == attached /\ usable /\ conn /\ provider = "running"

\* McpConnection::spawn: a new process with empty pipes.
SpawnProvider == /\ provider' = "running" /\ deaf' = FALSE
                 /\ requests' = <<>> /\ frames' = <<>> /\ nextReq' = 1

\* handshake, then the cookies of the saved state when there is one.
LaunchPlan == IF Supports /\ saved # Nothing THEN <<"initialize", "list", "bootstrap">> ELSE <<"initialize", "list">>

\* launch, after the old provider was shut down.
Launch ==
    /\ Free /\ ~Reusable /\ tasks < MaxTasks
    /\ tasks' = tasks + 1
    /\ attached' = FALSE /\ conn' = FALSE /\ usable' = FALSE
    /\ SpawnProvider
    /\ page' = Nothing /\ pending' = Nothing
    /\ task' = [NoTask EXCEPT !.kind = "launch", !.todo = LaunchPlan]
    /\ UNCHANGED <<counter, disk, history>>

\* status and detach_unhealthy_obscura notice a process that is gone.
Notice ==
    /\ Free /\ attached
    /\ \/ usable /\ conn /\ provider = "exited"
       \/ ~usable
    /\ attached' \in {attached, FALSE}
    /\ conn' = FALSE /\ usable' = FALSE
    /\ <<attached', usable'>> # <<attached, usable>>
    /\ UNCHANGED <<provider, channel, task, page, pending, counter, tasks, disk, history>>

\* /browser stop, /clear and the end of the session: shutdown.
Stop ==
    /\ Free /\ attached /\ tasks < MaxTasks
    /\ tasks' = tasks + 1
    /\ attached' = FALSE /\ usable' = FALSE /\ conn' = FALSE
    /\ task' = IF conn THEN StopTask ELSE NoTask
    /\ UNCHANGED <<provider, channel, page, pending, counter, disk, history>>

\* write_storage_state: a new temporary file, its content, then the rename.
CreateTemporary ==
    /\ task.pc = "create"
    /\ counter' = counter + 1
    /\ IF counter \in temps
       THEN /\ temps' = temps \ {counter}           \* create_new fails; the file is removed
            /\ task' = [task EXCEPT !.pc = "close", !.failed = TRUE]
       ELSE /\ temps' = temps \cup {counter}
            /\ task' = [task EXCEPT !.pc = "rename"]
    /\ UNCHANGED <<provider, channel, conn, usable, page, attached, pending, tasks, saved, history>>

RenameUnchecked ==
    /\ task.pc = "rename"
    /\ task' = [task EXCEPT !.pc = "close"]
    /\ \/ saved' = task.export
       \/ UNCHANGED saved
    /\ temps' = temps \ {counter - 1}
    /\ UNCHANGED <<provider, channel, conn, usable, page, shellVars, history>>

Rename ==
    /\ task.pc = "rename"
    /\ \/ saved' = task.export /\ task' = [task EXCEPT !.pc = "close"]
       \/ UNCHANGED saved /\ task' = [task EXCEPT !.pc = "close", !.failed = TRUE]
    /\ temps' = temps \ {counter - 1}
    /\ UNCHANGED <<provider, channel, conn, usable, page, shellVars, history>>

\* The provider's stdin is closed; it ends within two seconds, or is killed.
Close ==
    /\ task.pc = "close"
    /\ provider' = "exited"
    /\ task' = NoTask
    /\ stopped' = IF Supports /\ ~task.failed THEN <<task.export>> ELSE <<>>
    /\ UNCHANGED <<channel, conn, usable, page, shellVars, disk, crashes, answer>>

\* AETHER is killed: the provider sees the end of its input; only files remain.
Crash ==
    /\ crashes < MaxCrashes
    /\ crashes' = crashes + 1
    /\ provider' = "none" /\ deaf' = FALSE /\ requests' = <<>> /\ frames' = <<>> /\ nextReq' = 1
    /\ conn' = FALSE /\ usable' = FALSE /\ attached' = FALSE
    /\ pending' = Nothing /\ page' = Nothing /\ task' = NoTask /\ counter' = 1
    /\ stopped' = <<>>
    /\ UNCHANGED <<disk, tasks, answer>>

-----------------------------------------------------------------------------
BrowserInit ==
    /\ provider = "none" /\ deaf = FALSE /\ requests = <<>> /\ frames = <<>> /\ nextReq = 1
    /\ conn = FALSE /\ usable = FALSE /\ attached = FALSE
    /\ pending = Nothing /\ task = NoTask /\ page = Nothing
    /\ saved = Nothing /\ temps = {} /\ counter = 1 /\ tasks = 0 /\ crashes = 0
    /\ answer = [want |-> 0, got |-> 0] /\ stopped = <<>>

TaskStep == Send \/ WriteFrame \/ Receive \/ ReceiveNothing \/ CreateTemporary \/ Rename \/ Close

BrowserNext ==
    \/ Answer \/ Notify \/ StopsReading \/ ProviderExits
    \/ \E o \in Origins : PageStores(o)
    \/ TaskStep \/ WriteUnread \/ DropCall
    \/ \E op \in DOMAIN Plans, o \in Origins : BrowserCall(op, o)
    \/ Launch \/ Notice \/ Stop \/ Crash

\* Tokio polls the task, and each of its waits but the write of a frame has a timeout.
BrowserFairness == WF_browserVars(TaskStep)

BrowserSpec == BrowserInit /\ [][BrowserNext]_browserVars /\ BrowserFairness

-----------------------------------------------------------------------------
(* Properties.                                                             *)

(* A browser operation returns the response to its own request.  Calls are *)
(* cancelled, time out and leave responses, or halves of them, in the pipe *)
(* of a session that stays in use; only the check of the id tells.         *)
AnswersMatchRequests == answer.want = answer.got

(* A stop tells the truth: one that reports success has saved the storage  *)
(* state it exported, so that no temporary left by a crash and no failed   *)
(* rename is taken for a save; and once the shell has no supervisor and no *)
(* task at work, no provider runs.                                         *)
StopTellsTheTruth ==
    /\ stopped # <<>> /\ task.kind # "stop" => stopped[1] = saved
    /\ ~attached /\ Free => provider # "running"

(* Every operation of the supervisor ends, with one exception: the write of*)
(* a frame has no timeout, so a launch, a call or a stop whose provider    *)
(* lives on and reads no more can wait for the pipe as long as that lasts  *)
(* (a call until its turn is cancelled).  Silence, garbage, stray messages,*)
(* a death at any point and a provider that stops reading once the request *)
(* is written all end the operation.                                       *)
WritesToTheDeaf == task.pc = "write" /\ deaf /\ provider = "running"

BrowserWorkEnds == ~Free ~> (Free \/ []WritesToTheDeaf)

-----------------------------------------------------------------------------
(* The inductive invariant behind the first two.                           *)

Requests == {"initialize", "list", "bootstrap", "tool", "navigate", "restore", "evaluate", "export"}

Storages == [Origins -> Nat]

TaskPlaces == {"next", "write", "await", "create", "rename", "close"}

Tasks == [kind : {"idle", "launch", "call", "stop"}, todo : Seq(Requests), pc : TaskPlaces, want : Nat,
          origin : Origins \cup {0}, failed : BOOLEAN, export : Storages]

BrowserTypeOK ==
    /\ provider \in {"none", "running", "exited"}
    /\ conn \in BOOLEAN /\ usable \in BOOLEAN /\ attached \in BOOLEAN
    /\ task \in Tasks /\ nextReq \in Nat
    /\ page \in Storages /\ pending \in Storages /\ saved \in Storages

(* Where a task can be, and that only a stop writes.                       *)
TaskInv ==
    /\ Free => task = NoTask
    /\ task.pc \in {"write", "await"} => task.todo # <<>>
    /\ task.pc \in {"create", "rename", "close"} => task.kind = "stop"

(* A provider that runs is in somebody's hands: the supervisor, in use and *)
(* attached, has its connection, or a task will end it.                    *)
ProviderInv ==
    /\ Free /\ provider = "running" => attached /\ conn /\ usable
    /\ task.kind = "call" => attached /\ conn /\ usable

(* A stop that has not failed when it closes has its export on disk.       *)
ExportInv ==
    task.kind = "stop" /\ task.pc = "close" /\ Supports /\ ~task.failed => saved = task.export

BrowserInv ==
    /\ BrowserTypeOK /\ TaskInv /\ ProviderInv /\ ExportInv
    /\ AnswersMatchRequests /\ StopTellsTheTruth

=============================================================================

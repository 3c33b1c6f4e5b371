-------------------------- MODULE ChildProcessProofs --------------------------
(***************************************************************************)
(* For any number of processes, calls, sites and bytes: no persistent      *)
(* process is left alone, a shutdown without failures leaves none behind,  *)
(* and reads take the output in order and once; the browser returns the    *)
(* answer to its own request and tells the truth about what it saved; and a*)
(* credential is the whole of what the helper printed.                     *)
(*                                                                         *)
(* The registry: a process is in safe hands because of what the call that  *)
(* holds it is about to do (CallInv), and the shutdown is complete because *)
(* nothing else runs while it goes through its snapshot (ShutdownInv); what*)
(* is taken, what is in the buffer and what is still in the pipe follow one*)
(* another (Accounted), until the process has exited and nothing follows.  *)
(*                                                                         *)
(* The browser: a provider that runs is in use, with its connection, or a  *)
(* task is at work that ends it (ProviderInv), and only a stop writes the  *)
(* storage state (TaskInv), of what it has exported (ExportInv).           *)
(*                                                                         *)
(* The helper: once the reader has reached the end of the pipe nobody is   *)
(* left who could print (ReaderInv), and helper_key holds nothing else than*)
(* what the reader sent and the status of the command (AskerInv).          *)
(***************************************************************************)
EXTENDS MCChildProcesses, FiniteSetTheorems, SequenceTheorems, TLAPS

-----------------------------------------------------------------------------
(* The processes of the registry.                                          *)

LEMMA IdsAreNumbers == Ids \subseteq Nat
BY RegistryAssumption, FS_CardinalityType DEF RegistryAssumption

USE DEF CallStates

LEMMA ActorsDiffer == Shell \notin Slots /\ Slots \subseteq Actors /\ Shell \in Actors
BY RegistryAssumption DEF RegistryAssumption, Actors

(* A step of one call that leaves processes, table and shutdown alone.     *)
LEMMA QuietStep ==
    ASSUME RegistryInv, NEW a \in Actors, NEW x \in CallStates,
           acts' = [acts EXCEPT ![a] = x],
           UNCHANGED <<child, table, nextId, shutdown, refused>>, cancelled' \in BOOLEAN,
           a = Shell => Busy(a) /\ x.pc \notin {"idle", "resolve"},
           Busy(a) /\ x.pc # "idle" => x.id = acts[a].id,
           shutdown.for # "none" => a = Shell,
           x.pc # "idle" => IF x.pc = "resolve" THEN x.id \notin Ids
                            ELSE x.id \in Ids /\ x.id < nextId,
           x.pc \in {"draining", "terminated"} => Exited(x.id),
           x.pc \notin {"idle", "resolve"} /\ Running(x.id) /\ x.id \notin table =>
               a \in Slots /\ x.pc \in {"terminate", "killing", "waiting", "failing"},
           x.pc = "idle" => \A i \in Ids : Busy(a) /\ acts[a].id = i => i \in table \/ ~Running(i)
    PROVE  RegistryInv'
<1> USE DEF RegistryInv, Busy, Exited, Running
<1>1. RegistryTypeOK'
  BY DEF RegistryTypeOK
<1>2. /\ acts \in [Actors -> CallStates]
      /\ acts'[a] = x /\ \A b \in Actors \ {a} : acts'[b] = acts[b]
  BY DEF RegistryTypeOK
<1>3. FreshInv'
  BY <1>2, IdsAreNumbers DEF FreshInv, RegistryTypeOK
<1>4. CallInv'
  BY <1>2, ActorsDiffer DEF CallInv, ShuttingDown
<1>5. ShutdownInv'
  BY <1>2, ActorsDiffer DEF ShutdownInv, ShuttingDown, HeldBy
<1>6. NothingRunsUnowned'
  BY <1>2 DEF NothingRunsUnowned, Held
<1>7. CleanShutdownLeavesNothing'
  BY DEF CleanShutdownLeavesNothing
<1> QED
  BY <1>1, <1>3, <1>4, <1>5, <1>6, <1>7

LEMMA TypedCalls ==
    ASSUME RegistryInv, NEW a \in Actors
    PROVE  /\ acts[a] \in CallStates
           /\ acts[a].pc # "idle" => Busy(a)
           /\ Busy(a) /\ acts[a].pc # "resolve" => acts[a].id \in Ids /\ acts[a].id < nextId
           /\ a = Shell /\ Busy(a) => ShuttingDown
           /\ a \in Slots /\ Busy(a) => shutdown.for = "none"
           /\ Idle \in CallStates
<1>1. acts[a] \in CallStates
  BY DEF RegistryInv, RegistryTypeOK
<1>2. Busy(a) /\ acts[a].pc # "resolve" => acts[a].id \in Ids /\ acts[a].id < nextId
  BY <1>1, IdsAreNumbers DEF RegistryInv, RegistryTypeOK, FreshInv, CallInv
<1> QED
  BY <1>1, <1>2 DEF RegistryInv, CallInv, ShutdownInv, Busy, Idle, Places

(* A call that goes on to another place, or returns.                       *)
LEMMA MovingStep ==
    ASSUME RegistryInv, NEW a \in Actors, NEW pc \in Places \ {"idle", "resolve"}, NEW late \in BOOLEAN,
           Busy(a), acts[a].pc # "resolve",
           acts' = [acts EXCEPT ![a] = [acts[a] EXCEPT !.pc = pc, !.late = late]],
           UNCHANGED <<child, table, nextId, shutdown, refused, cancelled>>,
           pc \in {"draining", "terminated"} => Exited(acts[a].id),
           pc \notin {"terminate", "killing", "waiting", "failing"} =>
               acts[a].pc \notin {"terminate", "killing", "waiting", "failing"} \/ Exited(acts[a].id)
    PROVE  RegistryInv'
<1> DEFINE x == [acts[a] EXCEPT !.pc = pc, !.late = late]
<1>1. /\ x \in CallStates
      /\ x.id = acts[a].id /\ x.pc = pc
  BY TypedCalls
<1>2. acts[a].id \in Ids /\ acts[a].id < nextId /\ (shutdown.for # "none" => a = Shell)
  BY TypedCalls, ActorsDiffer DEF Actors
<1>3. Running(acts[a].id) /\ acts[a].id \notin table =>
         a \in Slots /\ pc \in {"terminate", "killing", "waiting", "failing"}
  BY DEF RegistryInv, CallInv, Running, Exited
<1>4. cancelled' \in BOOLEAN
  BY DEF RegistryInv, RegistryTypeOK
<1> HIDE DEF x
<1>5. acts' = [acts EXCEPT ![a] = x]
  BY DEF x
<1> QED
  BY <1>1, <1>2, <1>3, <1>4, <1>5, QuietStep

LEMMA ReturningStep ==
    ASSUME RegistryInv, NEW s \in Slots, Return(s), Busy(s),
           acts[s].pc \notin {"terminate", "killing", "waiting", "failing"},
           UNCHANGED <<child, table, nextId, shutdown, refused, cancelled>>
    PROVE  RegistryInv'
<1>1. s \in Actors /\ s # Shell
  BY ActorsDiffer
<1>2. shutdown.for = "none" /\ cancelled' \in BOOLEAN
  BY <1>1, TypedCalls DEF RegistryInv, RegistryTypeOK
<1>3. \A i \in Ids : Busy(s) /\ acts[s].id = i => i \in table \/ ~Running(i)
  BY <1>1, TypedCalls DEF RegistryInv, CallInv
<1> HIDE DEF Idle
<1>4. Idle \in CallStates
      /\ Idle.pc = "idle"
  BY DEF Idle, Places
<1> QED
  BY <1>1, <1>2, <1>3, <1>4, QuietStep DEF Return

LEMMA DroppedHandles ==
    ASSUME RegistryTypeOK, NEW gone
    PROVE  /\ Dropped(gone) \in [Ids -> {"none", "running", "killed", "exited"}]
           /\ \A i \in Ids : \/ Dropped(gone)[i] = child[i] /\ (Running(i) /\ i \in gone => i \in Stubborn)
                             \/ Running(i) /\ i \in gone /\ Dropped(gone)[i] = "killed"
<1>1. Dropped(gone) = [i \in Ids |-> IF i \in gone /\ Running(i) /\ i \notin Stubborn THEN "killed" ELSE child[i]]
  BY DEF Dropped
<1>2. \A i \in Ids : Dropped(gone)[i] =
         IF i \in gone /\ Running(i) /\ i \notin Stubborn THEN "killed" ELSE child[i]
  BY <1>1
<1>3. \A i \in Ids : child[i] \in {"none", "running", "killed", "exited"}
  BY DEF RegistryTypeOK
<1>4. Dropped(gone) \in [Ids -> {"none", "running", "killed", "exited"}]
  BY <1>1, <1>3
<1> QED
  BY <1>2, <1>4

(* Steps that touch neither the calls nor the table: processes die.        *)
LEMMA DyingStep ==
    ASSUME RegistryInv, child' \in [Ids -> {"none", "running", "killed", "exited"}],
           \A i \in Ids : child'[i] = child[i] \/
               (child[i] \in {"running", "killed"} /\ child'[i] = "exited") \/
               (child[i] = "running" /\ child'[i] = "killed" /\ shutdown.for # "closed"),
           acts' = acts, cancelled' \in BOOLEAN, UNCHANGED <<table, nextId, shutdown, refused>>
    PROVE  RegistryInv'
<1> USE DEF RegistryInv, Busy, Exited, Running
<1>1. RegistryTypeOK' /\ FreshInv'
  BY DEF RegistryTypeOK, FreshInv
<1>2. \A a \in Actors : Busy(a) /\ acts[a].pc # "resolve" => acts[a].id \in Ids
  BY TypedCalls
<1>3. CallInv'
  BY <1>2 DEF CallInv, ShuttingDown
<1>4. ShutdownInv'
  BY DEF ShutdownInv, ShuttingDown, HeldBy
<1>5. NothingRunsUnowned'
  BY DEF NothingRunsUnowned, Held
<1>6. CleanShutdownLeavesNothing'
  BY DEF CleanShutdownLeavesNothing, RegistryTypeOK
<1> QED
  BY <1>1, <1>3, <1>4, <1>5, <1>6

LEMMA SpawnStep ==
    ASSUME RegistryInv, NEW s \in Slots, Spawn(s)
    PROVE  RegistryInv'
<1> USE DEF Exited, Running
<1>1. s \in Actors /\ s # Shell /\ Busy(s) /\ acts[s].pc = "resolve" /\ acts[s].id \notin Ids
  BY ActorsDiffer DEF Spawn, Busy, RegistryInv, CallInv
<1>2. CASE Return(s) /\ UNCHANGED <<child, drain, awaited, nextId, table, refused>>
  BY <1>1, <1>2, ReturningStep DEF Spawn
<1>3. CASE ~cancelled /\ nextId \in Ids /\ ~(Return(s) /\ UNCHANGED <<child, drain, awaited, nextId, table, refused>>)
  <2> DEFINE pc == IF nextId \in table' THEN "started" ELSE "terminate"
  <2>1. /\ child' = [child EXCEPT ![nextId] = "running"] /\ nextId' = nextId + 1
        /\ table' = table \/ table' = table \cup {nextId}
        /\ refused' = refused \cup ({nextId} \ table')
        /\ acts' = [acts EXCEPT ![s].id = nextId, ![s].pc = pc]
        /\ UNCHANGED <<cancelled, shutdown>>
    BY <1>3 DEF Spawn, Spawned
  <2>2. shutdown.for = "none" /\ shutdown.left = {}
    BY <1>1, TypedCalls DEF RegistryInv, ShutdownInv, ShuttingDown
  <2>3. nextId \in Nat /\ nextId \in Ids /\ nextId \notin table /\ child[nextId] = "none"
        /\ \A a \in Actors : Busy(a) => acts[a].id # nextId
    BY <1>3, IdsAreNumbers DEF RegistryInv, FreshInv, RegistryTypeOK
  <2>4. /\ acts'[s] = [acts[s] EXCEPT !.id = nextId, !.pc = pc]
        /\ \A a \in Actors \ {s} : acts'[a] = acts[a]
        /\ acts'[s].id = nextId /\ acts'[s].pc = pc
        /\ acts' \in [Actors -> CallStates]
    BY <1>1, <2>1, <2>3 DEF RegistryInv, RegistryTypeOK, Places
  <2>5. child'[nextId] = "running" /\ \A i \in Ids \ {nextId} : child'[i] = child[i]
    BY <2>1, <2>3 DEF RegistryInv, RegistryTypeOK
  <2>6. RegistryTypeOK'
    BY <2>1, <2>3, <2>4 DEF RegistryInv, RegistryTypeOK
  <2>7. FreshInv'
    BY <2>1, <2>3, <2>4, <2>5, IdsAreNumbers DEF RegistryInv, FreshInv, Busy
  <2>8. CallInv'
    <3> SUFFICES ASSUME NEW a \in Actors, Busy(a)'
                 PROVE  /\ acts'[a].pc = "resolve" <=> acts'[a].id \notin Ids
                        /\ acts'[a].pc \in {"draining", "terminated"} => Exited(acts[a].id)'
                        /\ acts'[a].pc # "resolve" /\ Running(acts[a].id)' /\ acts'[a].id \notin table' =>
                             a \in Slots /\ acts'[a].pc \in {"terminate", "killing", "waiting", "failing"}
                        /\ a = Shell => ShuttingDown' /\ acts'[a].pc # "resolve"
      BY DEF CallInv
    <3>1. CASE a = s
      BY <1>1, <2>3, <2>4, <3>1
    <3>2. CASE a # s
      <4>1. Busy(a) /\ acts'[a] = acts[a] /\ acts[a].id # nextId
        BY <2>3, <2>4, <3>2 DEF Busy
      <4>2. acts[a].pc # "resolve" => acts[a].id \in Ids \ {nextId}
        BY <4>1, TypedCalls
      <4> QED
        BY <4>1, <4>2, <2>1, <2>5 DEF RegistryInv, CallInv, ShuttingDown
    <3> QED
      BY <3>1, <3>2
  <2>9. ShutdownInv'
    BY <2>1, <2>2, <2>5 DEF RegistryInv, ShutdownInv, ShuttingDown
  <2>10. NothingRunsUnowned'
    <3>1. \A j \in Ids : j = nextId => Held(j)'
      BY <1>1, <2>4 DEF Held, Busy
    <3>2. \A j \in Ids : j # nextId /\ Held(j) => Held(j)'
      BY <1>1, <2>1, <2>4 DEF Held, Busy
    <3> QED
      BY <3>1, <3>2, <2>5 DEF RegistryInv, NothingRunsUnowned, Running
  <2>11. CleanShutdownLeavesNothing'
    BY <2>1, <2>2 DEF CleanShutdownLeavesNothing
  <2> QED
    BY <2>6, <2>7, <2>8, <2>9, <2>10, <2>11 DEF RegistryInv
<1> QED
  BY <1>2, <1>3 DEF Spawn

(* The end of a termination: the call gives its process up.                *)
LEMMA ConcludeStep ==
    ASSUME RegistryInv, NEW s \in Slots, Conclude(s)
    PROVE  RegistryInv'
<1> USE DEF Exited, Running
<1> DEFINE i == acts[s].id
<1>1. s \in Actors /\ s # Shell /\ Busy(s) /\ i \in Ids /\ shutdown.for = "none" /\ shutdown.left = {}
  BY ActorsDiffer, TypedCalls DEF Conclude, Busy, RegistryInv, ShutdownInv, ShuttingDown
<1>2. /\ table' = table \/ (table' = table \ {i} /\ Exited(i))
      /\ child' = Dropped({i} \ table)
      /\ UNCHANGED <<nextId, cancelled, shutdown, refused>>
  BY <1>1 DEF Conclude, RegistryInv, CallInv
<1>3. /\ acts' \in [Actors -> CallStates]
      /\ ~Busy(s)' /\ \A a \in Actors \ {s} : acts'[a] = acts[a]
  BY <1>1, TypedCalls DEF Conclude, Return, RegistryInv, RegistryTypeOK, Busy, Idle
<1>4. /\ child' \in [Ids -> {"none", "running", "killed", "exited"}]
      /\ \A j \in Ids : \/ child'[j] = child[j] /\ (Running(j) /\ j = i /\ i \notin table => j \in Stubborn)
                        \/ Running(j) /\ j = i /\ i \notin table /\ child'[j] = "killed"
  BY <1>2, DroppedHandles DEF RegistryInv
<1> HIDE DEF i
<1>5. RegistryTypeOK'
  BY <1>2, <1>3, <1>4 DEF RegistryInv, RegistryTypeOK
<1>6. \A a \in Actors : Busy(a)' => Busy(a) /\ acts'[a] = acts[a] /\ a # s
  BY <1>3 DEF Busy
<1>7. FreshInv'
  <2> SUFFICES ASSUME NEW j \in Ids
               PROVE  /\ child'[j] = "none" <=> j >= nextId
                      /\ j >= nextId => j \notin table' /\ \A a \in Actors : Busy(a)' => acts'[a].id # j
    BY <1>2 DEF FreshInv
  <2>1. /\ child[j] = "none" <=> j >= nextId
        /\ j >= nextId => j \notin table /\ \A a \in Actors : Busy(a) => acts[a].id # j
    BY DEF RegistryInv, FreshInv
  <2> QED
    BY <2>1, <1>2, <1>4, <1>6
<1>8. CallInv'
  <2> SUFFICES ASSUME NEW a \in Actors, Busy(a)'
               PROVE  /\ acts[a].pc = "resolve" <=> acts[a].id \notin Ids
                      /\ acts[a].pc \in {"draining", "terminated"} => child'[acts[a].id] = "exited"
                      /\ acts[a].pc # "resolve" /\ child'[acts[a].id] = "running" /\ acts[a].id \notin table' =>
                           a \in Slots /\ acts[a].pc \in {"terminate", "killing", "waiting", "failing"}
                      /\ a = Shell => ShuttingDown' /\ acts[a].pc # "resolve"
    BY <1>6 DEF CallInv
  <2>1. Busy(a) /\ (acts[a].pc # "resolve" => acts[a].id \in Ids)
    BY <1>6, TypedCalls
  <2> QED
    BY <2>1, <1>2, <1>4 DEF RegistryInv, CallInv, ShuttingDown
<1>9. ShutdownInv'
  BY <1>1, <1>2, <1>4 DEF RegistryInv, ShutdownInv, ShuttingDown
<1>10. NothingRunsUnowned'
  <2> SUFFICES ASSUME NEW j \in Ids, Running(j)', j \notin Stubborn
               PROVE  Held(j)'
    BY DEF NothingRunsUnowned
  <2>1. Running(j) /\ Held(j)
    BY <1>4 DEF RegistryInv, NothingRunsUnowned
  <2>2. CASE j = i
    BY <1>2, <1>4, <2>1, <2>2 DEF Held
  <2>3. CASE j # i
    BY <1>1, <1>2, <1>3, <2>1, <2>3 DEF Held, Busy, i
  <2> QED
    BY <2>2, <2>3
<1>11. CleanShutdownLeavesNothing'
  BY <1>1, <1>2 DEF CleanShutdownLeavesNothing
<1> QED
  BY <1>5, <1>7, <1>8, <1>9, <1>10, <1>11 DEF RegistryInv

LEMMA StartKillStep ==
    ASSUME RegistryInv, NEW a \in Actors, StartKill(a)
    PROVE  RegistryInv'
<1> DEFINE i == acts[a].id
<1>1. Busy(a) /\ acts[a].pc = "killing" /\ i \in Ids /\ acts[a].late \in BOOLEAN
  BY TypedCalls DEF StartKill, Busy
<1>2. \A pc : Goto(a, pc) => acts' = [acts EXCEPT ![a] = [acts[a] EXCEPT !.pc = pc, !.late = acts[a].late]]
  BY TypedCalls DEF Goto
<1>3. /\ {"failing", "draining", "waiting"} \subseteq Places \ {"idle", "resolve"}
      /\ UNCHANGED <<table, nextId, shutdown, refused, cancelled>>
  BY DEF StartKill, Places
<1>4. CASE Goto(a, "failing") /\ UNCHANGED child
  BY <1>1, <1>2, <1>3, <1>4, MovingStep
<1>5. CASE Goto(a, "draining") /\ UNCHANGED child /\ Exited(i)
  BY <1>1, <1>2, <1>3, <1>5, MovingStep
<1>6. CASE Goto(a, "waiting") /\ child' = [child EXCEPT ![i] = "killed"] /\ ~Exited(i)
  <2>1. /\ acts' \in [Actors -> CallStates]
        /\ acts'[a].pc = "waiting" /\ acts'[a].id = acts[a].id
        /\ \A b \in Actors : b # a => acts'[b] = acts[b]
    BY <1>3, <1>6 DEF Goto, RegistryInv, RegistryTypeOK
  <2>2. /\ child' \in [Ids -> {"none", "running", "killed", "exited"}]
        /\ child'[i] = "killed" /\ \A j \in Ids : j # i => child'[j] = child[j]
    BY <1>1, <1>6 DEF RegistryInv, RegistryTypeOK
  <2>3. child[i] \in {"running", "killed"} /\ i \in Ids /\ i < nextId
    BY <1>1, <1>6, TypedCalls, IdsAreNumbers DEF Exited, RegistryInv, RegistryTypeOK, FreshInv
  <2> HIDE DEF i
  <2>4. RegistryTypeOK'
    BY <1>3, <2>1, <2>2 DEF RegistryInv, RegistryTypeOK
  <2>5. \A b \in Actors : /\ Busy(b)' <=> Busy(b)
                          /\ acts'[b].id = acts[b].id
                          /\ b # a => acts'[b] = acts[b]
    BY <1>1, <2>1 DEF Busy
  <2>6. FreshInv'
    <3> SUFFICES ASSUME NEW j \in Ids
                 PROVE  /\ child'[j] = "none" <=> j >= nextId
                        /\ j >= nextId => j \notin table /\ \A b \in Actors : Busy(b)' => acts'[b].id # j
      BY <1>3 DEF FreshInv
    <3>1. child'[j] = "none" <=> child[j] = "none"
      BY <2>2, <2>3
    <3> QED
      BY <2>5, <3>1 DEF RegistryInv, FreshInv
  <2>7. CallInv'
    <3> SUFFICES ASSUME NEW b \in Actors, Busy(b)
                 PROVE  /\ acts'[b].pc = "resolve" <=> acts[b].id \notin Ids
                        /\ acts'[b].pc \in {"draining", "terminated"} => child'[acts[b].id] = "exited"
                        /\ acts'[b].pc # "resolve" /\ child'[acts[b].id] = "running" /\ acts[b].id \notin table =>
                             b \in Slots /\ acts'[b].pc \in {"terminate", "killing", "waiting", "failing"}
                        /\ b = Shell => ShuttingDown /\ acts'[b].pc # "resolve"
      BY <1>3, <2>5 DEF CallInv, ShuttingDown, Exited, Running
    <3>1. /\ acts[b].pc = "resolve" <=> acts[b].id \notin Ids
          /\ acts[b].pc \in {"draining", "terminated"} => child[acts[b].id] = "exited"
          /\ acts[b].pc # "resolve" /\ child[acts[b].id] = "running" /\ acts[b].id \notin table =>
               b \in Slots /\ acts[b].pc \in {"terminate", "killing", "waiting", "failing"}
          /\ b = Shell => ShuttingDown /\ acts[b].pc # "resolve"
      BY DEF RegistryInv, CallInv, Exited, Running
    <3>2. CASE b = a
      BY <1>1, <2>1, <2>2, <3>1, <3>2 DEF i
    <3>3. CASE b # a
      BY <2>1, <2>2, <2>3, <3>1, <3>3
    <3> QED
      BY <3>2, <3>3
  <2>8. ShutdownInv'
    <3>1. HeldBy(Shell)' = HeldBy(Shell)
      BY <2>5, ActorsDiffer DEF HeldBy
    <3> QED
      BY <1>3, <2>2, <2>3, <2>5, <3>1, ActorsDiffer DEF RegistryInv, ShutdownInv, ShuttingDown
  <2>9. NothingRunsUnowned'
    BY <1>3, <2>2, <2>5 DEF RegistryInv, NothingRunsUnowned, Running, Held
  <2>10. shutdown.for # "closed"
    BY <1>1, TypedCalls DEF Actors, ShuttingDown
  <2>11. CleanShutdownLeavesNothing'
    BY <1>3, <2>10 DEF CleanShutdownLeavesNothing
  <2> QED
    BY <2>4, <2>6, <2>7, <2>8, <2>9, <2>11 DEF RegistryInv
<1> QED
  BY <1>1, <1>4, <1>5, <1>6 DEF StartKill, TerminationFailed, TerminationExited, TryWait, Exited, Running,
                              RegistryInv, RegistryTypeOK

LEMMA DropBatchStep ==
    ASSUME RegistryInv, DropBatch
    PROVE  RegistryInv'
<1> DEFINE holdings == { HeldBy(s) : s \in Slots }
<1> DEFINE gone == (UNION holdings) \ table
<1>1. /\ acts' = [a \in Actors |-> IF a \in Slots /\ Busy(a) THEN Idle ELSE acts[a]]
      /\ child' = Dropped(gone)
      /\ cancelled' = FALSE /\ UNCHANGED <<table, nextId, shutdown, refused>>
  BY DEF DropBatch
<1>2. /\ child' \in [Ids -> {"none", "running", "killed", "exited"}]
      /\ \A i \in Ids : child'[i] = child[i] \/ (child[i] = "running" /\ i \in gone /\ child'[i] = "killed")
      /\ \A i \in Ids : child'[i] = "running" /\ i \in gone => i \in Stubborn
  <2>1. RegistryTypeOK
    BY DEF RegistryInv
  <2> HIDE DEF holdings, gone
  <2> QED
    BY <2>1, <1>1, DroppedHandles DEF Running
<1>3. \A a \in Actors : a \in Slots => ~Busy(a)'
  BY <1>1 DEF Busy, Idle
<1>4. acts' \in [Actors -> CallStates]
      /\ \A a \in Actors : a \notin Slots => acts'[a] = acts[a]
  BY <1>1, TypedCalls DEF RegistryInv, RegistryTypeOK
<1>5. \A a \in Actors : Busy(a)' => a = Shell /\ Busy(a) /\ acts'[a] = acts[a]
  BY <1>3, <1>4 DEF Busy, Actors
<1>6. RegistryTypeOK'
  BY <1>1, <1>2, <1>4 DEF RegistryInv, RegistryTypeOK
<1>7. \A i \in Ids : i \in gone <=> i \notin table /\ \E s \in Slots : Busy(s) /\ acts[s].id = i
  <2>1. \A h : h \in holdings <=> \E s \in Slots : h = HeldBy(s)
    OBVIOUS
  <2> HIDE DEF holdings
  <2>2. \A i : i \in gone <=> i \notin table /\ \E h \in holdings : i \in h
    OBVIOUS
  <2> HIDE DEF gone
  <2>3. \A i : i \in gone <=> i \notin table /\ \E s \in Slots : i \in HeldBy(s)
    BY <2>1, <2>2
  <2>4. \A i \in Ids, s \in Slots : i \in HeldBy(s) <=> Busy(s) /\ acts[s].id = i
    BY DEF HeldBy
  <2> QED
    BY <2>3, <2>4
<1> HIDE DEF holdings, gone
<1>8. FreshInv'
  <2> SUFFICES ASSUME NEW i \in Ids
               PROVE  /\ child'[i] = "none" <=> i >= nextId
                      /\ i >= nextId => i \notin table /\ \A a \in Actors : Busy(a)' => acts'[a].id # i
    BY <1>1 DEF FreshInv
  <2> QED
    BY <1>2, <1>5 DEF RegistryInv, FreshInv
<1>9. CallInv'
  <2>1. Busy(Shell) => /\ acts[Shell].pc = "resolve" <=> acts[Shell].id \notin Ids
                       /\ acts[Shell].pc \in {"draining", "terminated"} => child[acts[Shell].id] = "exited"
                       /\ acts[Shell].pc # "resolve" /\ child[acts[Shell].id] = "running" => acts[Shell].id \in table
                       /\ ShuttingDown /\ acts[Shell].pc # "resolve"
    BY ActorsDiffer DEF RegistryInv, CallInv, Exited, Running
  <2> QED
    BY <2>1, <1>1, <1>2, <1>5 DEF CallInv, ShuttingDown, Exited, Running
<1>10. ShutdownInv'
  <2>1. HeldBy(Shell)' = HeldBy(Shell)
    BY <1>4, ActorsDiffer DEF HeldBy, Busy
  <2> QED
    BY <2>1, <1>1, <1>2, <1>3, <1>5, ActorsDiffer DEF RegistryInv, ShutdownInv, ShuttingDown
<1>11. NothingRunsUnowned'
  <2> SUFFICES ASSUME NEW i \in Ids, Running(i)', i \notin Stubborn
               PROVE  Held(i)'
    BY DEF NothingRunsUnowned
  <2>1. Running(i) /\ Held(i) /\ i \notin gone
    BY <1>2 DEF RegistryInv, NothingRunsUnowned, Running
  <2>2. i \in table \/ (Busy(Shell) /\ acts[Shell].id = i)
    BY <2>1, <1>7 DEF Held, Actors
  <2> QED
    BY <2>2, <1>1, <1>4, ActorsDiffer DEF Held, Busy
<1>12. CleanShutdownLeavesNothing'
  BY <1>1, <1>2 DEF RegistryInv, CleanShutdownLeavesNothing
<1> QED
  BY <1>6, <1>8, <1>9, <1>10, <1>11, <1>12 DEF RegistryInv

LEMMA ShutdownStep ==
    ASSUME RegistryInv, (\E purpose \in {"close", "switch"} : BeginShutdown(purpose)) \/ EndShutdown
    PROVE  RegistryInv'
<1> USE DEF Exited, Running
<1>1. CASE \E purpose \in {"close", "switch"} : BeginShutdown(purpose)
  <2>1. PICK purpose \in {"close", "switch"} : BeginShutdown(purpose)
    BY <1>1
  <2>2. /\ shutdown.for = "none" /\ ~cancelled /\ (\A s \in Slots : ~Busy(s))
        /\ shutdown' = [for |-> purpose, left |-> table, failures |-> {}]
        /\ UNCHANGED <<child, table, nextId, acts, cancelled, refused>>
    BY <2>1 DEF BeginShutdown
  <2>3. \A a \in Actors : ~Busy(a)
    BY <2>2 DEF RegistryInv, CallInv, ShuttingDown, Actors
  <2>4. RegistryTypeOK' /\ FreshInv'
    BY <2>2 DEF RegistryInv, RegistryTypeOK, FreshInv, Busy
  <2>5. CallInv'
    BY <2>2, <2>3 DEF CallInv, Busy
  <2>6. ShutdownInv'
    BY <2>2, <2>3, ActorsDiffer DEF RegistryInv, ShutdownInv, ShuttingDown, Busy
  <2>7. NothingRunsUnowned' /\ CleanShutdownLeavesNothing'
    BY <2>2 DEF RegistryInv, NothingRunsUnowned, CleanShutdownLeavesNothing, Held, Busy
  <2> QED
    BY <2>4, <2>5, <2>6, <2>7 DEF RegistryInv
<1>2. CASE EndShutdown
  <2>1. /\ ShuttingDown /\ ~Busy(Shell) /\ shutdown.left = {}
        /\ UNCHANGED <<nextId, acts, cancelled, refused>>
    BY <1>2 DEF EndShutdown, ShuttingDown
  <2>2. \A a \in Actors : ~Busy(a)
    BY <2>1 DEF RegistryInv, ShutdownInv, ShuttingDown, Actors
  <2>3. shutdown \in [for : {"none", "close", "switch", "closed"}, left : SUBSET Ids, failures : SUBSET Ids]
    BY DEF RegistryInv, RegistryTypeOK
  <2>4. table \subseteq shutdown.failures
    BY <2>1 DEF RegistryInv, ShutdownInv, HeldBy
  <2>5. CASE /\ shutdown.failures # {} /\ shutdown' = [shutdown EXCEPT !.for = "none"]
             /\ UNCHANGED <<table, child>>
    <3>1. /\ shutdown'.for = "none" /\ shutdown'.left = {} /\ shutdown'.failures = shutdown.failures
          /\ shutdown' \in [for : {"none", "close", "switch", "closed"}, left : SUBSET Ids, failures : SUBSET Ids]
      BY <2>1, <2>3, <2>5
    <3>2. RegistryTypeOK' /\ FreshInv'
      BY <2>1, <2>5, <3>1 DEF RegistryInv, RegistryTypeOK, FreshInv, Busy
    <3>3. CallInv'
      BY <2>1, <2>2 DEF CallInv, Busy
    <3>4. ShutdownInv'
      BY <2>1, <2>5, <3>1 DEF RegistryInv, ShutdownInv, ShuttingDown, Busy
    <3>5. NothingRunsUnowned' /\ CleanShutdownLeavesNothing'
      BY <2>1, <2>5, <3>1 DEF RegistryInv, NothingRunsUnowned, CleanShutdownLeavesNothing, Held, Busy
    <3> QED
      BY <3>2, <3>3, <3>4, <3>5 DEF RegistryInv
  <2>6. CASE /\ shutdown' = [shutdown EXCEPT !.for = "closed"]
             /\ table' = {} /\ child' = Dropped(table)
    <3>1. /\ shutdown'.for = "closed" /\ shutdown'.left = {} /\ shutdown'.failures = shutdown.failures
          /\ shutdown' \in [for : {"none", "close", "switch", "closed"}, left : SUBSET Ids, failures : SUBSET Ids]
      BY <2>1, <2>3, <2>6
    <3>2. /\ child' \in [Ids -> {"none", "running", "killed", "exited"}]
          /\ \A i \in Ids : child'[i] = child[i] \/ (child[i] = "running" /\ i \in table /\ child'[i] = "killed")
          /\ \A i \in Ids : child'[i] = "running" /\ i \in table => i \in Stubborn
      <4>1. RegistryTypeOK
        BY DEF RegistryInv
      <4> QED
        BY <2>6, <4>1, DroppedHandles
    <3>3. RegistryTypeOK'
      BY <2>1, <2>6, <3>1, <3>2 DEF RegistryInv, RegistryTypeOK
    <3>4. FreshInv'
      <4> SUFFICES ASSUME NEW i \in Ids
                   PROVE  child'[i] = "none" <=> i >= nextId
        BY <2>1, <2>2, <2>6 DEF FreshInv, Busy
      <4>1. child'[i] = "none" <=> child[i] = "none"
        BY <3>2
      <4> QED
        BY <4>1 DEF RegistryInv, FreshInv
    <3>5. CallInv'
      BY <2>1, <2>2 DEF CallInv, Busy
    <3>6. ShutdownInv'
      BY <2>1, <2>2, <2>6, <3>1, ActorsDiffer DEF ShutdownInv, ShuttingDown, Busy, Actors
    <3>7. NothingRunsUnowned'
      <4> SUFFICES ASSUME NEW i \in Ids, child'[i] = "running", i \notin Stubborn
                   PROVE  FALSE
        BY DEF NothingRunsUnowned
      <4>1. child[i] = "running" /\ i \notin table
        BY <3>2
      <4> QED
        BY <4>1, <2>2 DEF RegistryInv, NothingRunsUnowned, Held
    <3>8. CleanShutdownLeavesNothing'
      <4> SUFFICES ASSUME shutdown.failures = {}, NEW i \in Ids \ refused
                   PROVE  child'[i] \in {"none", "exited"}
        BY <2>1, <3>1 DEF CleanShutdownLeavesNothing
      <4>1. i \notin table
        BY <2>4
      <4>2. child[i] \in {"none", "exited"}
        BY <2>1, <4>1 DEF RegistryInv, ShutdownInv, ShuttingDown, RegistryTypeOK
      <4> QED
        BY <3>2, <4>2
    <3> QED
      BY <3>3, <3>4, <3>5, <3>6, <3>7, <3>8 DEF RegistryInv
  <2> QED
    BY <1>2, <2>5, <2>6 DEF EndShutdown
<1> QED
  BY <1>1, <1>2

LEMMA ShutdownNextStep ==
    ASSUME RegistryInv, NEW i \in Ids, ShutdownNext(i)
    PROVE  RegistryInv'
<1> USE DEF Exited, Running
<1>1. /\ ShuttingDown /\ ~Busy(Shell) /\ i \in shutdown.left
      /\ acts' = [acts EXCEPT ![Shell] = [op |-> "kill", id |-> i, late |-> FALSE, pc |-> "terminate"]]
      /\ shutdown' = [shutdown EXCEPT !.left = @ \ {i}]
      /\ UNCHANGED <<child, table, nextId, cancelled, refused>>
  BY DEF ShutdownNext, ShuttingDown
<1>2. /\ i \in table /\ i \in Nat /\ i < nextId
      /\ \A a \in Actors : ~Busy(a)
  <2>1. i \in table
    BY <1>1 DEF RegistryInv, ShutdownInv
  <2>2. i \in Nat /\ i < nextId
    BY <2>1, IdsAreNumbers DEF RegistryInv, FreshInv, RegistryTypeOK
  <2> QED
    BY <1>1, <2>1, <2>2 DEF RegistryInv, ShutdownInv, ShuttingDown, Actors
<1>3. /\ acts' \in [Actors -> CallStates]
      /\ acts'[Shell].id = i /\ acts'[Shell].pc = "terminate"
      /\ \A a \in Actors : a # Shell => acts'[a] = acts[a]
  BY <1>1, <1>2, ActorsDiffer DEF RegistryInv, RegistryTypeOK, Writes, Places
<1>4. /\ shutdown'.for = shutdown.for /\ shutdown'.left = shutdown.left \ {i}
      /\ shutdown'.failures = shutdown.failures
      /\ shutdown' \in [for : {"none", "close", "switch", "closed"}, left : SUBSET Ids, failures : SUBSET Ids]
  BY <1>1 DEF RegistryInv, RegistryTypeOK
<1>5. \A a \in Actors : Busy(a)' => a = Shell
  BY <1>2, <1>3 DEF Busy
<1>6. RegistryTypeOK'
  BY <1>1, <1>3, <1>4 DEF RegistryInv, RegistryTypeOK
<1>7. FreshInv'
  <2> SUFFICES ASSUME NEW j \in Ids, j >= nextId
               PROVE  j # i
    BY <1>1, <1>3, <1>5 DEF RegistryInv, FreshInv
  <2> QED
    BY <1>2, IdsAreNumbers DEF RegistryInv, RegistryTypeOK
<1>8. CallInv'
  BY <1>1, <1>2, <1>3, <1>4, <1>5 DEF CallInv, ShuttingDown
<1>9. ShutdownInv'
  <2>1. i \in HeldBy(Shell)'
    BY <1>3 DEF HeldBy, Busy
  <2>2. \A s \in Slots : ~Busy(s)'
    BY <1>5, ActorsDiffer
  <2>3. HeldBy(Shell) = {}
    BY <1>1 DEF HeldBy
  <2> QED
    BY <2>1, <2>2, <2>3, <1>1, <1>3, <1>4 DEF RegistryInv, ShutdownInv, ShuttingDown
<1>10. NothingRunsUnowned'
  BY <1>1, <1>2 DEF RegistryInv, NothingRunsUnowned, Held
<1>11. CleanShutdownLeavesNothing'
  BY <1>1, <1>4 DEF CleanShutdownLeavesNothing, ShuttingDown
<1> QED
  BY <1>6, <1>7, <1>8, <1>9, <1>10, <1>11 DEF RegistryInv

LEMMA ShutdownOneStep ==
    ASSUME RegistryInv, ShutdownOne
    PROVE  RegistryInv'
<1> USE DEF Exited, Running
<1> DEFINE i == acts[Shell].id
<1>1. /\ Busy(Shell) /\ i \in Ids /\ ShuttingDown
      /\ (acts[Shell].pc = "terminated" => Exited(i))
      /\ (acts[Shell].pc = "failing" /\ Running(i) => i \in table)
  BY ActorsDiffer, TypedCalls DEF ShutdownOne, RegistryInv, CallInv, Busy
<1>2. /\ \/ table' = table \ {i} /\ Exited(i) /\ shutdown' = shutdown
         \/ /\ table' = table /\ (Running(i) => i \in table)
            /\ shutdown' = [shutdown EXCEPT !.failures = @ \cup {i}]
      /\ Return(Shell) /\ UNCHANGED <<child, nextId, cancelled, refused>>
  BY <1>1 DEF ShutdownOne
<1>3. /\ acts' \in [Actors -> CallStates]
      /\ ~Busy(Shell)' /\ \A a \in Actors \ {Shell} : acts'[a] = acts[a]
  BY <1>2, ActorsDiffer, TypedCalls DEF Return, RegistryInv, RegistryTypeOK, Busy, Idle
<1>4. /\ \A s \in Slots : ~Busy(s)
      /\ \A a \in Actors : ~Busy(a)'
  BY <1>1, <1>3 DEF RegistryInv, ShutdownInv, ShuttingDown, Actors, Busy
<1>5. /\ shutdown'.for = shutdown.for /\ shutdown'.left = shutdown.left
      /\ shutdown.failures \subseteq shutdown'.failures
      /\ table' = table /\ Running(i) => i \in shutdown'.failures
      /\ table' \subseteq table /\ (i \in table' => i \in shutdown'.failures)
      /\ shutdown' \in [for : {"none", "close", "switch", "closed"}, left : SUBSET Ids, failures : SUBSET Ids]
  BY <1>1, <1>2 DEF RegistryInv, RegistryTypeOK
<1> HIDE DEF i
<1>6. RegistryTypeOK'
  BY <1>2, <1>3, <1>5 DEF RegistryInv, RegistryTypeOK
<1>7. FreshInv'
  BY <1>2, <1>4, <1>5 DEF RegistryInv, FreshInv
<1>8. CallInv'
  BY <1>4 DEF CallInv
<1>9. ShutdownInv'
  <2>1. i \notin shutdown.left
    BY <1>1 DEF RegistryInv, ShutdownInv, i
  <2>2. table \subseteq shutdown.left \cup shutdown.failures \cup {i}
    BY <1>1 DEF RegistryInv, ShutdownInv, HeldBy, i
  <2>3. \A s \in Slots : ~Busy(s)'
    BY <1>4, ActorsDiffer
  <2>4. shutdown'.left \subseteq table'
    BY <1>2, <1>5, <2>1 DEF RegistryInv, ShutdownInv
  <2>5. table' \subseteq shutdown'.left \cup shutdown'.failures
    BY <1>5, <2>2
  <2>6. \A j \in Ids \ refused : child[j] \in {"running", "killed"} => j \in table'
    BY <1>1, <1>2 DEF RegistryInv, ShutdownInv, ShuttingDown
  <2> QED
    BY <1>1, <1>2, <1>3, <1>5, <2>3, <2>4, <2>5, <2>6 DEF ShutdownInv, ShuttingDown
<1>10. NothingRunsUnowned'
  <2> SUFFICES ASSUME NEW j \in Ids, Running(j), j \notin Stubborn
               PROVE  j \in table'
    BY <1>2 DEF NothingRunsUnowned, Held
  <2>1. Held(j)
    BY DEF RegistryInv, NothingRunsUnowned
  <2>2. j \in table \/ j = i
    BY <1>4, <2>1 DEF Held, Actors, i
  <2> QED
    BY <1>2, <2>2
<1>11. CleanShutdownLeavesNothing'
  BY <1>1, <1>5 DEF CleanShutdownLeavesNothing, ShuttingDown
<1> QED
  BY <1>6, <1>7, <1>8, <1>9, <1>10, <1>11 DEF RegistryInv

(* Every step keeps the invariant.                                         *)
LEMMA RegistryStep ==
    ASSUME RegistryInv, RegistryNext
    PROVE  RegistryInv'
<1> USE DEF Exited, Running
<1>1. ASSUME NEW i \in Ids, ChildWrites(i) \/ ChildExits(i) \/ DrainStream(i)
      PROVE  RegistryInv'
  <2>1. UNCHANGED <<table, nextId, acts, shutdown, refused, cancelled>>
    BY <1>1 DEF ChildWrites, ChildExits, DrainStream
  <2>2. child' = child \/ (child[i] \in {"running", "killed"} /\ child' = [child EXCEPT ![i] = "exited"])
    BY <1>1 DEF ChildWrites, ChildExits, DrainStream
  <2>3. child \in [Ids -> {"none", "running", "killed", "exited"}] /\ cancelled \in BOOLEAN
    BY DEF RegistryInv, RegistryTypeOK
  <2> QED
    BY <2>1, <2>2, <2>3, DyingStep
<1>2. ASSUME NEW s \in Slots, NEW op \in Reads \cup Writes \cup {"start"}, NEW i \in Nat,
             NEW pc \in {"resolve", "take", "writing", "terminate", "look"},
             shutdown.for = "none", ~Busy(s), pc = "resolve" <=> i \notin Ids,
             pc # "resolve" => i \in table,
             acts' = [acts EXCEPT ![s] = [op |-> op, id |-> i, late |-> FALSE, pc |-> pc]],
             UNCHANGED <<child, table, nextId, shutdown, refused, cancelled>>
      PROVE  RegistryInv'
  <2> DEFINE x == [op |-> op, id |-> i, late |-> FALSE, pc |-> pc]
  <2>1. /\ x \in CallStates
        /\ x.id = i /\ x.pc = pc
    BY <1>2 DEF Places
  <2>2. s \in Actors /\ s # Shell /\ cancelled' \in BOOLEAN
    BY <1>2, ActorsDiffer DEF RegistryInv, RegistryTypeOK
  <2>3. pc # "resolve" => i < nextId
    BY <1>2, IdsAreNumbers DEF RegistryInv, RegistryTypeOK, FreshInv
  <2>4. acts' = [acts EXCEPT ![s] = x]
    BY <1>2
  <2> HIDE DEF x
  <2> QED
    BY <1>2, <2>1, <2>2, <2>3, <2>4, QuietStep
<1>3. ASSUME NEW s \in Slots, CallStart(s)
      PROVE  RegistryInv'
  <2>1. 0 \in Nat \ Ids
    BY RegistryAssumption, FS_CardinalityType DEF RegistryAssumption
  <2> QED
    BY <1>2, <1>3, <2>1 DEF CallStart
<1>4. ASSUME NEW s \in Slots, NEW op \in Reads \cup Writes, NEW i \in Ids, Call(s, op, i)
      PROVE  RegistryInv'
  <2>1. First[op] \in {"take", "writing", "terminate", "look"}
    BY DEF Reads, Writes, First
  <2>2. CASE i \in table
    BY <1>2, <1>4, <2>1, <2>2, IdsAreNumbers DEF Call
  <2>3. CASE i \notin table
    BY <1>4, <2>3, DyingStep DEF Call, RegistryInv, RegistryTypeOK
  <2> QED
    BY <2>2, <2>3
<1>5. ASSUME NEW a \in Actors, NEW pc, Goto(a, pc), pc \in Places \ {"idle", "resolve"},
             acts[a].pc \notin {"idle", "resolve"},
             UNCHANGED <<child, table, nextId, shutdown, refused, cancelled>>,
             pc \in {"draining", "terminated"} => Exited(acts[a].id),
             pc \notin {"terminate", "killing", "waiting", "failing"} =>
                 acts[a].pc \notin {"terminate", "killing", "waiting", "failing"} \/ Exited(acts[a].id)
      PROVE  RegistryInv'
  <2>1. /\ acts' = [acts EXCEPT ![a] = [acts[a] EXCEPT !.pc = pc, !.late = acts[a].late]]
        /\ acts[a].late \in BOOLEAN /\ Busy(a)
    BY <1>5, TypedCalls DEF Goto
  <2> QED
    BY <1>5, <2>1, MovingStep
<1>6. ASSUME NEW a \in Actors, LockChild(a) \/ AwaitExit(a) \/ FinishDrains(a)
      PROVE  RegistryInv'
  <2>1. CASE LockChild(a)
    BY <1>5, <2>1 DEF LockChild, Places
  <2>2. CASE AwaitExit(a)
    BY <1>5, <2>2 DEF AwaitExit, TerminationFailed, TerminationExited, Places
  <2>3. CASE FinishDrains(a)
    <3>1. acts[a].pc = "draining" /\ Exited(acts[a].id)
      BY <2>3 DEF FinishDrains, RegistryInv, CallInv, Busy
    <3> QED
      BY <1>5, <2>3, <3>1 DEF FinishDrains, Places
  <2> QED
    BY <1>6, <2>1, <2>2, <2>3
<1>7. ASSUME NEW s \in Slots, Started(s) \/ Read(s) \/ Wake(s) \/ Status(s) \/ Write(s) \/ Deadline(s)
      PROVE  RegistryInv'
  <2>1. s \in Actors /\ UNCHANGED <<child, table, nextId, shutdown, refused, cancelled>>
    BY <1>7, ActorsDiffer DEF Started, Read, Wake, Status, Write, Deadline
  <2>2. Busy(s) /\ acts[s].pc \in {"started", "take", "wait", "looking", "writing"}
    BY <1>7 DEF Started, Read, Wake, Status, Write, Deadline, Busy
  <2>3. \/ Return(s) \/ Goto(s, "terminate") \/ Goto(s, "wait") \/ Goto(s, "take")
        \/ acts' = [acts EXCEPT ![s].late = TRUE]
    BY <1>7 DEF Started, Read, Wake, Status, Write, Deadline
  <2>4. CASE Return(s)
    BY <2>1, <2>2, <2>4, ReturningStep
  <2>5. CASE Goto(s, "terminate") \/ Goto(s, "wait") \/ Goto(s, "take")
    BY <1>5, <2>1, <2>2, <2>5 DEF Places
  <2>6. CASE acts' = [acts EXCEPT ![s].late = TRUE]
    <3>1. acts' = [acts EXCEPT ![s] = [acts[s] EXCEPT !.pc = acts[s].pc, !.late = TRUE]]
      BY <2>1, <2>6, TypedCalls
    <3>2. acts[s].pc \in Places \ {"idle", "resolve"}
      BY <2>2 DEF Places
    <3> QED
      BY <2>1, <2>2, <3>1, <3>2, MovingStep
  <2> QED
    BY <2>3, <2>4, <2>5, <2>6
<1>8. CASE Cancel
  BY <1>8, DyingStep DEF Cancel, RegistryInv, RegistryTypeOK
<1> QED
  BY <1>1, <1>3, <1>4, <1>6, <1>7, <1>8, SpawnStep, ConcludeStep, StartKillStep, DropBatchStep, ShutdownStep,
     ShutdownNextStep, ShutdownOneStep, ActorsDiffer DEF RegistryNext, CallStep, ShellStep, Terminate

(***************************************************************************)
(* The inductive invariant holds in every state of a workspace.            *)
(***************************************************************************)
THEOREM RegistryInvHolds == RegistrySpec => []RegistryInv
<1>1. RegistryInit => RegistryInv
  <2> SUFFICES ASSUME RegistryInit PROVE RegistryInv
    OBVIOUS
  <2> USE DEF RegistryInit, Idle, Busy, Running, Exited
  <2>1. RegistryTypeOK
    BY DEF RegistryTypeOK, Places
  <2>2. \A a \in Actors : ~Busy(a)
    OBVIOUS
  <2>3. FreshInv
    BY <2>2, RegistryAssumption, FS_CardinalityType DEF FreshInv, RegistryAssumption
  <2>4. CallInv /\ ShutdownInv
    BY <2>2, ActorsDiffer DEF CallInv, ShutdownInv, ShuttingDown
  <2>5. NothingRunsUnowned /\ CleanShutdownLeavesNothing
    BY DEF NothingRunsUnowned, CleanShutdownLeavesNothing
  <2> QED
    BY <2>1, <2>3, <2>4, <2>5 DEF RegistryInv
<1>2. RegistryInv /\ [RegistryNext]_registryVars => RegistryInv'
  <2> SUFFICES ASSUME RegistryInv, [RegistryNext]_registryVars PROVE RegistryInv'
    OBVIOUS
  <2>1. CASE UNCHANGED registryVars
    BY <2>1, DyingStep DEF registryVars, RegistryInv, RegistryTypeOK
  <2> QED
    BY <2>1, RegistryStep
<1> QED
  BY <1>1, <1>2, PTL DEF RegistrySpec

(***************************************************************************)
(* A process that runs is in the table or belongs to a call in progress,   *)
(* whatever calls are made, cancelled or dropped at their awaits, and      *)
(* however small the table (start, finish_cancelled_start, kill_on_drop).  *)
(***************************************************************************)
THEOREM ProcessesAreOwned == RegistrySpec => []NothingRunsUnowned
<1>1. RegistryInv => NothingRunsUnowned
  BY DEF RegistryInv
<1> QED
  BY RegistryInvHolds, <1>1, PTL

(***************************************************************************)
(* A shutdown that reports no failure leaves no registered process that    *)
(* has not ended, whatever it found in the table (shutdown_processes).     *)
(***************************************************************************)
THEOREM ShutdownIsComplete == RegistrySpec => []CleanShutdownLeavesNothing
<1>1. RegistryInv => CleanShutdownLeavesNothing
  BY DEF RegistryInv
<1> QED
  BY RegistryInvHolds, <1>1, PTL

-----------------------------------------------------------------------------
(* The output that is drained and read.                                    *)

LEMMA PartsOfBytes ==
    ASSUME NEW s \in Seq(Nat), NEW k \in 0..Len(s)
    PROVE  /\ SubSeq(s, 1, k) \in Seq(Nat) /\ Len(SubSeq(s, 1, k)) = k
           /\ \A i \in 1..k : SubSeq(s, 1, k)[i] = s[i]
           /\ SubSeq(s, k + 1, Len(s)) \in Seq(Nat) /\ Len(SubSeq(s, k + 1, Len(s))) = Len(s) - k
           /\ \A i \in 1..(Len(s) - k) : SubSeq(s, k + 1, Len(s))[i] = s[k + i]
<1>1. \A i \in 1..Len(s) : s[i] \in Nat
  OBVIOUS
<1>2. /\ SubSeq(s, 1, k) \in Seq(Nat) /\ Len(SubSeq(s, 1, k)) = k
      /\ \A i \in 1..k : SubSeq(s, 1, k)[i] = s[i]
  <2>1. \A i \in 1..k : s[i] \in Nat
    BY <1>1
  <2>2. /\ SubSeq(s, 1, k) \in Seq(Nat)
        /\ Len(SubSeq(s, 1, k)) = IF 1 <= k THEN k - 1 + 1 ELSE 0
        /\ \A i \in 1..(k - 1 + 1) : SubSeq(s, 1, k)[i] = s[1 + i - 1]
    BY <2>1, SubSeqProperties
  <2> QED
    BY <2>2
<1>3. /\ SubSeq(s, k + 1, Len(s)) \in Seq(Nat) /\ Len(SubSeq(s, k + 1, Len(s))) = Len(s) - k
      /\ \A i \in 1..(Len(s) - k) : SubSeq(s, k + 1, Len(s))[i] = s[k + i]
  <2> DEFINE m == k + 1
             n == Len(s)
  <2>1. m \in Int /\ n \in Int /\ \A i \in m..n : s[i] \in Nat
    BY <1>1
  <2> HIDE DEF m, n
  <2>2. /\ SubSeq(s, m, n) \in Seq(Nat)
        /\ Len(SubSeq(s, m, n)) = IF m <= n THEN n - m + 1 ELSE 0
        /\ \A i \in 1..(n - m + 1) : SubSeq(s, m, n)[i] = s[m + i - 1]
    BY <2>1, SubSeqProperties
  <2> QED
    BY <2>2 DEF m, n
<1> QED
  BY <1>2, <1>3

\* Two sequences in order, the one before the other, and what their concatenation is made of.
LEMMA JoinedInOrder ==
    ASSUME NEW a \in Seq(Nat), NEW b \in Seq(Nat), InOrder(a), InOrder(b),
           \A m \in 1..Len(a), n \in 1..Len(b) : a[m] < b[n]
    PROVE  /\ a \o b \in Seq(Nat) /\ Len(a \o b) = Len(a) + Len(b) /\ InOrder(a \o b)
           /\ \A k \in 1..Len(a \o b) :
                  \/ \E m \in 1..Len(a) : (a \o b)[k] = a[m]
                  \/ \E n \in 1..Len(b) : (a \o b)[k] = b[n]
<1> DEFINE all == a \o b
<1>1. /\ all \in Seq(Nat) /\ Len(all) = Len(a) + Len(b)
      /\ \A k \in 1..(Len(a) + Len(b)) : all[k] = IF k <= Len(a) THEN a[k] ELSE b[k - Len(a)]
  BY ConcatProperties
<1> DEFINE la == Len(a)
           lb == Len(b)
<1>2. la \in Nat /\ lb \in Nat
  OBVIOUS
<1> HIDE DEF all, la, lb
<1>3. \A k \in 1..Len(all) :
         \/ k \in 1..la /\ all[k] = a[k]
         \/ k > la /\ k - la \in 1..lb /\ all[k] = b[k - la]
  <2> SUFFICES ASSUME NEW k \in 1..Len(all)
               PROVE  \/ k \in 1..la /\ all[k] = a[k]
                      \/ k > la /\ k - la \in 1..lb /\ all[k] = b[k - la]
    OBVIOUS
  <2>1. k \in 1..(la + lb) /\ all[k] = IF k <= la THEN a[k] ELSE b[k - la]
    BY <1>1 DEF la, lb
  <2>2. k \in 1..la \/ (k > la /\ k - la \in 1..lb)
    BY <1>2, <2>1
  <2> QED
    BY <1>2, <2>1, <2>2
<1>4. /\ \A j, k \in 1..la : j < k => a[j] < a[k]
      /\ \A j, k \in 1..lb : j < k => b[j] < b[k]
      /\ \A m \in 1..la, n \in 1..lb : a[m] < b[n]
  BY DEF InOrder, la, lb
<1>5. \A j, k \in 1..Len(all) : j < k => all[j] < all[k]
  <2> SUFFICES ASSUME NEW j \in 1..Len(all), NEW k \in 1..Len(all), j < k
               PROVE  all[j] < all[k]
    OBVIOUS
  <2>1. j \in Nat /\ k \in Nat
    BY <1>1
  <2>2. CASE k \in 1..la
    BY <1>2, <1>3, <1>4, <2>1, <2>2
  <2>3. CASE k > la /\ j \in 1..la
    BY <1>2, <1>3, <1>4, <2>1, <2>3
  <2>4. CASE k > la /\ j > la
    <3>1. k - la \in 1..lb /\ j - la \in 1..lb /\ all[k] = b[k - la] /\ all[j] = b[j - la] /\ j - la < k - la
      BY <1>2, <1>3, <2>1, <2>4
    <3> QED
      BY <1>4, <3>1
  <2> QED
    BY <1>2, <1>3, <2>1, <2>2, <2>3, <2>4
<1>6. InOrder(all)
  BY <1>5 DEF InOrder
<1>7. \A k \in 1..Len(all) : (\E m \in 1..la : all[k] = a[m]) \/ (\E n \in 1..lb : all[k] = b[n])
  BY <1>3
<1> QED
  BY <1>1, <1>6, <1>7 DEF all, la, lb

\* The two parts of a sequence that is cut: both in order, and the first before the second.
LEMMA CutInOrder ==
    ASSUME NEW s \in Seq(Nat), NEW c \in 0..Len(s), InOrder(s)
    PROVE  LET first == SubSeq(s, 1, c)
               rest  == SubSeq(s, c + 1, Len(s))
           IN  /\ first \in Seq(Nat) /\ Len(first) = c /\ InOrder(first)
               /\ rest \in Seq(Nat) /\ Len(rest) = Len(s) - c /\ InOrder(rest)
               /\ \A m \in 1..Len(first), n \in 1..Len(rest) : first[m] < rest[n]
               /\ \A m \in 1..Len(first) : \E k \in 1..Len(s) : first[m] = s[k]
               /\ \A n \in 1..Len(rest) : \E k \in 1..Len(s) : rest[n] = s[k]
<1> DEFINE first == SubSeq(s, 1, c)
           rest == SubSeq(s, c + 1, Len(s))
           l == Len(s)
<1>1. l \in Nat /\ c \in 0..l
  OBVIOUS
<1>2. /\ first \in Seq(Nat) /\ Len(first) = c
      /\ \A i \in 1..c : first[i] = s[i]
      /\ rest \in Seq(Nat) /\ Len(rest) = l - c
      /\ \A i \in 1..(l - c) : rest[i] = s[c + i]
  BY PartsOfBytes
<1>3. \A j, k \in 1..l : j < k => s[j] < s[k]
  BY DEF InOrder
<1> HIDE DEF l, first, rest
<1>4. InOrder(first)
  <2>1. \A i \in 1..c : i \in 1..l
    BY <1>1
  <2> QED
    BY <1>2, <1>3, <2>1 DEF InOrder
<1>5. \A i \in 1..(l - c) : c + i \in 1..l
  BY <1>1
<1>6. \A j, k \in 1..(l - c) : j < k => c + j < c + k
  BY <1>1
<1>7. InOrder(rest)
  BY <1>2, <1>3, <1>5, <1>6 DEF InOrder
<1>8. \A m \in 1..c, n \in 1..(l - c) : first[m] < rest[n]
  <2> SUFFICES ASSUME NEW m \in 1..c, NEW n \in 1..(l - c) PROVE first[m] < rest[n]
    OBVIOUS
  <2>1. m \in 1..l /\ c + n \in 1..l /\ m < c + n
    BY <1>1
  <2> QED
    BY <1>2, <1>3, <2>1
<1>9. \A m \in 1..c : \E k \in 1..l : first[m] = s[k]
  BY <1>1, <1>2
<1>10. \A n \in 1..(l - c) : \E k \in 1..l : rest[n] = s[k]
  BY <1>2, <1>5
<1> QED
  BY <1>2, <1>4, <1>7, <1>8, <1>9, <1>10 DEF l, first, rest

\* The drain appends what the process wrote next, and drops the oldest that is too much.
LEMMA PushAccounts ==
    ASSUME NEW o \in Outputs, NEW t \in Takings, NEW gone \in BOOLEAN, Accounted(o, t, gone),
           NEW n \in 1..(o.written - o.drained)
    PROVE  Push(o, n) \in Outputs /\ Accounted(Push(o, n), t, gone)
<1> DEFINE a == t.bytes
           b == o.bytes
           before == o.drained
           fresh == [k \in 1..n |-> o.drained + k]
           all == b \o fresh
           over == IF Len(all) > Capacity THEN Len(all) - Capacity ELSE 0
           kept == SubSeq(all, over + 1, Len(all))
           drained == o.drained + n
           dropped == o.dropped + over
           p == Push(o, n)
<1>1. /\ o.written \in Nat /\ before \in Nat /\ b \in Seq(Nat) /\ o.dropped \in Nat /\ o.eof \in BOOLEAN
      /\ a \in Seq(Nat) /\ n \in Nat \ {0} /\ before + n <= o.written
      /\ Capacity \in Nat
  BY RegistryAssumption DEF Outputs, Takings, RegistryAssumption
<1>2. /\ Len(a) + Len(b) + o.dropped = before /\ InOrder(a) /\ InOrder(b)
      /\ \A m \in 1..Len(a), k \in 1..Len(b) : a[m] < b[k]
      /\ \A m \in 1..Len(a) : a[m] <= before
      /\ \A k \in 1..Len(b) : b[k] <= before
      /\ o.eof => before = o.written
      /\ t.end => o.eof
  BY DEF Accounted
<1>3. fresh \in Seq(Nat) /\ Len(fresh) = n /\ \A k \in 1..n : fresh[k] = before + k
  BY <1>1
<1>4. drained \in Nat /\ drained = before + n
  BY <1>1
<1>5. p = [o EXCEPT !.drained = drained, !.bytes = kept, !.dropped = dropped]
  BY DEF Push
<1> HIDE DEF a, b, before, fresh, p, drained
<1>6. InOrder(fresh) /\ \A k \in 1..n : fresh[k] > before /\ fresh[k] <= drained
  BY <1>1, <1>3, <1>4 DEF InOrder
<1>7. \A i \in 1..Len(a) : a[i] \in Nat
  BY <1>1
<1>8. \A i \in 1..Len(b) : b[i] \in Nat
  BY <1>1
<1>9. \A m \in 1..Len(a), k \in 1..n : a[m] < fresh[k]
  BY <1>1, <1>2, <1>3, <1>6, <1>7
<1>10. \A m \in 1..Len(b), k \in 1..Len(fresh) : b[m] < fresh[k]
  BY <1>1, <1>2, <1>3, <1>6, <1>8
<1>11. /\ all \in Seq(Nat) /\ Len(all) = Len(b) + n /\ InOrder(all)
       /\ \A k \in 1..Len(all) : (\E m \in 1..Len(b) : all[k] = b[m]) \/ (\E i \in 1..n : all[k] = fresh[i])
  BY <1>1, <1>2, <1>3, <1>6, <1>10, JoinedInOrder
<1> HIDE DEF all
<1>12. over \in 0..Len(all)
  BY <1>1, <1>11
<1> HIDE DEF over
<1>13. /\ kept \in Seq(Nat) /\ Len(kept) = Len(all) - over /\ InOrder(kept)
       /\ \A k \in 1..Len(kept) : \E i \in 1..Len(all) : kept[k] = all[i]
  BY <1>11, <1>12, CutInOrder
<1> HIDE DEF kept
<1>14. \A k \in 1..Len(all) : all[k] <= drained /\ \A m \in 1..Len(a) : a[m] < all[k]
  <2> SUFFICES ASSUME NEW k \in 1..Len(all) PROVE all[k] <= drained /\ \A m \in 1..Len(a) : a[m] < all[k]
    OBVIOUS
  <2>1. CASE \E m \in 1..Len(b) : all[k] = b[m]
    <3>1. PICK i \in 1..Len(b) : all[k] = b[i]
      BY <2>1
    <3>2. b[i] \in Nat /\ b[i] <= before /\ before <= drained
      BY <1>1, <1>2, <1>4, <1>8
    <3> QED
      BY <1>1, <1>2, <1>4, <3>1, <3>2
  <2>2. CASE \E i \in 1..n : all[k] = fresh[i]
    BY <1>6, <1>9, <2>2
  <2> QED
    BY <1>11, <2>1, <2>2
<1>15. \A k \in 1..Len(kept) : kept[k] <= drained /\ \A m \in 1..Len(a) : a[m] < kept[k]
  BY <1>13, <1>14
<1>16. dropped \in Nat /\ Len(a) + Len(kept) + dropped = drained
  <2>1. Len(a) \in Nat /\ Len(b) \in Nat
    BY <1>1
  <2>2. over \in Nat /\ Len(all) = Len(b) + n /\ Len(kept) = Len(all) - over
    BY <1>1, <1>11, <1>12, <1>13, <2>1
  <2>3. o.dropped \in Nat /\ Len(a) + Len(b) + o.dropped = before
    BY <1>1, <1>2
  <2>4. dropped \in Nat /\ dropped = o.dropped + over
    BY <2>2, <2>3
  <2>5. Len(kept) = Len(b) + n - over
    BY <2>2
  <2> HIDE DEF dropped
  <2>6. n \in Nat /\ before \in Nat
    BY <1>1
  <2>7. Len(a) + Len(kept) + dropped = before + n
    <3> DEFINE x == Len(a)
               y == Len(b)
               z == Len(kept)
               d == o.dropped
    <3>1. x \in Nat /\ y \in Nat /\ d \in Nat /\ over \in Nat
      BY <2>1, <2>2, <2>3
    <3>2. x + y + d = before /\ z = y + n - over /\ dropped = d + over
      BY <2>3, <2>4, <2>5
    <3> HIDE DEF x, y, z, d
    <3>3. x + z + dropped = before + n
      BY <2>6, <3>1, <3>2
    <3> QED
      BY <3>3 DEF x, z
  <2> QED
    BY <1>4, <2>4, <2>7
<1>17. \A m \in 1..Len(a) : a[m] <= drained
  BY <1>1, <1>2, <1>4, <1>7
<1>18. ~o.eof /\ ~t.end
  BY <1>1, <1>2
<1> HIDE DEF dropped
<1>19. p \in Outputs
  BY <1>4, <1>5, <1>13, <1>16 DEF Outputs
<1>20. /\ p.written = o.written /\ p.drained = drained /\ p.bytes = kept
       /\ p.dropped = dropped /\ p.eof = o.eof
  BY <1>5 DEF Outputs
<1>21. drained <= o.written
  BY <1>1, <1>4
<1>22. Accounted(p, t, gone)
  <2>1. a = t.bytes
    BY DEF a
  <2> QED
    BY <1>2, <1>13, <1>15, <1>16, <1>17, <1>18, <1>20, <1>21, <2>1 DEF Accounted
<1> QED
  BY <1>19, <1>22 DEF p

\* A read takes the oldest bytes of the buffer and puts them behind what was taken before.
LEMMA TakeAccounts ==
    ASSUME NEW o \in Outputs, NEW t \in Takings, NEW gone \in BOOLEAN, Accounted(o, t, gone),
           NEW o1 \in Outputs, NEW t1 \in Takings,
           o1.written = o.written, o1.drained = o.drained, o1.dropped = o.dropped, o1.eof = o.eof,
           o1.bytes = Rest(o), t1.bytes = t.bytes \o SubSeq(o.bytes, 1, Count(o)),
           t1.end => t.end \/ SeesEof(o)
    PROVE  Accounted(o1, t1, gone)
<1> DEFINE a == t.bytes
           b == o.bytes
           drained == o.drained
           c == Count(o)
           first == SubSeq(b, 1, c)
           rest == SubSeq(b, c + 1, Len(b))
           all == a \o first
<1>1. /\ o.written \in Nat /\ drained \in Nat /\ b \in Seq(Nat) /\ o.dropped \in Nat /\ o.eof \in BOOLEAN
      /\ a \in Seq(Nat) /\ ReadLimit \in Nat
  BY RegistryAssumption DEF Outputs, Takings, RegistryAssumption
<1>2. c \in 0..Len(b)
  BY <1>1 DEF Count
<1>3. /\ Len(a) + Len(b) + o.dropped = drained /\ drained <= o.written /\ InOrder(a) /\ InOrder(b)
      /\ \A m \in 1..Len(a), k \in 1..Len(b) : a[m] < b[k]
      /\ \A m \in 1..Len(a) : a[m] <= drained
      /\ \A k \in 1..Len(b) : b[k] <= drained
      /\ o.eof => gone /\ drained = o.written
      /\ t.end => o.eof /\ b = <<>>
  BY DEF Accounted
<1>4. o1.bytes = rest /\ t1.bytes = all /\ o1.drained = drained
  BY DEF Rest
<1>5. SeesEof(o) => o.eof /\ rest = <<>>
  BY DEF SeesEof, Rest
<1> HIDE DEF a, b, c, drained
<1>6. /\ first \in Seq(Nat) /\ Len(first) = c /\ InOrder(first)
      /\ rest \in Seq(Nat) /\ Len(rest) = Len(b) - c /\ InOrder(rest)
      /\ \A m \in 1..Len(first), n \in 1..Len(rest) : first[m] < rest[n]
      /\ \A m \in 1..Len(first) : \E k \in 1..Len(b) : first[m] = b[k]
      /\ \A n \in 1..Len(rest) : \E k \in 1..Len(b) : rest[n] = b[k]
  BY <1>1, <1>2, <1>3, CutInOrder
<1> HIDE DEF first, rest
<1>7. \A m \in 1..Len(a), k \in 1..Len(first) : a[m] < first[k]
  BY <1>3, <1>6
<1>8. /\ all \in Seq(Nat) /\ Len(all) = Len(a) + Len(first) /\ InOrder(all)
      /\ \A k \in 1..Len(all) : (\E m \in 1..Len(a) : all[k] = a[m]) \/ (\E i \in 1..Len(first) : all[k] = first[i])
  BY <1>1, <1>3, <1>6, <1>7, JoinedInOrder
<1> HIDE DEF all
<1>9. \A m \in 1..Len(all), n \in 1..Len(rest) : all[m] < rest[n]
  BY <1>3, <1>6, <1>8
<1>10. /\ \A m \in 1..Len(all) : all[m] <= drained
       /\ \A n \in 1..Len(rest) : rest[n] <= drained
  BY <1>3, <1>6, <1>8
<1>11. Len(all) + Len(rest) + o.dropped = drained
  <2>1. Len(a) \in Nat /\ Len(b) \in Nat
    BY <1>1
  <2> QED
    BY <1>1, <1>2, <1>3, <1>6, <1>8, <2>1
<1>12. t1.end => o.eof /\ rest = <<>>
  <2>1. CASE t.end
    <3>1. o.eof /\ Len(b) = 0
      BY <1>3, <2>1
    <3>2. c = 0 /\ Len(rest) = Len(b) - c
      BY <1>2, <1>6, <3>1
    <3>3. Len(rest) = 0
      BY <3>1, <3>2
    <3> QED
      BY <1>6, <3>1, <3>3
  <2>2. CASE ~t.end
    BY <1>5, <2>2
  <2> QED
    BY <2>1, <2>2
<1> HIDE DEF all
<1>13. Len(t1.bytes) + Len(o1.bytes) + o1.dropped = o1.drained /\ o1.drained <= o1.written
  BY <1>3, <1>4, <1>11
<1>14. InOrder(t1.bytes) /\ InOrder(o1.bytes)
  BY <1>4, <1>6, <1>8
<1>15. /\ \A m \in 1..Len(t1.bytes), n \in 1..Len(o1.bytes) : t1.bytes[m] < o1.bytes[n]
       /\ \A m \in 1..Len(t1.bytes) : t1.bytes[m] <= o1.drained
       /\ \A n \in 1..Len(o1.bytes) : o1.bytes[n] <= o1.drained
  BY <1>4, <1>9, <1>10
<1>16. /\ o1.eof => gone /\ o1.drained = o1.written
       /\ t1.end => o1.eof /\ o1.bytes = <<>>
  BY <1>3, <1>4, <1>12
<1> QED
  BY <1>13, <1>14, <1>15, <1>16 DEF Accounted

\* A process that has exited stays so: only an id that was never used is spawned.
LEMMA ExitedStays ==
    ASSUME RegistryInv, [RegistryNext]_registryVars
    PROVE  /\ child' \in [Ids -> {"none", "running", "killed", "exited"}]
           /\ \A i \in Ids : Exited(i) => child'[i] = "exited"
<1> DEFINE Stays == /\ child' \in [Ids -> {"none", "running", "killed", "exited"}]
                    /\ \A i \in Ids : Exited(i) => child'[i] = "exited"
<1>1. child \in [Ids -> {"none", "running", "killed", "exited"}] /\ RegistryTypeOK
  BY DEF RegistryInv, RegistryTypeOK
<1>2. CASE child' = child
  BY <1>1, <1>2 DEF Exited
<1>3. ASSUME NEW gone, child' = Dropped(gone) PROVE Stays
  BY <1>1, <1>3, DroppedHandles DEF Exited, Running
<1>4. ASSUME NEW i \in Ids, ChildExits(i) PROVE Stays
  BY <1>1, <1>4 DEF ChildExits, Exited
<1>5. ASSUME NEW s \in Slots, Spawn(s) PROVE Stays
  <2>1. \/ child' = child
        \/ nextId \in Ids /\ child' = [child EXCEPT ![nextId] = "running"]
    BY <1>5 DEF Spawn, Spawned
  <2>2. nextId \in Ids => child[nextId] = "none"
    BY IdsAreNumbers DEF RegistryInv, FreshInv, RegistryTypeOK
  <2> QED
    BY <1>1, <2>1, <2>2 DEF Exited
<1>6. ASSUME NEW a \in Actors, StartKill(a) PROVE Stays
  <2> DEFINE i == acts[a].id
  <2>1. child' = child \/ ("alive" \in TryWait(i) /\ child' = [child EXCEPT ![i] = "killed"])
    BY <1>6 DEF StartKill, TerminationFailed, TerminationExited
  <2>2. "alive" \in TryWait(i) => ~Exited(i)
    BY DEF TryWait
  <2> QED
    BY <1>1, <2>1, <2>2 DEF Exited
<1>7. ASSUME NEW s \in Slots, Conclude(s) PROVE Stays
  BY <1>3, <1>7 DEF Conclude
<1>8. ASSUME DropBatch PROVE Stays
  BY <1>3, <1>8 DEF DropBatch
<1>9. CASE EndShutdown
  BY <1>2, <1>3, <1>9 DEF EndShutdown
<1>10. ASSUME NEW a \in Actors, Terminate(a) PROVE Stays
  <2>1. CASE StartKill(a)
    BY <1>6, <2>1
  <2>2. CASE LockChild(a) \/ AwaitExit(a) \/ FinishDrains(a)
    BY <1>2, <2>2 DEF LockChild, AwaitExit, FinishDrains, TerminationFailed, TerminationExited
  <2> QED
    BY <1>10, <2>1, <2>2 DEF Terminate
<1>11. ASSUME NEW s \in Slots, CallStep(s) PROVE Stays
  <2>1. CASE Started(s) \/ Read(s) \/ Wake(s) \/ Status(s)
    BY <1>2, <2>1 DEF Started, Read, Wake, Status
  <2>2. CASE Spawn(s) \/ Conclude(s)
    BY <1>5, <1>7, <2>2
  <2>3. CASE Terminate(s)
    BY <1>10, <2>3, ActorsDiffer
  <2> QED
    BY <1>11, <2>1, <2>2, <2>3 DEF CallStep
<1>12. ASSUME ShellStep PROVE Stays
  <2>1. CASE (\E i \in Ids : ShutdownNext(i)) \/ ShutdownOne
    BY <1>2, <2>1 DEF ShutdownNext, ShutdownOne
  <2>2. CASE EndShutdown
    BY <1>9, <2>2
  <2>3. CASE Terminate(Shell)
    BY <1>10, <2>3, ActorsDiffer
  <2> QED
    BY <1>12, <2>1, <2>2, <2>3 DEF ShellStep
<1>13. ASSUME NEW i \in Ids, ChildWrites(i) \/ ChildExits(i) \/ DrainStream(i) PROVE Stays
  <2>1. CASE ChildWrites(i) \/ DrainStream(i)
    BY <1>2, <2>1 DEF ChildWrites, DrainStream
  <2>2. CASE ChildExits(i)
    BY <1>4, <2>2
  <2> QED
    BY <1>13, <2>1, <2>2
<1>14. ASSUME NEW s \in Slots, CallStart(s) \/ CallStep(s) \/ Deadline(s) \/ Write(s) PROVE Stays
  <2>1. CASE CallStart(s) \/ Deadline(s) \/ Write(s)
    BY <1>2, <2>1 DEF CallStart, Deadline, Write
  <2> QED
    BY <1>11, <1>14, <2>1
<1>15. ASSUME \E s \in Slots, op \in Reads \cup Writes, i \in Ids : Call(s, op, i) PROVE Stays
  BY <1>2, <1>15 DEF Call
<1>16. ASSUME Cancel \/ \E purpose \in {"close", "switch"} : BeginShutdown(purpose) PROVE Stays
  BY <1>2, <1>16 DEF Cancel, BeginShutdown
<1>17. ASSUME UNCHANGED registryVars PROVE Stays
  BY <1>2, <1>17 DEF registryVars
<1> HIDE DEF Stays
<1>18. ASSUME RegistryNext PROVE Stays
  <2>1. \/ \E i \in Ids : ChildWrites(i) \/ ChildExits(i) \/ DrainStream(i)
        \/ \E s \in Slots : CallStart(s) \/ CallStep(s) \/ Deadline(s) \/ Write(s)
        \/ \E s \in Slots, op \in Reads \cup Writes, i \in Ids : Call(s, op, i)
        \/ Cancel \/ DropBatch
        \/ \E purpose \in {"close", "switch"} : BeginShutdown(purpose)
        \/ ShellStep
    BY <1>18 DEF RegistryNext
  <2>2. CASE \E i \in Ids : ChildWrites(i) \/ ChildExits(i) \/ DrainStream(i)
    BY <1>13, <2>2
  <2>3. CASE \E s \in Slots : CallStart(s) \/ CallStep(s) \/ Deadline(s) \/ Write(s)
    BY <1>14, <2>3
  <2> QED
    BY <1>8, <1>12, <1>15, <1>16, <2>1, <2>2, <2>3
<1>19. Stays
  BY <1>17, <1>18
<1> QED
  BY <1>19 DEF Stays

\* The steps that touch an output, or what was taken from it.
LEMMA OutputMoves ==
    ASSUME [RegistryNext]_registryVars
    PROVE  \/ UNCHANGED <<output, taken>>
           \/ \E i \in Ids : ChildWrites(i) \/ DrainStream(i)
           \/ \E s \in Slots : Read(s)
<1> DEFINE Quiet == UNCHANGED <<output, taken>>
<1>1. ASSUME NEW a \in Actors, Terminate(a) PROVE Quiet
  BY <1>1 DEF Terminate, LockChild, StartKill, AwaitExit, FinishDrains
<1>2. ASSUME NEW s \in Slots, CallStep(s) PROVE Quiet \/ Read(s)
  <2>1. CASE Spawn(s) \/ Started(s) \/ Conclude(s) \/ Wake(s) \/ Status(s)
    BY <2>1 DEF Spawn, Started, Conclude, Wake, Status
  <2>2. CASE Terminate(s)
    BY <1>1, <2>2, ActorsDiffer
  <2> QED
    BY <1>2, <2>1, <2>2 DEF CallStep
<1>3. ASSUME ShellStep PROVE Quiet
  <2>1. CASE Terminate(Shell)
    BY <1>1, <2>1, ActorsDiffer
  <2>2. CASE (\E i \in Ids : ShutdownNext(i)) \/ ShutdownOne \/ EndShutdown
    BY <2>2 DEF ShutdownNext, ShutdownOne, EndShutdown
  <2> QED
    BY <1>3, <2>1, <2>2 DEF ShellStep
<1>4. ASSUME NEW s \in Slots, CallStart(s) \/ CallStep(s) \/ Deadline(s) \/ Write(s) PROVE Quiet \/ Read(s)
  <2>1. CASE CallStart(s) \/ Deadline(s) \/ Write(s)
    BY <2>1 DEF CallStart, Deadline, Write
  <2> QED
    BY <1>2, <1>4, <2>1
<1>5. ASSUME NEW i \in Ids, ChildExits(i) PROVE Quiet
  BY <1>5 DEF ChildExits
<1>6. ASSUME \E s \in Slots, op \in Reads \cup Writes, i \in Ids : Call(s, op, i) PROVE Quiet
  BY <1>6 DEF Call
<1>7. ASSUME Cancel \/ DropBatch \/ \E purpose \in {"close", "switch"} : BeginShutdown(purpose) PROVE Quiet
  BY <1>7 DEF Cancel, DropBatch, BeginShutdown
<1>8. ASSUME UNCHANGED registryVars PROVE Quiet
  BY <1>8 DEF registryVars
<1> HIDE DEF Quiet
<1> DEFINE Touched == (\E i \in Ids : ChildWrites(i) \/ DrainStream(i)) \/ (\E s \in Slots : Read(s))
<1>9. ASSUME RegistryNext PROVE Quiet \/ Touched
  <2>1. \/ \E i \in Ids : ChildWrites(i) \/ ChildExits(i) \/ DrainStream(i)
        \/ \E s \in Slots : CallStart(s) \/ CallStep(s) \/ Deadline(s) \/ Write(s)
        \/ \E s \in Slots, op \in Reads \cup Writes, i \in Ids : Call(s, op, i)
        \/ Cancel \/ DropBatch
        \/ \E purpose \in {"close", "switch"} : BeginShutdown(purpose)
        \/ ShellStep
    BY <1>9 DEF RegistryNext
  <2>2. CASE \E i \in Ids : ChildWrites(i) \/ ChildExits(i) \/ DrainStream(i)
    BY <1>5, <2>2
  <2>3. CASE \E s \in Slots : CallStart(s) \/ CallStep(s) \/ Deadline(s) \/ Write(s)
    BY <1>4, <2>3
  <2> HIDE DEF Touched
  <2> QED
    BY <1>3, <1>6, <1>7, <2>1, <2>2, <2>3
<1>10. Quiet \/ Touched
  BY <1>8, <1>9
<1> QED
  BY <1>10 DEF Quiet

LEMMA OutputStep ==
    ASSUME RegistryInv, OutputInv, [RegistryNext]_registryVars
    PROVE  OutputInv'
<1>1. /\ output \in [Ids -> Outputs] /\ taken \in [Ids -> Takings]
      /\ \A i \in Ids : Accounted(output[i], taken[i], Exited(i))
      /\ \A i \in Ids : Exited(i) \in BOOLEAN
  BY DEF OutputInv, Exited
<1>2. \A i \in Ids : Exited(i) => Exited(i)'
  BY ExitedStays DEF Exited
<1>3. ASSUME NEW i \in Ids, NEW o \in Outputs, NEW t \in Takings,
             output' = [output EXCEPT ![i] = o], taken' = [taken EXCEPT ![i] = t],
             Accounted(o, t, Exited(i))
      PROVE  OutputInv'
  <2>1. output' \in [Ids -> Outputs] /\ taken' \in [Ids -> Takings]
    BY <1>1, <1>3
  <2>2. ASSUME NEW j \in Ids PROVE Accounted(output'[j], taken'[j], Exited(j)')
    <3>1. Accounted(output'[j], taken'[j], Exited(j))
      BY <1>1, <1>3
    <3>2. Exited(j) => Exited(j)'
      BY <1>2
    <3> QED
      BY <3>1, <3>2 DEF Accounted
  <2> QED
    BY <2>1, <2>2 DEF OutputInv
<1>4. CASE UNCHANGED <<output, taken>>
  <2>1. ASSUME NEW j \in Ids PROVE Accounted(output'[j], taken'[j], Exited(j)')
    <3>1. Accounted(output[j], taken[j], Exited(j)) /\ (Exited(j) => Exited(j)')
      BY <1>1, <1>2
    <3> QED
      BY <1>4, <3>1 DEF Accounted
  <2> QED
    BY <1>1, <1>4, <2>1 DEF OutputInv
<1>5. ASSUME NEW i \in Ids PROVE /\ taken = [taken EXCEPT ![i] = taken[i]]
                                 /\ output[i] \in Outputs /\ taken[i] \in Takings
  BY <1>1
<1>6. ASSUME NEW i \in Ids, ChildWrites(i) PROVE OutputInv'
  <2> DEFINE o == [output[i] EXCEPT !.written = @ + 1]
  <2>1. output' = [output EXCEPT ![i] = o] /\ taken' = [taken EXCEPT ![i] = taken[i]] /\ ~Exited(i)
    BY <1>5, <1>6 DEF ChildWrites, Running, Exited
  <2>2. /\ o \in Outputs /\ o.written = output[i].written + 1 /\ o.drained = output[i].drained
        /\ o.bytes = output[i].bytes /\ o.dropped = output[i].dropped /\ o.eof = output[i].eof
        /\ o.drained \in Nat /\ output[i].written \in Nat
    BY <1>5 DEF Outputs
  <2> HIDE DEF o
  <2>3. Accounted(o, taken[i], Exited(i))
    <3>1. Accounted(output[i], taken[i], Exited(i))
      BY <1>1
    <3>2. o.drained <= o.written
      BY <2>2, <3>1 DEF Accounted
    <3> QED
      BY <2>1, <2>2, <3>1, <3>2 DEF Accounted
  <2> QED
    BY <1>3, <1>5, <2>1, <2>2, <2>3
<1>7. ASSUME NEW i \in Ids, DrainStream(i) PROVE OutputInv'
  <2>1. CASE \E n \in 1..(output[i].written - output[i].drained) : output' = [output EXCEPT ![i] = Push(output[i], n)]
    <3>1. PICK n \in 1..(output[i].written - output[i].drained) : output' = [output EXCEPT ![i] = Push(output[i], n)]
      BY <2>1
    <3>2. taken' = [taken EXCEPT ![i] = taken[i]]
      BY <1>5, <1>7 DEF DrainStream
    <3>3. Push(output[i], n) \in Outputs /\ Accounted(Push(output[i], n), taken[i], Exited(i))
      BY <1>1, <1>5, PushAccounts
    <3> QED
      BY <1>3, <1>5, <3>1, <3>2, <3>3
  <2>2. CASE Exited(i) /\ output[i].written = output[i].drained /\ output' = [output EXCEPT ![i] = MarkEof(output[i])]
    <3> DEFINE o == MarkEof(output[i])
    <3>1. o \in Outputs
      BY <1>5 DEF MarkEof, Outputs
    <3>2. /\ o.written = output[i].written /\ o.drained = output[i].drained /\ o.bytes = output[i].bytes
          /\ o.dropped = output[i].dropped
      BY <1>5 DEF MarkEof, Outputs
    <3>3. o.eof
      BY <1>5 DEF MarkEof, Outputs
    <3>4. taken' = [taken EXCEPT ![i] = taken[i]]
      BY <1>5, <1>7 DEF DrainStream
    <3> HIDE DEF o
    <3>5. Accounted(o, taken[i], Exited(i))
      BY <1>1, <2>2, <3>2, <3>3 DEF Accounted
    <3> QED
      BY <1>3, <1>5, <2>2, <3>1, <3>4, <3>5 DEF o
  <2> QED
    BY <1>7, <2>1, <2>2 DEF DrainStream
<1>8. ASSUME NEW s \in Slots, Read(s) PROVE OutputInv'
  <2> DEFINE i == acts[s].id
             end == taken[i].end \/ SeesEof(output[i])
             o == [output[i] EXCEPT !.bytes = Rest(output[i])]
             bytes == taken[i].bytes \o SubSeq(output[i].bytes, 1, Count(output[i]))
  <2>1. i \in Ids
    BY <1>8, ActorsDiffer, TypedCalls DEF Read, Busy
  <2>2. CASE UNCHANGED <<output, taken>>
    BY <1>4, <2>2
  <2>3. CASE /\ taken' = [taken EXCEPT ![i].bytes = @ \o SubSeq(output[i].bytes, 1, Count(output[i])),
                                       ![i].end   = @ \/ SeesEof(output[i])]
             /\ output' = [output EXCEPT ![i].bytes = Rest(output[i])]
    <3> DEFINE t == [taken[i] EXCEPT !.bytes = bytes, !.end = end]
    <3>1. output[i] \in Outputs /\ taken[i] \in Takings
      BY <1>5, <2>1
    <3>2. bytes \in Seq(Nat) /\ Rest(output[i]) \in Seq(Nat)
      <4>1. output[i].bytes \in Seq(Nat) /\ taken[i].bytes \in Seq(Nat) /\ ReadLimit \in Nat
        BY <3>1, RegistryAssumption DEF Outputs, Takings, RegistryAssumption
      <4>2. Count(output[i]) \in 0..Len(output[i].bytes)
        BY <4>1 DEF Count
      <4>3. SubSeq(output[i].bytes, 1, Count(output[i])) \in Seq(Nat) /\ Rest(output[i]) \in Seq(Nat)
        BY <4>1, <4>2, PartsOfBytes DEF Rest
      <4> QED
        BY <4>1, <4>3, ConcatProperties
    <3>3. end \in BOOLEAN
      BY <3>1 DEF Takings
    <3>4. taken' = [taken EXCEPT ![i] = t] /\ output' = [output EXCEPT ![i] = o]
      BY <1>1, <2>1, <2>3
    <3>5. /\ o \in Outputs /\ o.written = output[i].written /\ o.drained = output[i].drained
          /\ o.dropped = output[i].dropped /\ o.eof = output[i].eof /\ o.bytes = Rest(output[i])
      BY <3>1, <3>2 DEF Outputs
    <3>6. t \in Takings /\ t.bytes = bytes /\ (t.end => end)
      <4> HIDE DEF bytes, end
      <4> QED
        BY <3>1, <3>2, <3>3 DEF Takings
    <3> HIDE DEF t, o
    <3>7. Accounted(o, t, Exited(i))
      BY <1>1, <2>1, <3>1, <3>5, <3>6, TakeAccounts
    <3> QED
      BY <1>3, <2>1, <3>4, <3>5, <3>6, <3>7
  <2> QED
    BY <1>8, <2>2, <2>3 DEF Read
<1> QED
  BY <1>4, <1>6, <1>7, <1>8, OutputMoves

(***************************************************************************)
(* What reads take from a persistent process is what it wrote, in order and*)
(* once, less what the full buffer dropped, for any capacity and number of *)
(* bytes; and the end is told after the last byte (OutputBuffer).          *)
(***************************************************************************)
THEOREM OutputIsReadInOrder == RegistrySpec => []OutputIsAccountedFor
<1>1. RegistryInit => OutputInv
  <2> SUFFICES ASSUME RegistryInit PROVE OutputInv
    OBVIOUS
  <2> DEFINE o == [written |-> 0, drained |-> 0, bytes |-> <<>>, dropped |-> 0, eof |-> FALSE]
             t == [bytes |-> <<>>, end |-> FALSE]
  <2>1. /\ <<>> \in Seq(Nat)
        /\ o \in Outputs /\ t \in Takings
    BY DEF Outputs, Takings
  <2>2. \A i \in Ids : output[i] = o /\ taken[i] = t
    BY DEF RegistryInit
  <2>3. \A gone : Accounted(o, t, gone)
    BY DEF Accounted, InOrder
  <2>4. output \in [Ids -> Outputs] /\ taken \in [Ids -> Takings]
    BY <2>1 DEF RegistryInit
  <2> HIDE DEF o, t
  <2> QED
    BY <2>2, <2>3, <2>4 DEF OutputInv
<1>2. RegistryInv /\ OutputInv /\ [RegistryNext]_registryVars => OutputInv'
  BY OutputStep
<1>3. OutputInv => OutputIsAccountedFor
  <2> SUFFICES ASSUME OutputInv, NEW i \in Ids
               PROVE  LET o == output[i] IN
                      /\ Len(taken[i].bytes) + Len(o.bytes) + o.dropped = o.drained
                      /\ InOrder(taken[i].bytes)
                      /\ taken[i].end => o.bytes = <<>> /\ o.drained = o.written
    BY DEF OutputIsAccountedFor
  <2>1. Accounted(output[i], taken[i], Exited(i))
    BY DEF OutputInv
  <2> QED
    BY <2>1 DEF Accounted
<1> QED
  BY <1>1, <1>2, <1>3, RegistryInvHolds, PTL DEF RegistrySpec

-----------------------------------------------------------------------------
(* The browser.                                                            *)

LEMMA IdleTask ==
    /\ Nothing \in Storages
    /\ NoTask \in Tasks
    /\ NoTask.kind = "idle" /\ NoTask.pc = "next" /\ NoTask.todo = <<>>
<1>1. Nothing \in Storages
  BY DEF Nothing, Storages
<1>2. <<>> \in Seq(Requests)
  OBVIOUS
<1> HIDE DEF Nothing, Storages, Requests
<1> QED
  BY <1>1, <1>2 DEF NoTask, Tasks, TaskPlaces

LEMMA StoppingTask ==
    /\ StopTask \in Tasks
    /\ StopTask.kind = "stop" /\ StopTask.pc \in {"next", "close"}
    /\ StopTask.pc = "close" => ~Supports
<1> DEFINE todo == IF Supports THEN <<"export">> ELSE <<>>
           pc == IF Supports THEN "next" ELSE "close"
<1>1. todo \in Seq(Requests) /\ pc \in {"next", "close"} /\ (pc = "close" => ~Supports)
  <2>1. <<"export">> \in Seq(Requests) /\ <<>> \in Seq(Requests)
    BY DEF Requests
  <2> QED
    BY <2>1
<1>2. StopTask = [NoTask EXCEPT !.kind = "stop", !.todo = todo, !.pc = pc]
  BY DEF StopTask
<1> HIDE DEF todo, pc, NoTask
<1> QED
  BY <1>1, <1>2, IdleTask DEF Tasks, TaskPlaces

LEMMA TypedTask ==
    ASSUME BrowserInv
    PROVE  /\ task \in Tasks /\ task.kind \in {"idle", "launch", "call", "stop"}
           /\ task.todo \in Seq(Requests) /\ task.export \in Storages /\ task.want \in Nat
BY DEF BrowserInv, BrowserTypeOK, Tasks

LEMMA PlacesOfATask ==
    /\ "next" \in TaskPlaces /\ "write" \in TaskPlaces /\ "await" \in TaskPlaces
    /\ "create" \in TaskPlaces /\ "rename" \in TaskPlaces /\ "close" \in TaskPlaces
BY DEF TaskPlaces

\* The places a task moves to, with what it takes along.
LEMMA MovedTask ==
    ASSUME NEW t \in Tasks, NEW pc \in TaskPlaces
    PROVE  [t EXCEPT !.pc = pc] \in Tasks /\ [t EXCEPT !.pc = pc, !.failed = TRUE] \in Tasks
<1>1. [t EXCEPT !.pc = pc] \in Tasks
  BY DEF Tasks
<1>2. [t EXCEPT !.pc = pc, !.failed = TRUE] \in Tasks
  BY DEF Tasks
<1> QED
  BY <1>1, <1>2

LEMMA AskingTask ==
    ASSUME NEW t \in Tasks, NEW want \in Nat
    PROVE  [t EXCEPT !.pc = "write", !.want = want] \in Tasks
BY DEF Tasks, TaskPlaces

LEMMA SkippingTask ==
    ASSUME NEW t \in Tasks
    PROVE  [t EXCEPT !.todo = <<>>, !.pc = "close", !.failed = TRUE] \in Tasks
<1>1. <<>> \in Seq(Requests)
  OBVIOUS
<1> QED
  BY <1>1 DEF Tasks, TaskPlaces

LEMMA ExportingTask ==
    ASSUME NEW t \in Tasks, NEW export \in Storages
    PROVE  [t EXCEPT !.todo = <<>>, !.pc = "create", !.export = export] \in Tasks
<1>1. <<>> \in Seq(Requests)
  OBVIOUS
<1> QED
  BY <1>1 DEF Tasks, TaskPlaces

\* Steps of the provider, the page and the channel.
LEMMA OutsideStep ==
    ASSUME BrowserInv, UNCHANGED <<conn, usable, attached, pending, task, saved, answer, stopped>>,
           provider' \in {provider, "exited"}, nextReq' \in Nat, page' \in Storages
    PROVE  BrowserInv'
<1> USE DEF BrowserInv
<1>1. BrowserTypeOK'
  BY DEF BrowserTypeOK
<1>2. TaskInv' /\ ExportInv' /\ AnswersMatchRequests'
  BY DEF TaskInv, ExportInv, AnswersMatchRequests, Free
<1>3. ProviderInv' /\ StopTellsTheTruth'
  BY DEF ProviderInv, StopTellsTheTruth, Free
<1> QED
  BY <1>1, <1>2, <1>3

\* A task ends without having written: its provider is in use, or no longer runs.
LEMMA EndingStep ==
    ASSUME BrowserInv, task' = NoTask, provider' \in {"none", "running", "exited"},
           conn' \in BOOLEAN, usable' \in BOOLEAN, attached' \in BOOLEAN, pending' \in Storages,
           page' \in Storages, nextReq' \in Nat,
           provider' = "running" => attached' /\ conn' /\ usable',
           saved' = saved, answer'.want = answer'.got,
           \/ stopped' = stopped /\ task.kind # "stop"
           \/ stopped' = <<>>
           \/ stopped' = <<saved>>
    PROVE  BrowserInv'
<1> USE DEF BrowserInv
<1> HIDE DEF NoTask
<1>1. BrowserTypeOK'
  BY IdleTask DEF BrowserTypeOK
<1>2. TaskInv' /\ ExportInv' /\ AnswersMatchRequests'
  BY IdleTask DEF TaskInv, ExportInv, AnswersMatchRequests, Free
<1>3. ProviderInv'
  BY IdleTask DEF ProviderInv, Free
<1>4. StopTellsTheTruth'
  BY IdleTask DEF StopTellsTheTruth, Free
<1> QED
  BY <1>1, <1>2, <1>3, <1>4

\* A task begins or goes on.
LEMMA WorkingStep ==
    ASSUME BrowserInv, task' \in Tasks, task'.kind # "idle", provider' \in {"none", "running", "exited"},
           conn' \in BOOLEAN, usable' \in BOOLEAN, attached' \in BOOLEAN, pending' \in Storages,
           page' \in Storages, nextReq' \in Nat, saved' \in Storages, answer'.want = answer'.got,
           task'.kind = "call" => attached' /\ conn' /\ usable',
           task'.pc \in {"write", "await"} => task'.todo # <<>>,
           task'.pc \in {"create", "rename", "close"} => task'.kind = "stop",
           task'.pc = "close" /\ Supports /\ ~task'.failed => saved' = task'.export,
           task'.kind # "stop" => stopped' = stopped /\ saved' = saved /\ task.kind # "stop"
    PROVE  BrowserInv'
<1> USE DEF BrowserInv
<1>1. BrowserTypeOK'
  BY DEF BrowserTypeOK
<1>2. TaskInv' /\ ExportInv' /\ AnswersMatchRequests'
  BY DEF TaskInv, ExportInv, AnswersMatchRequests, Free
<1>3. ProviderInv'
  BY DEF ProviderInv, Free
<1>4. StopTellsTheTruth'
  BY DEF StopTellsTheTruth, Free
<1> QED
  BY <1>1, <1>2, <1>3, <1>4

LEMMA FailStep ==
    ASSUME BrowserInv, ~Free, NEW error, Fail(error), page' = page, saved' = saved, answer' = answer, nextReq' = nextReq
    PROVE  BrowserInv'
<1>1. /\ task.kind \in {"call", "launch", "stop"} /\ nextReq' \in Nat /\ page' \in Storages /\ pending \in Storages
      /\ saved' \in Storages /\ answer'.want = answer'.got
      /\ conn \in BOOLEAN /\ usable \in BOOLEAN /\ attached \in BOOLEAN /\ provider \in {"none", "running", "exited"}
  BY TypedTask DEF Free, BrowserInv, BrowserTypeOK, AnswersMatchRequests
<1>2. CASE task.kind = "call"
  <2>1. EndCall(error)
    BY <1>2 DEF Fail
  <2>2. attached /\ conn /\ usable
    BY <1>2 DEF BrowserInv, ProviderInv
  <2>3. /\ task' = NoTask /\ UNCHANGED <<attached, pending, stopped>>
        /\ \/ UNCHANGED <<conn, usable, provider>>
           \/ /\ conn' = FALSE /\ usable' = FALSE
              /\ provider' \in {"none", "exited"}
    BY <1>1, <2>1 DEF EndCall, Drops
  <2> QED
    BY <1>1, <1>2, <2>2, <2>3, EndingStep
<1>3. CASE task.kind = "launch"
  <2>1. FailLaunch
    BY <1>3 DEF Fail
  <2>2. provider' \in {"none", "exited"} /\ task' = NoTask /\ UNCHANGED <<conn, usable, attached, pending, stopped>>
    BY <1>1, <2>1 DEF FailLaunch, Drops
  <2> QED
    BY <1>1, <1>3, <2>2, EndingStep
<1>4. CASE task.kind = "stop"
  <2>1. SkipExport
    BY <1>4 DEF Fail
  <2>2. /\ task' = [task EXCEPT !.todo = <<>>, !.pc = "close", !.failed = TRUE]
        /\ UNCHANGED <<conn, usable, provider, attached, pending, stopped>>
    BY <2>1 DEF SkipExport
  <2>3. task' \in Tasks
    <3>1. task \in Tasks
      BY TypedTask
    <3>2. [task EXCEPT !.todo = <<>>, !.pc = "close", !.failed = TRUE] \in Tasks
      BY <3>1, SkippingTask, Zenon
    <3> QED
      BY <2>2, <3>2
  <2>4. task'.kind = "stop" /\ task'.pc = "close" /\ task'.failed
    BY <1>4, <2>2, TypedTask DEF Tasks
  <2> QED
    BY <1>1, <2>2, <2>3, <2>4, WorkingStep
<1> QED
  BY <1>1, <1>2, <1>3, <1>4

LEMMA ProceedStep ==
    ASSUME BrowserInv, ~Free, task.todo # <<>>, task.pc \in {"next", "await"}, Proceed,
           page' \in Storages, answer'.want = answer'.got, UNCHANGED <<saved, nextReq>>
    PROVE  BrowserInv'
<1> DEFINE rest == Tail(task.todo)
<1>1. /\ task.kind \in {"call", "launch", "stop"} /\ nextReq' \in Nat /\ pending \in Storages
      /\ saved' \in Storages /\ page \in Storages
      /\ conn \in BOOLEAN /\ usable \in BOOLEAN /\ attached \in BOOLEAN /\ provider \in {"none", "running", "exited"}
  BY TypedTask DEF Free, BrowserInv, BrowserTypeOK
<1>2. rest \in Seq(Requests)
  BY TypedTask
<1>3. task.kind = "call" => attached /\ conn /\ usable
  BY DEF BrowserInv, ProviderInv
<1>4. CASE rest # <<>>
  <2>1. /\ task' = [task EXCEPT !.todo = rest, !.pc = "next"]
        /\ UNCHANGED <<conn, usable, provider, attached, pending, stopped>>
    BY <1>4 DEF Proceed
  <2> HIDE DEF rest
  <2>2. task' \in Tasks /\ task'.kind = task.kind /\ task'.pc = "next"
    BY <1>2, <2>1, TypedTask DEF Tasks, TaskPlaces
  <2> QED
    BY <1>1, <1>3, <2>1, <2>2, WorkingStep DEF Free
<1>5. CASE rest = <<>> /\ task.kind = "call"
  <2>1. task' = NoTask /\ UNCHANGED <<conn, usable, provider, attached, pending, stopped>>
    BY <1>5 DEF Proceed, EndCall, Invalidates
  <2> QED
    BY <1>1, <1>3, <1>5, <2>1, EndingStep
<1>6. CASE rest = <<>> /\ task.kind = "stop"
  <2>1. /\ task' = [task EXCEPT !.todo = <<>>, !.pc = "create", !.export = page]
        /\ UNCHANGED <<conn, usable, provider, attached, pending, stopped>>
    BY <1>6 DEF Proceed
  <2>2. task' \in Tasks
    <3>1. task \in Tasks
      BY TypedTask
    <3>2. [task EXCEPT !.todo = <<>>, !.pc = "create", !.export = page] \in Tasks
      BY <1>1, <3>1, ExportingTask, Zenon
    <3> QED
      BY <2>1, <3>2
  <2>3. task'.kind = "stop" /\ task'.pc = "create"
    BY <1>6, <2>1, TypedTask DEF Tasks
  <2> QED
    BY <1>1, <2>1, <2>2, <2>3, WorkingStep
<1>7. CASE rest = <<>> /\ task.kind = "launch"
  <2>1. UNCHANGED <<provider, stopped>>
    BY <1>7 DEF Proceed
  <2>2. CASE task' = StopTask /\ UNCHANGED <<conn, usable, attached, pending>>
    <3> HIDE DEF StopTask
    <3> QED
      BY <1>1, <2>1, <2>2, StoppingTask, WorkingStep
  <2>3. CASE task' = NoTask /\ conn' = TRUE /\ usable' = TRUE /\ attached' = TRUE /\ pending' \in {saved, Nothing}
    <3>1. pending' \in Storages
      BY <1>1, <2>3, IdleTask DEF BrowserInv, BrowserTypeOK
    <3> QED
      BY <1>1, <1>7, <2>1, <2>3, <3>1, EndingStep
  <2> QED
    BY <1>7, <2>2, <2>3 DEF Proceed
<1> QED
  BY <1>1, <1>4, <1>5, <1>6, <1>7

\* A task goes on with its request; the supervisor and the shell keep what they have.
LEMMA HeldStep ==
    ASSUME BrowserInv, ~Free, task' \in Tasks, task'.kind = task.kind, task'.pc \in {"write", "await"},
           task'.todo # <<>>, nextReq' \in Nat,
           UNCHANGED <<page, saved, answer, conn, usable, provider, attached, pending, stopped>>
    PROVE  BrowserInv'
<1>1. /\ task.kind = "call" => attached /\ conn /\ usable
      /\ provider \in {"none", "running", "exited"} /\ conn \in BOOLEAN /\ usable \in BOOLEAN
      /\ attached \in BOOLEAN /\ pending \in Storages /\ saved \in Storages /\ page \in Storages
      /\ answer.want = answer.got
  BY DEF BrowserInv, ProviderInv, BrowserTypeOK, AnswersMatchRequests
<1> QED
  BY <1>1, WorkingStep DEF Free

LEMMA SendStep == BrowserInv /\ Send => BrowserInv'
<1> SUFFICES ASSUME BrowserInv, Send PROVE BrowserInv'
  OBVIOUS
<1>1. /\ ~Free /\ task.pc = "next" /\ task.todo # <<>> /\ UNCHANGED <<page, saved, answer>>
      /\ page \in Storages /\ answer.want = answer.got /\ nextReq \in Nat
  BY DEF Send, disk, BrowserInv, BrowserTypeOK, AnswersMatchRequests
<1>2. CASE Proceed /\ UNCHANGED channel
  BY <1>1, <1>2, ProceedStep DEF channel
<1>3. CASE Fail("Cancelled") /\ UNCHANGED channel
  BY <1>1, <1>3, FailStep DEF channel
<1>4. CASE /\ nextReq' = nextReq + 1
           /\ task' = [task EXCEPT !.pc = "write", !.want = nextReq]
           /\ UNCHANGED <<conn, usable, provider, attached, pending, counter, stopped>>
  <2>1. task' \in Tasks /\ nextReq' \in Nat
    <3>1. task \in Tasks
      BY TypedTask
    <3>2. [task EXCEPT !.pc = "write", !.want = nextReq] \in Tasks
      BY <1>1, <3>1, AskingTask, Zenon
    <3> QED
      BY <1>1, <1>4, <3>2
  <2>3. task'.kind = task.kind /\ task'.pc = "write" /\ task'.todo = task.todo
    BY <1>1, <1>4, TypedTask DEF Tasks
  <2> QED
    BY <1>1, <1>4, <2>1, <2>3, HeldStep DEF Free
<1> QED
  BY <1>2, <1>3, <1>4 DEF Send

LEMMA WriteStep == BrowserInv /\ (WriteFrame \/ WriteUnread) => BrowserInv'
<1> SUFFICES ASSUME BrowserInv, WriteFrame \/ WriteUnread PROVE BrowserInv'
  OBVIOUS
<1>1. /\ task.pc = "write" /\ ~Free /\ task.todo # <<>> /\ UNCHANGED <<page, saved, answer>>
      /\ nextReq \in Nat
  BY IdleTask DEF WriteFrame, WriteUnread, disk, BrowserInv, BrowserTypeOK, TaskInv
<1>2. CASE Fail("Process") /\ UNCHANGED channel
  BY <1>1, <1>2, FailStep DEF channel
<1>3. CASE FrameIsIn
  <2>1. /\ task' = [task EXCEPT !.pc = "await"]
        /\ UNCHANGED <<nextReq, conn, usable, provider, attached, pending, stopped>>
    BY <1>3 DEF FrameIsIn
  <2>2. task' \in Tasks
    <3>1. task \in Tasks
      BY TypedTask
    <3>2. [task EXCEPT !.pc = "await"] \in Tasks
      BY <3>1, MovedTask, PlacesOfATask, Zenon
    <3> QED
      BY <2>1, <3>2
  <2>3. task'.kind = task.kind /\ task'.pc = "await" /\ task'.todo = task.todo
    BY <2>1, TypedTask DEF Tasks
  <2> QED
    BY <1>1, <2>1, <2>2, <2>3, HeldStep DEF Free
<1> QED
  BY <1>2, <1>3 DEF WriteFrame, WriteUnread

\* A verdict without an error is about a frame that carries the id of the request.
LEMMA VerdictIsForTheRequest ==
    ASSUME NEW f, NEW want, Verdict(f, want) = "none"
    PROVE  f.id = want
<1>1. f.kind \notin {"rest", "huge", "notice"}
  BY DEF Verdict
<1>2. Verdict(f, want) = IF f.id # want THEN "Protocol" ELSE VerdictOfKind[f.kind]
  BY <1>1 DEF Verdict
<1> QED
  BY <1>2

LEMMA ReceiveStep == BrowserInv /\ Receive => BrowserInv'
<1> SUFFICES ASSUME BrowserInv, Receive PROVE BrowserInv'
  OBVIOUS
<1> DEFINE frame == Head(frames)
           verdict == Verdict(frame, task.want)
<1>1. task.pc = "await" /\ UNCHANGED <<nextReq, saved>>
  BY DEF Receive, disk
<1>2. ~Free /\ task.todo # <<>> /\ page \in Storages /\ pending \in Storages
  BY <1>1, IdleTask DEF BrowserInv, BrowserTypeOK, TaskInv
<1>3. CASE verdict = "none"
  <2>1. Proceed /\ Effect /\ answer' = [want |-> task.want, got |-> frame.id]
    BY <1>3 DEF Receive
  <2>2. frame.id = task.want
    <3> HIDE DEF frame
    <3> QED
      BY <1>3, VerdictIsForTheRequest
  <2>3. answer'.want = answer'.got
    BY <2>1, <2>2
  <2>4. page' \in Storages
    BY <1>2, <2>1 DEF Effect, Storages
  <2> QED
    BY <1>1, <1>2, <2>1, <2>3, <2>4, ProceedStep
<1>4. CASE verdict # "none"
  <2>1. Fail(verdict) /\ UNCHANGED <<page, answer>>
    BY <1>4 DEF Receive
  <2> HIDE DEF verdict
  <2> QED
    BY <1>1, <1>2, <2>1, FailStep
<1> QED
  BY <1>3, <1>4

LEMMA WithoutAnswerStep == BrowserInv /\ (ReceiveNothing \/ DropCall) => BrowserInv'
<1> SUFFICES ASSUME BrowserInv, ReceiveNothing \/ DropCall PROVE BrowserInv'
  OBVIOUS
<1>1. CASE ReceiveNothing
  <2>1. ~Free /\ UNCHANGED <<page, saved, answer, nextReq>>
    BY <1>1, IdleTask DEF ReceiveNothing, channel, disk, BrowserInv, TaskInv
  <2>2. PICK error \in {"Process", "Timeout", "Cancelled"} : Fail(error)
    BY <1>1 DEF ReceiveNothing
  <2> QED
    BY <2>1, <2>2, FailStep
<1>2. CASE DropCall
  <2>1. /\ task.kind = "call" /\ task' = NoTask
        /\ UNCHANGED <<provider, nextReq, conn, usable, page, attached, pending, saved, answer, stopped>>
    BY <1>2 DEF DropCall, shellVars, disk, history
  <2> QED
    BY <2>1, EndingStep DEF BrowserInv, BrowserTypeOK, ProviderInv, AnswersMatchRequests
<1> QED
  BY <1>1, <1>2

\* The stop writes what it exported, and ends the provider.
LEMMA SavingStep == BrowserInv /\ (CreateTemporary \/ Rename \/ Close) => BrowserInv'
<1> SUFFICES ASSUME BrowserInv, CreateTemporary \/ Rename \/ Close PROVE BrowserInv'
  OBVIOUS
<1>1. /\ task.kind = "stop" /\ task \in Tasks /\ task.export \in Storages /\ saved \in Storages
      /\ task.todo \in Seq(Requests) /\ 0 \in Nat
  BY TypedTask DEF BrowserInv, TaskInv, BrowserTypeOK, CreateTemporary, Rename, Close
<1>2. /\ provider \in {"none", "running", "exited"} /\ conn \in BOOLEAN /\ usable \in BOOLEAN
      /\ attached \in BOOLEAN /\ pending \in Storages /\ page \in Storages /\ nextReq \in Nat
      /\ answer.want = answer.got
  BY DEF BrowserInv, BrowserTypeOK, AnswersMatchRequests
<1>3. CASE CreateTemporary
  <2>1. UNCHANGED <<provider, nextReq, conn, usable, page, attached, pending, saved, answer, stopped>>
    BY <1>3 DEF CreateTemporary, channel, history
  <2>2. \/ task' = [task EXCEPT !.pc = "close", !.failed = TRUE]
        \/ task' = [task EXCEPT !.pc = "rename"]
    BY <1>3 DEF CreateTemporary
  <2>3. task' \in Tasks
    <3>1. [task EXCEPT !.pc = "close", !.failed = TRUE] \in Tasks /\ [task EXCEPT !.pc = "rename"] \in Tasks
      BY <1>1, MovedTask, PlacesOfATask, Zenon
    <3> QED
      BY <2>2, <3>1
  <2>4. task'.kind = "stop" /\ task'.pc \in {"close", "rename"} /\ (task'.pc = "close" => task'.failed)
    BY <1>1, <2>2 DEF Tasks
  <2> QED
    BY <1>1, <1>2, <2>1, <2>3, <2>4, WorkingStep
<1>4. CASE Rename
  <2>1. UNCHANGED <<provider, nextReq, conn, usable, page, attached, pending, answer, stopped>>
    BY <1>4 DEF Rename, channel, shellVars, history
  <2>2. \/ saved' = task.export /\ task' = [task EXCEPT !.pc = "close"]
        \/ saved' = saved /\ task' = [task EXCEPT !.pc = "close", !.failed = TRUE]
    BY <1>4 DEF Rename
  <2>3. task' \in Tasks /\ saved' \in Storages
    <3>1. [task EXCEPT !.pc = "close", !.failed = TRUE] \in Tasks /\ [task EXCEPT !.pc = "close"] \in Tasks
      BY <1>1, MovedTask, PlacesOfATask, Zenon
    <3> QED
      BY <1>1, <2>2, <3>1
  <2>4. task'.kind = "stop" /\ task'.pc = "close" /\ (task'.failed \/ saved' = task'.export)
    BY <1>1, <2>2 DEF Tasks
  <2> QED
    BY <1>1, <1>2, <2>1, <2>3, <2>4, WorkingStep
<1>5. CASE Close
  <2>1. /\ provider' = "exited" /\ task' = NoTask /\ stopped' \in {<<task.export>>, <<>>}
        /\ stopped' = <<>> \/ (Supports /\ ~task.failed)
        /\ UNCHANGED <<nextReq, conn, usable, page, attached, pending, saved, answer>>
    BY <1>5 DEF Close, channel, shellVars, disk
  <2>2. stopped' = <<>> \/ stopped' = <<saved>>
    BY <1>1, <1>5, <2>1 DEF Close, BrowserInv, ExportInv
  <2> QED
    BY <1>2, <2>1, <2>2, EndingStep
<1> QED
  BY <1>3, <1>4, <1>5

LEMMA PlansAreRequests == \A op \in DOMAIN Plans : Plans[op] \in Seq(Requests) /\ Plans[op] # <<>>
<1>1. /\ <<"tool">> \in Seq(Requests) /\ <<"navigate", "restore">> \in Seq(Requests)
      /\ <<"navigate", "restore", "evaluate">> \in Seq(Requests)
  BY DEF Requests
<1>2. Plans = [tool |-> <<"tool">>, navigate |-> <<"navigate", "restore">>,
                audit |-> <<"navigate", "restore", "evaluate">>]
  BY DEF Plans
<1>3. DOMAIN Plans = {"tool", "navigate", "audit"}
  BY <1>2
<1>4. Plans["tool"] = <<"tool">> /\ Plans["navigate"] = <<"navigate", "restore">>
      /\ Plans["audit"] = <<"navigate", "restore", "evaluate">>
  BY <1>2
<1> HIDE DEF Plans
<1>5. Plans["tool"] \in Seq(Requests) /\ Plans["navigate"] \in Seq(Requests) /\ Plans["audit"] \in Seq(Requests)
  BY <1>1, <1>4
<1>6. Plans["tool"] # <<>> /\ Plans["navigate"] # <<>> /\ Plans["audit"] # <<>>
  BY <1>4
<1> QED
  BY <1>3, <1>5, <1>6

LEMMA CallingStep == \A op \in DOMAIN Plans, o \in Origins : BrowserInv /\ BrowserCall(op, o) => BrowserInv'
<1> SUFFICES ASSUME NEW op \in DOMAIN Plans, NEW o \in Origins, BrowserInv, BrowserCall(op, o)
             PROVE  BrowserInv'
  OBVIOUS
<1>1. /\ attached /\ usable /\ conn /\ task = NoTask
      /\ UNCHANGED <<provider, nextReq, page, attached, pending, saved, answer, stopped>>
  BY DEF BrowserCall, channel, disk, history, BrowserInv, TaskInv
<1>2. /\ provider \in {"none", "running", "exited"} /\ pending \in Storages /\ page \in Storages
      /\ saved \in Storages /\ nextReq \in Nat /\ attached \in BOOLEAN /\ answer.want = answer.got
  BY DEF BrowserInv, BrowserTypeOK, AnswersMatchRequests
<1>3. CASE provider = "running"
  <2> DEFINE todo == Plans[op]
  <2>1. task' = [NoTask EXCEPT !.kind = "call", !.todo = todo, !.origin = o] /\ UNCHANGED <<conn, usable>>
    BY <1>3 DEF BrowserCall
  <2>2. todo \in Seq(Requests)
    BY PlansAreRequests
  <2> HIDE DEF todo, NoTask
  <2>3. task' \in Tasks /\ task'.kind = "call" /\ task'.pc = "next"
    BY <2>1, <2>2, IdleTask DEF Tasks, TaskPlaces
  <2> QED
    BY <1>1, <1>2, <2>1, <2>3, IdleTask, WorkingStep
<1>4. CASE provider # "running"
  <2>1. conn' = FALSE /\ usable' = FALSE /\ task' = task
    BY <1>4 DEF BrowserCall
  <2> QED
    BY <1>1, <1>2, <1>4, <2>1, IdleTask, EndingStep
<1> QED
  BY <1>3, <1>4

LEMMA LaunchingStep == BrowserInv /\ Launch => BrowserInv'
<1> SUFFICES ASSUME BrowserInv, Launch PROVE BrowserInv'
  OBVIOUS
<1> DEFINE todo == LaunchPlan
<1>1. /\ attached' = FALSE /\ conn' = FALSE /\ usable' = FALSE /\ provider' = "running" /\ nextReq' = 1
      /\ page' = Nothing /\ pending' = Nothing /\ task' = [NoTask EXCEPT !.kind = "launch", !.todo = todo]
      /\ UNCHANGED <<saved, answer, stopped>> /\ task = NoTask
  BY DEF Launch, SpawnProvider, disk, history, BrowserInv, TaskInv
<1>2. saved \in Storages /\ answer.want = answer.got
  BY DEF BrowserInv, BrowserTypeOK, AnswersMatchRequests
<1>3. todo \in Seq(Requests)
  <2>1. <<"initialize", "list", "bootstrap">> \in Seq(Requests) /\ <<"initialize", "list">> \in Seq(Requests)
    BY DEF Requests
  <2> QED
    BY <2>1 DEF LaunchPlan
<1> HIDE DEF todo, NoTask, Nothing
<1>4. task' \in Tasks /\ task'.kind = "launch" /\ task'.pc = "next"
  BY <1>1, <1>3, IdleTask DEF Tasks, TaskPlaces
<1> QED
  BY <1>1, <1>2, <1>4, IdleTask, WorkingStep

LEMMA StoppingStep == BrowserInv /\ (Stop \/ Notice \/ Crash) => BrowserInv'
<1> SUFFICES ASSUME BrowserInv, Stop \/ Notice \/ Crash PROVE BrowserInv'
  OBVIOUS
<1>1. /\ provider \in {"none", "running", "exited"} /\ pending \in Storages /\ page \in Storages
      /\ saved \in Storages /\ nextReq \in Nat /\ attached \in BOOLEAN /\ answer.want = answer.got
  BY DEF BrowserInv, BrowserTypeOK, AnswersMatchRequests
<1>2. CASE Stop
  <2>1. /\ attached' = FALSE /\ usable' = FALSE /\ conn' = FALSE /\ task = NoTask
        /\ UNCHANGED <<provider, nextReq, page, pending, saved, answer, stopped>>
    BY <1>2 DEF Stop, channel, disk, history, BrowserInv, TaskInv
  <2>2. CASE conn
    <3>1. task' = StopTask
      BY <1>2, <2>2 DEF Stop
    <3> HIDE DEF StopTask
    <3> QED
      BY <1>1, <2>1, <3>1, StoppingTask, WorkingStep
  <2>3. CASE ~conn
    <3>1. task' = NoTask /\ provider # "running"
      BY <1>2, <2>3 DEF Stop, BrowserInv, ProviderInv
    <3> QED
      BY <1>1, <2>1, <3>1, IdleTask, EndingStep
  <2> QED
    BY <2>2, <2>3
<1>3. CASE Notice
  <2>1. /\ task = NoTask /\ task' = task /\ conn' = FALSE /\ usable' = FALSE /\ attached' \in BOOLEAN
        /\ UNCHANGED <<provider, nextReq, page, pending, saved, answer, stopped>>
    BY <1>1, <1>3 DEF Notice, channel, disk, history, BrowserInv, TaskInv
  <2>2. provider # "running"
    BY <1>3 DEF Notice, BrowserInv, ProviderInv
  <2> QED
    BY <1>1, <2>1, <2>2, IdleTask, EndingStep
<1>4. CASE Crash
  <2>1. /\ provider' = "none" /\ nextReq' = 1 /\ conn' = FALSE /\ usable' = FALSE /\ attached' = FALSE
        /\ pending' = Nothing /\ page' = Nothing /\ task' = NoTask /\ stopped' = <<>>
        /\ UNCHANGED <<saved, answer>>
    BY <1>4 DEF Crash, disk
  <2> HIDE DEF Nothing, NoTask
  <2> QED
    BY <1>1, <2>1, IdleTask, EndingStep
<1> QED
  BY <1>2, <1>3, <1>4

LEMMA ProviderStep ==
    BrowserInv /\ (Answer \/ Notify \/ StopsReading \/ ProviderExits \/ \E o \in Origins : PageStores(o)) => BrowserInv'
<1> SUFFICES ASSUME BrowserInv, Answer \/ Notify \/ StopsReading \/ ProviderExits \/ \E o \in Origins : PageStores(o)
             PROVE  BrowserInv'
  OBVIOUS
<1>1. /\ UNCHANGED <<conn, usable, attached, pending, task, saved, answer, stopped, nextReq>>
      /\ provider' \in {provider, "exited"}
  BY DEF Answer, Notify, StopsReading, ProviderExits, PageStores, channel, shellVars, disk, history
<1>2. page' \in Storages
  BY DEF Answer, Notify, StopsReading, ProviderExits, PageStores, BrowserInv, BrowserTypeOK, Storages
<1>3. nextReq' \in Nat
  BY <1>1 DEF BrowserInv, BrowserTypeOK
<1> QED
  BY <1>1, <1>2, <1>3, OutsideStep

(***************************************************************************)
(* Where a task of the browser can be, who has the provider that runs, and *)
(* that what a stop has exported is on disk when it closes.                *)
(***************************************************************************)
THEOREM BrowserInvHolds == BrowserSpec => []BrowserInv
<1>1. BrowserInit => BrowserInv
  <2> SUFFICES ASSUME BrowserInit PROVE BrowserInv
    OBVIOUS
  <2>1. /\ provider = "none" /\ nextReq = 1 /\ conn = FALSE /\ usable = FALSE /\ attached = FALSE
        /\ pending = Nothing /\ task = NoTask /\ page = Nothing /\ saved = Nothing
        /\ answer.want = answer.got /\ stopped = <<>>
    BY DEF BrowserInit
  <2> HIDE DEF Nothing, NoTask
  <2>2. BrowserTypeOK
    BY <2>1, IdleTask DEF BrowserTypeOK
  <2>3. TaskInv /\ ProviderInv /\ ExportInv /\ AnswersMatchRequests /\ StopTellsTheTruth
    BY <2>1, IdleTask DEF TaskInv, ProviderInv, ExportInv, AnswersMatchRequests, StopTellsTheTruth, Free
  <2> QED
    BY <2>2, <2>3 DEF BrowserInv
<1>2. BrowserInv /\ [BrowserNext]_browserVars => BrowserInv'
  <2> SUFFICES ASSUME BrowserInv, [BrowserNext]_browserVars PROVE BrowserInv'
    OBVIOUS
  <2>1. CASE UNCHANGED browserVars
    <3>1. nextReq' \in Nat /\ page' \in Storages
      BY <2>1 DEF browserVars, BrowserInv, BrowserTypeOK
    <3> QED
      BY <2>1, <3>1, OutsideStep DEF browserVars
  <2> QED
    BY <2>1, SendStep, WriteStep, ReceiveStep, WithoutAnswerStep, SavingStep, CallingStep, LaunchingStep, StoppingStep, ProviderStep
    DEF BrowserNext, TaskStep
<1> QED
  BY <1>1, <1>2, PTL DEF BrowserSpec

(***************************************************************************)
(* A browser operation never returns the response to another request, with *)
(* any number of calls that are dropped, time out or leave half a response *)
(* in the pipe (read_response).                                            *)
(***************************************************************************)
THEOREM BrowserAnswersMatch == BrowserSpec => []AnswersMatchRequests
<1>1. BrowserInv => AnswersMatchRequests
  BY DEF BrowserInv
<1> QED
  BY BrowserInvHolds, <1>1, PTL

(***************************************************************************)
(* A stop that reports success has saved what it exported, and a shell with*)
(* no supervisor and no task has no provider that runs (shutdown).         *)
(***************************************************************************)
THEOREM StopsAreTruthful == BrowserSpec => []StopTellsTheTruth
<1>1. BrowserInv => StopTellsTheTruth
  BY DEF BrowserInv
<1> QED
  BY BrowserInvHolds, <1>1, PTL

-----------------------------------------------------------------------------
(* The credential helper.                                                  *)

LEMMA ReportsAreIntegers ==
    /\ Reports \subseteq Int /\ Unread \in Reports /\ Broken \in Reports
    /\ 0..MaxKey \subseteq Reports /\ MaxKey + 1 \in Reports
    /\ \A r \in Reports : r # Unread /\ r # Broken => r \in Nat
    /\ MaxKey \in Nat
BY CredentialHelperAssumption DEF CredentialHelperAssumption, Reports, Unread, Broken

LEMMA PrintingStep ==
    ASSUME HelperInv, HelperPrints \/ HelperForks \/ OrphanEnds \/ HelperEnds
    PROVE  HelperInv'
<1> USE DEF HelperInv, Closed, Gone
<1>1. HelperTypeOK'
  <2>1. helper' \in {"none", "running", "well", "badly", "killed"} /\ orphan' \in BOOLEAN /\ printed' \in Nat
    <3>1. CASE HelperPrints
      BY <3>1 DEF HelperTypeOK, HelperPrints
    <3>2. CASE HelperForks \/ OrphanEnds
      BY <3>2 DEF HelperTypeOK, HelperForks, OrphanEnds
    <3>3. CASE HelperEnds
      BY <3>3 DEF HelperTypeOK, HelperEnds
    <3> QED
      BY <3>1, <3>2, <3>3
  <2>2. UNCHANGED <<reader, key, asker>>
    BY DEF HelperPrints, HelperForks, OrphanEnds, HelperEnds
  <2> QED
    BY <2>1, <2>2 DEF HelperTypeOK
<1>2. ReaderInv'
  BY DEF ReaderInv, HelperPrints, HelperForks, OrphanEnds, HelperEnds
<1>3. AskerInv'
  <2>1. asker.status # "running"
    BY DEF HelperTypeOK, Askers
  <2> QED
    BY <2>1 DEF AskerInv, Collected, HelperPrints, HelperForks, OrphanEnds, HelperEnds
<1>4. KeyIsTheWholeAnswer'
  BY DEF KeyIsTheWholeAnswer, HelperPrints, HelperForks, OrphanEnds, HelperEnds
<1> QED
  BY <1>1, <1>2, <1>3, <1>4

LEMMA ReadingStep == HelperInv /\ ReaderSends => HelperInv'
<1> SUFFICES ASSUME HelperInv, ReaderSends PROVE HelperInv'
  OBVIOUS
<1> USE DEF HelperInv, Closed, Gone
<1>1. reader' \in Reports
  BY ReportsAreIntegers DEF HelperTypeOK, ReaderSends
<1>2. HelperTypeOK'
  BY <1>1 DEF HelperTypeOK, ReaderSends
<1>3. ReaderInv'
  BY CredentialHelperAssumption DEF CredentialHelperAssumption, ReaderInv, ReaderSends, HelperTypeOK, Broken
<1>4. AskerInv'
  <2>1. asker' = asker /\ helper' = helper /\ reader = Unread
    BY DEF ReaderSends
  <2> QED
    BY <2>1 DEF AskerInv, Collected
<1>5. KeyIsTheWholeAnswer'
  BY DEF KeyIsTheWholeAnswer, ReaderSends
<1> QED
  BY <1>2, <1>3, <1>4, <1>5

\* A step of helper_key that returns no key: it may start the command, or kill it.
LEMMA PollingStep ==
    ASSUME HelperInv, asker' \in Askers, asker'.read \in {Unread, reader},
           asker'.status # "none" => Gone /\ asker'.status = helper,
           asker'.pc = "judge" => asker'.status # "none" /\ asker'.read # Unread,
           \/ helper' = helper
           \/ helper = "running" /\ helper' = "killed"
           \/ helper = "none" /\ helper' = "running" /\ asker'.status = "none",
           UNCHANGED <<orphan, printed, reader, key>>
    PROVE  HelperInv'
<1> USE DEF HelperInv, Closed, Gone
<1>1. HelperTypeOK'
  BY DEF HelperTypeOK
<1>2. ReaderInv'
  BY DEF ReaderInv
<1>3. AskerInv'
  BY DEF AskerInv, HelperTypeOK, Collected
<1>4. KeyIsTheWholeAnswer'
  BY DEF KeyIsTheWholeAnswer
<1> QED
  BY <1>1, <1>2, <1>3, <1>4

LEMMA WhatItHolds ==
    ASSUME HelperInv
    PROVE  /\ asker \in Askers /\ asker.read \in {Unread, reader}
           /\ asker.status # "none" => Gone /\ asker.status = helper
           /\ asker.pc = "judge" => asker.status # "none" /\ asker.read # Unread
BY DEF HelperInv, HelperTypeOK, Askers, AskerInv, Collected, Gone

LEMMA LookingStep == HelperInv /\ LookAtHelper => HelperInv'
<1> SUFFICES ASSUME HelperInv, LookAtHelper PROVE HelperInv'
  OBVIOUS
<1> DEFINE status == IF asker.status = "none" /\ Gone THEN helper ELSE asker.status
           kill == asker.read > MaxKey \/ asker.read = Broken
           killed == asker.killed \/ kill
           next == [asker EXCEPT !.status = status, !.killed = killed]
<1>1. status \in {"none", "well", "badly", "killed"} /\ (status # "none" => Gone /\ status = helper)
  BY WhatItHolds DEF Askers, Gone
<1>2. killed \in BOOLEAN
  BY WhatItHolds DEF Askers
<1>3. next \in Askers /\ next.status = status /\ next.read = asker.read
  <2> HIDE DEF status, killed
  <2> QED
    BY <1>1, <1>2, WhatItHolds DEF Askers
<1>4. PICK pc \in {"receive", "judge", "done"} :
         asker' = [next EXCEPT !.pc = pc] /\ (pc = "judge" => Collected(next))
  BY DEF LookAtHelper
<1>5. asker' \in Askers /\ asker'.pc = pc /\ asker'.status = status /\ asker'.read = asker.read
  <2> HIDE DEF next, status
  <2> QED
    BY <1>3, <1>4 DEF Askers
<1>6. UNCHANGED <<orphan, printed, reader, key>> /\ (helper' = helper \/ (helper = "running" /\ helper' = "killed"))
  BY DEF LookAtHelper, Kill
<1>7. asker'.pc = "judge" => status # "none" /\ asker.read # Unread
  <2> HIDE DEF next, status
  <2> QED
    BY <1>3, <1>4, <1>5 DEF Collected
<1> HIDE DEF next, status, killed, kill
<1> QED
  BY <1>1, <1>5, <1>6, <1>7, WhatItHolds, PollingStep

LEMMA AskingStep == HelperInv /\ (AskHelper \/ ReceiveOutput \/ LoseHelper \/ HelperDeadline) => HelperInv'
<1> SUFFICES ASSUME HelperInv, AskHelper \/ ReceiveOutput \/ LoseHelper \/ HelperDeadline PROVE HelperInv'
  OBVIOUS
<1>1. CASE AskHelper
  <2>1. asker' \in Askers /\ asker'.read = Unread /\ asker'.status = "none" /\ asker'.pc = "receive"
    BY <1>1, ReportsAreIntegers DEF AskHelper, Asleep, Askers
  <2> QED
    BY <1>1, <2>1, PollingStep DEF AskHelper
<1>2. CASE ReceiveOutput
  <2> DEFINE read == IF asker.read = Unread THEN reader ELSE asker.read
  <2>1. read \in Reports /\ read \in {Unread, reader}
    BY WhatItHolds DEF HelperInv, HelperTypeOK, Askers
  <2>2. asker' = [asker EXCEPT !.pc = "look", !.read = read]
    BY <1>2 DEF ReceiveOutput
  <2> HIDE DEF read
  <2>3. asker' \in Askers /\ asker'.read = read /\ asker'.status = asker.status /\ asker'.pc = "look"
    BY <2>1, <2>2, WhatItHolds DEF Askers
  <2> QED
    BY <1>2, <2>1, <2>3, WhatItHolds, PollingStep DEF ReceiveOutput
<1>3. CASE LoseHelper
  <2>1. asker' \in Askers /\ asker'.read = asker.read /\ asker'.status = asker.status /\ asker'.pc = "done"
    BY <1>3, WhatItHolds DEF LoseHelper, Askers
  <2> QED
    BY <1>3, <2>1, WhatItHolds, PollingStep DEF LoseHelper, Kill
<1>4. CASE HelperDeadline
  <2>1. asker' \in Askers /\ asker'.read = asker.read /\ asker'.status = asker.status /\ asker'.pc = asker.pc
    BY <1>4, WhatItHolds DEF HelperDeadline, Askers
  <2> QED
    BY <1>4, <2>1, WhatItHolds, PollingStep DEF HelperDeadline
<1> QED
  BY <1>1, <1>2, <1>3, <1>4

\* The key: a whole reading, of a command that ended well.
LEMMA JudgingStep == HelperInv /\ JudgeKey => HelperInv'
<1> SUFFICES ASSUME HelperInv, JudgeKey PROVE HelperInv'
  OBVIOUS
<1> USE DEF JudgeKey
<1>1. asker.read # Unread /\ asker.read = reader /\ asker.status = helper
  BY DEF HelperInv, AskerInv, Collected
<1>2. asker' \in Askers /\ asker'.pc = "done" /\ asker'.read = asker.read /\ asker'.status = asker.status
  BY WhatItHolds DEF Askers
<1>3. key' = key \/ (key' = {reader} /\ reader \in 0..MaxKey /\ helper = "well")
  BY <1>1, WhatItHolds, ReportsAreIntegers DEF HelperInv, Askers, Reports
<1>4. HelperTypeOK'
  BY <1>2, <1>3 DEF HelperInv, HelperTypeOK
<1>5. ReaderInv'
  BY DEF HelperInv, ReaderInv, Closed, Gone
<1>6. AskerInv'
  BY <1>2 DEF HelperInv, AskerInv
<1>7. KeyIsTheWholeAnswer'
  BY <1>3 DEF HelperInv, ReaderInv, KeyIsTheWholeAnswer, Closed
<1> QED
  BY <1>4, <1>5, <1>6, <1>7 DEF HelperInv

(***************************************************************************)
(* A reading that reached the end of the pipe stays the whole output, and  *)
(* helper_key knows only readings and results of its own command.          *)
(***************************************************************************)
THEOREM HelperInvHolds == HelperSpec => []HelperInv
<1>1. HelperInit => HelperInv
  <2> SUFFICES ASSUME HelperInit PROVE HelperInv
    OBVIOUS
  <2>1. /\ asker = [pc |-> "idle", read |-> Unread, status |-> "none", late |-> FALSE, killed |-> FALSE]
        /\ reader = Unread /\ key = {}
    BY DEF HelperInit, Asleep
  <2>2. HelperTypeOK
    <3>1. asker \in Askers
      BY <2>1, ReportsAreIntegers DEF Askers
    <3> QED
      BY <2>1, <3>1, ReportsAreIntegers DEF HelperInit, HelperTypeOK
  <2>3. ReaderInv
    BY <2>1, ReportsAreIntegers DEF ReaderInv, Unread
  <2>4. AskerInv /\ KeyIsTheWholeAnswer
    BY <2>1 DEF AskerInv, KeyIsTheWholeAnswer
  <2> QED
    BY <2>2, <2>3, <2>4 DEF HelperInv
<1>2. HelperInv /\ [HelperNext]_helperVars => HelperInv'
  <2> SUFFICES ASSUME HelperInv, [HelperNext]_helperVars PROVE HelperInv'
    OBVIOUS
  <2>1. CASE UNCHANGED helperVars
    BY <2>1 DEF helperVars, HelperInv, HelperTypeOK, ReaderInv, AskerInv, KeyIsTheWholeAnswer, Closed, Gone, Collected
  <2> QED
    BY <2>1, PrintingStep, ReadingStep, AskingStep, LookingStep, JudgingStep DEF HelperNext
<1> QED
  BY <1>1, <1>2, PTL DEF HelperSpec

-----------------------------------------------------------------------------
(* The three together.                                                     *)

(***************************************************************************)
(* What AETHER takes from the pipes of a child is what the child wrote: the*)
(* output of a persistent process and the credential of the helper, in     *)
(* every behaviour of the parts that own children.                         *)
(***************************************************************************)
THEOREM ChildrenAreReadWhole == Spec => []PipesAreReadWhole
<1>1. Init => RegistryInit /\ HelperInit
  BY DEF Init
<1>2. [Next]_vars => [RegistryNext]_registryVars /\ [HelperNext]_helperVars
  BY DEF Next, RegistryPart, BrowserPart, HelperPart, vars
<1>3. Spec => RegistrySpec /\ HelperSpec
  BY <1>1, <1>2, PTL DEF Spec, RegistrySpec, HelperSpec
<1>4. HelperInv => KeyIsTheWholeAnswer
  BY DEF HelperInv
<1>5. OutputIsAccountedFor /\ KeyIsTheWholeAnswer => PipesAreReadWhole
  BY DEF PipesAreReadWhole
<1> QED
  BY <1>3, <1>4, <1>5, OutputIsReadInOrder, HelperInvHolds, PTL
=============================================================================

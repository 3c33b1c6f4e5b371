---------------------------- MODULE MutationLocks ----------------------------
(***************************************************************************)
(* PathMutationCoordinator and PathMutationGuard of aether-tools           *)
(* (common.rs): a table from destination keys to weak references, and one  *)
(* mutex per key that is kept alive by the operations using it.            *)
(*                                                                         *)
(* A worker is one blocking write or patch.  It looks its keys up one at a *)
(* time under the table's mutex (Find), then locks them one at a time in   *)
(* key order (Lock).  Dropping the guard is three parts that other workers *)
(* can run between: the mutex guards go first (Unlock), then, under the    *)
(* table's mutex, the entries nobody else uses (Forget), then the          *)
(* references themselves (Clear).                                          *)
(*                                                                         *)
(* A lock is an allocation.  It is live while some worker has a strong     *)
(* reference to it, and its identity can be given to a new lock only when  *)
(* neither a strong nor a weak reference to it is left.                    *)
(***************************************************************************)
EXTENDS Integers, FiniteSets

CONSTANTS
    Workers,
    Keys,     \* canonical destination paths; their order is that of <
    Requests, \* the sets of keys operations ask for
    Locks,    \* identities of Arc<Mutex<()>> allocations: more than can be live
    NoLock

ASSUME ConstantsAssumption ==
    /\ Keys \subseteq Nat
    /\ Requests \subseteq SUBSET Keys \ {{}}
    /\ NoLock \notin Locks

VARIABLES
    table,   \* PathMutationCoordinator.locks: the weak reference of each key
    pc,      \* where acquire or the guard's drop is
    want,    \* PathMutationGuard.keys
    lockOf,  \* PathMutationGuard.locks: the strong reference of each key
    guards   \* PathMutationGuard.guards: the keys whose mutex is locked

vars == <<table, pc, want, lockOf, guards>>

-----------------------------------------------------------------------------
IsLeast(k, S) == k \in S /\ \A j \in S : k =< j

Live(l) == \E w \in Workers, k \in Keys : lockOf[w][k] = l

Locked(l) == \E w \in Workers : \E k \in guards[w] : lockOf[w][k] = l

(* locks.retain(|_, lock| lock.strong_count() > 0)                          *)
Retained == [k \in Keys |-> IF Live(table[k]) THEN table[k] ELSE NoLock]

(* Arc::strong_count(lock) == 1, once this worker's mutex guards are gone.  *)
OnlyUser(w, k) == \A v \in Workers \ {w} : lockOf[v][k] # lockOf[w][k]

Missing(w) == {k \in want[w] : lockOf[w][k] = NoLock}

IsAwaited(k, w) == IsLeast(k, want[w] \ guards[w])

-----------------------------------------------------------------------------
Init ==
    /\ table = [k \in Keys |-> NoLock]
    /\ pc = [w \in Workers |-> "idle"]
    /\ want = [w \in Workers |-> {}]
    /\ lockOf = [w \in Workers |-> [k \in Keys |-> NoLock]]
    /\ guards = [w \in Workers |-> {}]

Request(w, K) ==
    /\ pc[w] = "idle"
    /\ pc' = [pc EXCEPT ![w] = "find"]
    /\ want' = [want EXCEPT ![w] = K]
    /\ UNCHANGED <<table, lockOf, guards>>

(* Which free identity an allocation gets makes no difference: any will do. *)
NewLock == CHOOSE l \in Locks : ~Live(l)

(* The strong reference the table leads to, or a new lock for the key.      *)
Upgraded(k) == IF Retained[k] # NoLock THEN Retained[k] ELSE NewLock

Find(w) ==
    /\ pc[w] = "find"
    /\ \E l \in Locks : ~Live(l)
    /\ \E k \in Keys :
        /\ IsLeast(k, Missing(w))
        /\ table' = [Retained EXCEPT ![k] = Upgraded(k)]
        /\ lockOf' = [lockOf EXCEPT ![w] = [@ EXCEPT ![k] = Upgraded(k)]]
        /\ pc' = [pc EXCEPT ![w] = IF Missing(w) = {k} THEN "lock" ELSE "find"]
    /\ UNCHANGED <<want, guards>>

LockUnsorted(w) ==
    /\ pc[w] = "lock"
    /\ \E k \in want[w] \ guards[w] :
        /\ ~Locked(lockOf[w][k])
        /\ guards' = [guards EXCEPT ![w] = @ \cup {k}]
        /\ pc' = [pc EXCEPT ![w] = IF guards'[w] = want[w] THEN "holding" ELSE "lock"]
    /\ UNCHANGED <<table, want, lockOf>>

Lock(w) ==
    /\ pc[w] = "lock"
    /\ \E k \in Keys :
        /\ IsAwaited(k, w)
        /\ ~Locked(lockOf[w][k])
        /\ guards' = [guards EXCEPT ![w] = @ \cup {k}]
        /\ pc' = [pc EXCEPT ![w] = IF guards'[w] = want[w] THEN "holding" ELSE "lock"]
    /\ UNCHANGED <<table, want, lockOf>>

Unlock(w) ==
    /\ pc[w] \in {"holding", "unlock"}
    /\ \E k \in Keys : IsLeast(k, guards[w]) /\ guards' = [guards EXCEPT ![w] = @ \ {k}]
    /\ pc' = [pc EXCEPT ![w] = IF guards'[w] = {} THEN "forget" ELSE "unlock"]
    /\ UNCHANGED <<table, want, lockOf>>

ForgetUsed(w) ==
    /\ pc[w] = "forget"
    /\ table' = [k \in Keys |->
            IF k \in want[w] /\ table[k] = lockOf[w][k] THEN NoLock ELSE table[k]]
    /\ pc' = [pc EXCEPT ![w] = "clear"]
    /\ UNCHANGED <<want, lockOf, guards>>

Forget(w) ==
    /\ pc[w] = "forget"
    /\ table' = [k \in Keys |->
            IF k \in want[w] /\ table[k] = lockOf[w][k] /\ OnlyUser(w, k)
              THEN NoLock ELSE table[k]]
    /\ pc' = [pc EXCEPT ![w] = "clear"]
    /\ UNCHANGED <<want, lockOf, guards>>

Clear(w) ==
    /\ pc[w] = "clear"
    /\ lockOf' = [lockOf EXCEPT ![w] = [k \in Keys |-> NoLock]]
    /\ want' = [want EXCEPT ![w] = {}]
    /\ pc' = [pc EXCEPT ![w] = "idle"]
    /\ UNCHANGED <<table, guards>>

Step(w) == Find(w) \/ Lock(w) \/ Unlock(w) \/ Forget(w) \/ Clear(w)

Next == \E w \in Workers : Step(w) \/ \E K \in Requests : Request(w, K)

(* Each worker is an operating-system thread that finishes its operation;   *)
(* a waiting thread is served in FIFO order, so a mutex that is free again   *)
(* and again is in the end given to it.                                     *)
Fairness == \A w \in Workers : WF_vars(Step(w)) /\ SF_vars(Lock(w))

Spec == Init /\ [][Next]_vars

FairSpec == Spec /\ Fairness

-----------------------------------------------------------------------------
(* Everything here has its type, a worker's references are for the keys it  *)
(* asked for, and it has locked only keys it has found.                     *)
TypeOK ==
    /\ table \in [Keys -> Locks \cup {NoLock}]
    /\ pc \in [Workers -> {"idle", "find", "lock", "holding", "unlock", "forget", "clear"}]
    /\ want \in [Workers -> SUBSET Keys]
    /\ lockOf \in [Workers -> [Keys -> Locks \cup {NoLock}]]
    /\ guards \in [Workers -> SUBSET Keys]

(* While a worker may still use a lock, the table leads everybody else to   *)
(* that same lock: an entry is dropped only when its last user is leaving.  *)
Using(w, k) == pc[w] # "clear" /\ lockOf[w][k] # NoLock
TableLeadsToUsers == \A w \in Workers, k \in Keys : Using(w, k) => table[k] = lockOf[w][k]

(* A destination is mutated by one operation at a time.                     *)
OneHolder == \A w, v \in Workers : w # v => guards[w] \cap guards[v] = {}

(* A worker has locked only mutexes it still refers to, and none once it    *)
(* has begun to forget its keys.                                            *)
GuardsAreUsed ==
    \A w \in Workers : \A k \in guards[w] :
        /\ pc[w] \in {"lock", "holding", "unlock"}
        /\ k \in want[w]
        /\ lockOf[w][k] # NoLock

(* A worker that locks has found all its keys.                              *)
AllFound ==
    \A w \in Workers : pc[w] \in {"lock", "holding", "unlock"} =>
        \A k \in want[w] : lockOf[w][k] # NoLock

(* What the properties of this section rest on, with the types: the references a  *)
(* worker needs are there as long as it has a mutex locked.                 *)
IndInv == TypeOK /\ GuardsAreUsed /\ AllFound /\ TableLeadsToUsers /\ OneHolder

(* Whoever asks for its keys in the end holds all of them: no group of      *)
(* workers waits only on each other, and nobody is passed over forever.     *)
EveryRequestIsServed == \A w \in Workers : pc[w] = "find" ~> pc[w] = "holding"

(* The mutexes behind the weak table are the locks of KeyLocks.             *)
KL == INSTANCE KeyLocks WITH held <- guards
ImplementsKeyLocks == KL!Spec
=============================================================================

--------------------------- MODULE MutationProofs ---------------------------
(***************************************************************************)
(* The locks of write and patch, and the calls that use them.              *)
(*                                                                         *)
(* The weak table of MutationLocks implements KeyLocks, for any workers,   *)
(* keys and requests.  A locked key belongs to one worker because every    *)
(* worker that is not yet leaving locks the very mutex the table leads to  *)
(* (TableLeadsToUsers): entries are retained while their lock is live and  *)
(* dropped only by their last user.                                        *)
(*                                                                         *)
(* With such locks the calls of FileMutation are atomic, for any calls,    *)
(* paths and operations, and whatever another process does, as long as no  *)
(* path is a symbolic link: a call that has read a file holds the keys of  *)
(* all its files (KeysInv), so that each of them is what the call read or  *)
(* has put there (DiskInv), or another process has changed it.             *)
(***************************************************************************)
EXTENDS MutationLocks, FileMutation, TLAPS

(* Which lock Find takes: the one the table leads to while it is live, and  *)
(* otherwise one nobody refers to.                                          *)
LEMMA UpgradedFacts ==
    ASSUME TypeOK, NEW k \in Keys, \E l \in Locks : ~Live(l)
    PROVE  /\ Upgraded(k) \in Locks
           /\ Live(table[k]) /\ table[k] # NoLock => Upgraded(k) = table[k]
           /\ Retained \in [Keys -> Locks \cup {NoLock}]
           /\ \A j \in Keys : Live(table[j]) => Retained[j] = table[j]
<1>1. NewLock \in Locks /\ ~Live(NewLock)
  BY DEF NewLock
<1>2. \A j \in Keys : Retained[j] = IF Live(table[j]) THEN table[j] ELSE NoLock
  BY DEF Retained
<1>3. table \in [Keys -> Locks \cup {NoLock}]
  BY DEF TypeOK
<1>4. Retained \in [Keys -> Locks \cup {NoLock}]
  BY <1>3 DEF Retained
<1>5. Upgraded(k) \in Locks
  BY <1>1, <1>4 DEF Upgraded
<1> QED
  BY <1>2, <1>4, <1>5 DEF Upgraded

LEMMA InitInv == Init => IndInv
  BY DEF Init, IndInv, TypeOK, GuardsAreUsed, AllFound, TableLeadsToUsers, Using, OneHolder

LEMMA RequestInv ==
    ASSUME IndInv, NEW w \in Workers, NEW K \in Requests, Request(w, K)
    PROVE  IndInv'
<1>1. K \in SUBSET Keys
  BY ConstantsAssumption
<1>2. TypeOK'
  BY <1>1 DEF IndInv, TypeOK, Request
<1>3. GuardsAreUsed'
  BY DEF IndInv, TypeOK, GuardsAreUsed, Request
<1>4. AllFound'
  BY DEF IndInv, TypeOK, AllFound, Request
<1>5. TableLeadsToUsers'
  BY DEF IndInv, TypeOK, TableLeadsToUsers, Using, Request
<1>6. OneHolder'
  BY DEF IndInv, OneHolder, Request
<1> QED
  BY <1>2, <1>3, <1>4, <1>5, <1>6 DEF IndInv

(* What Find leaves in the table still leads every user of a key to its     *)
(* lock: their locks are live, so they are retained, and a new lock is      *)
(* entered only for a key nobody uses.                                      *)
LEMMA FindInv ==
    ASSUME IndInv, NEW w \in Workers, Find(w)
    PROVE  IndInv'
<1>1. PICK k \in Keys :
         /\ k \in Missing(w)
         /\ table' = [Retained EXCEPT ![k] = Upgraded(k)]
         /\ lockOf' = [lockOf EXCEPT ![w] = [@ EXCEPT ![k] = Upgraded(k)]]
         /\ pc' = [pc EXCEPT ![w] = IF Missing(w) = {k} THEN "lock" ELSE "find"]
  BY DEF Find, IsLeast
<1>2. \E l \in Locks : ~Live(l)
  BY DEF Find
<1>3. TypeOK
  BY DEF IndInv
<1> DEFINE l == Upgraded(k)
<1>4. /\ l \in Locks
      /\ Live(table[k]) /\ table[k] # NoLock => l = table[k]
      /\ Retained \in [Keys -> Locks \cup {NoLock}]
      /\ \A j \in Keys : Live(table[j]) => Retained[j] = table[j]
  BY <1>2, <1>3, UpgradedFacts
<1>5. l # NoLock
  BY <1>4, ConstantsAssumption
<1>6. /\ table' \in [Keys -> Locks \cup {NoLock}]
      /\ table'[k] = l
      /\ \A j \in Keys \ {k} : table'[j] = Retained[j]
  BY <1>1, <1>4
<1>7. /\ lockOf' \in [Workers -> [Keys -> Locks \cup {NoLock}]]
      /\ lockOf'[w][k] = l
      /\ \A j \in Keys \ {k} : lockOf'[w][j] = lockOf[w][j]
      /\ \A v \in Workers \ {w} : lockOf'[v] = lockOf[v]
  BY <1>1, <1>3, <1>4 DEF TypeOK
<1>8. /\ pc[w] = "find" /\ pc'[w] \in {"lock", "find"}
      /\ pc'[w] = "lock" => Missing(w) = {k}
      /\ \A v \in Workers \ {w} : pc'[v] = pc[v]
      /\ pc' \in [Workers -> {"idle", "find", "lock", "holding", "unlock", "forget", "clear"}]
      /\ want' = want /\ guards' = guards
  BY <1>1, <1>3 DEF Find, TypeOK
<1> HIDE DEF l
<1>9. TypeOK'
  BY <1>3, <1>6, <1>7, <1>8 DEF TypeOK
<1>10. GuardsAreUsed'
  BY <1>3, <1>7, <1>8 DEF IndInv, GuardsAreUsed, TypeOK
<1>11. AllFound'
  <2> SUFFICES ASSUME NEW v \in Workers, pc'[v] \in {"lock", "holding", "unlock"}, NEW j \in want[v]
               PROVE  lockOf'[v][j] # NoLock
    BY <1>8 DEF AllFound
  <2>1. j \in Keys
    BY <1>3 DEF TypeOK
  <2>2. CASE v # w
    BY <2>2, <1>7, <1>8 DEF IndInv, AllFound
  <2>3. CASE v = w
    BY <2>3, <2>1, <1>5, <1>7, <1>8 DEF Missing
  <2> QED
    BY <2>2, <2>3
<1>12. TableLeadsToUsers'
  <2> SUFFICES ASSUME NEW v \in Workers, NEW j \in Keys, pc'[v] # "clear", lockOf'[v][j] # NoLock
               PROVE  table'[j] = lockOf'[v][j]
    BY DEF TableLeadsToUsers, Using
  <2>1. CASE v = w /\ j = k
    BY <2>1, <1>6, <1>7
  <2>2. CASE ~(v = w /\ j = k)
    <3>1. lockOf'[v][j] = lockOf[v][j] /\ pc[v] # "clear"
      BY <2>2, <1>7, <1>8
    <3>2. table[j] = lockOf[v][j] /\ lockOf[v][j] # NoLock
      BY <3>1 DEF IndInv, TableLeadsToUsers, Using
    <3>3. Live(table[j])
      BY <3>2 DEF Live
    <3>4. table'[j] = table[j]
      BY <3>2, <3>3, <1>4, <1>6
    <3> QED
      BY <3>1, <3>2, <3>4
  <2> QED
    BY <2>1, <2>2
<1>13. OneHolder'
  BY <1>8 DEF IndInv, OneHolder
<1> QED
  BY <1>9, <1>10, <1>11, <1>12, <1>13 DEF IndInv

(* A worker that locks a key finds it with no other holder, since a holder  *)
(* would have locked the same mutex.                                        *)
LEMMA LockedByNobody ==
    ASSUME IndInv, NEW w \in Workers, NEW k \in Keys,
           pc[w] = "lock", k \in want[w], ~Locked(lockOf[w][k])
    PROVE  \A v \in Workers : k \notin guards[v]
<1> SUFFICES ASSUME NEW v \in Workers, k \in guards[v]
             PROVE  FALSE
  OBVIOUS
<1>1. lockOf[v][k] # NoLock /\ pc[v] # "clear" /\ lockOf[w][k] # NoLock
  BY DEF IndInv, GuardsAreUsed, AllFound
<1>2. lockOf[v][k] = lockOf[w][k]
  BY <1>1 DEF IndInv, TableLeadsToUsers, Using
<1> QED
  BY <1>2 DEF Locked

LEMMA LockInv ==
    ASSUME IndInv, NEW w \in Workers, Lock(w)
    PROVE  IndInv'
<1>1. PICK k \in Keys :
         /\ k \in want[w] \ guards[w]
         /\ ~Locked(lockOf[w][k])
         /\ guards' = [guards EXCEPT ![w] = @ \cup {k}]
         /\ pc' = [pc EXCEPT ![w] = IF guards'[w] = want[w] THEN "holding" ELSE "lock"]
  BY DEF Lock, IsAwaited, IsLeast
<1>2. TypeOK /\ pc[w] = "lock" /\ UNCHANGED <<table, want, lockOf>>
  BY DEF IndInv, Lock
<1>3. \A v \in Workers : k \notin guards[v]
  BY <1>1, <1>2, LockedByNobody
<1>4. /\ guards'[w] = guards[w] \cup {k}
      /\ \A v \in Workers \ {w} : guards'[v] = guards[v] /\ pc'[v] = pc[v]
      /\ pc'[w] \in {"lock", "holding"}
      /\ guards' \in [Workers -> SUBSET Keys]
      /\ pc' \in [Workers -> {"idle", "find", "lock", "holding", "unlock", "forget", "clear"}]
  BY <1>1, <1>2 DEF TypeOK
<1>5. TypeOK'
  BY <1>2, <1>4 DEF TypeOK
<1>6. GuardsAreUsed'
  BY <1>1, <1>2, <1>4 DEF IndInv, GuardsAreUsed, AllFound
<1>7. AllFound'
  BY <1>2, <1>4 DEF IndInv, AllFound
<1>8. TableLeadsToUsers'
  BY <1>2, <1>4 DEF IndInv, TableLeadsToUsers, Using
<1>9. OneHolder'
  BY <1>3, <1>4 DEF IndInv, OneHolder
<1> QED
  BY <1>5, <1>6, <1>7, <1>8, <1>9 DEF IndInv

LEMMA UnlockInv ==
    ASSUME IndInv, NEW w \in Workers, Unlock(w)
    PROVE  IndInv'
<1>1. PICK k \in Keys :
         /\ k \in guards[w]
         /\ guards' = [guards EXCEPT ![w] = @ \ {k}]
  BY DEF Unlock, IsLeast
<1>2. /\ TypeOK /\ pc[w] \in {"holding", "unlock"}
      /\ pc' = [pc EXCEPT ![w] = IF guards'[w] = {} THEN "forget" ELSE "unlock"]
      /\ UNCHANGED <<table, want, lockOf>>
  BY DEF IndInv, Unlock
<1>3. /\ guards'[w] = guards[w] \ {k}
      /\ \A v \in Workers \ {w} : guards'[v] = guards[v] /\ pc'[v] = pc[v]
      /\ pc'[w] \in {"forget", "unlock"}
      /\ pc'[w] = "forget" => guards'[w] = {}
      /\ guards' \in [Workers -> SUBSET Keys]
      /\ pc' \in [Workers -> {"idle", "find", "lock", "holding", "unlock", "forget", "clear"}]
  BY <1>1, <1>2 DEF TypeOK
<1>4. TypeOK'
  BY <1>2, <1>3 DEF TypeOK
<1>5. GuardsAreUsed'
  BY <1>2, <1>3 DEF IndInv, GuardsAreUsed
<1>6. AllFound'
  BY <1>2, <1>3 DEF IndInv, AllFound
<1>7. TableLeadsToUsers'
  BY <1>2, <1>3 DEF IndInv, TableLeadsToUsers, Using
<1>8. OneHolder'
  BY <1>3 DEF IndInv, OneHolder
<1> QED
  BY <1>4, <1>5, <1>6, <1>7, <1>8 DEF IndInv

LEMMA ForgetInv ==
    ASSUME IndInv, NEW w \in Workers, Forget(w)
    PROVE  IndInv'
<1>1. /\ TypeOK /\ pc[w] = "forget"
      /\ UNCHANGED <<want, lockOf, guards>>
      /\ pc'[w] = "clear"
      /\ \A v \in Workers \ {w} : pc'[v] = pc[v]
      /\ pc' \in [Workers -> {"idle", "find", "lock", "holding", "unlock", "forget", "clear"}]
  BY DEF IndInv, Forget, TypeOK
<1>2. \A k \in Keys : table'[k] =
         IF k \in want[w] /\ table[k] = lockOf[w][k] /\ OnlyUser(w, k) THEN NoLock ELSE table[k]
  BY DEF Forget
<1>3. table' \in [Keys -> Locks \cup {NoLock}]
  BY <1>1 DEF Forget, TypeOK
<1>4. TypeOK'
  BY <1>1, <1>3 DEF TypeOK
<1>5. GuardsAreUsed'
  BY <1>1 DEF IndInv, GuardsAreUsed
<1>6. AllFound'
  BY <1>1 DEF IndInv, AllFound
<1>7. TableLeadsToUsers'
  <2> SUFFICES ASSUME NEW v \in Workers, NEW k \in Keys, pc'[v] # "clear", lockOf'[v][k] # NoLock
               PROVE  table'[k] = lockOf'[v][k]
    BY DEF TableLeadsToUsers, Using
  <2>1. v # w /\ pc[v] # "clear" /\ lockOf[v][k] # NoLock /\ lockOf'[v][k] = lockOf[v][k]
    BY <1>1
  <2>2. table[k] = lockOf[v][k]
    BY <2>1 DEF IndInv, TableLeadsToUsers, Using
  <2>3. ~(table[k] = lockOf[w][k] /\ OnlyUser(w, k))
    BY <2>1, <2>2 DEF OnlyUser
  <2> QED
    BY <1>2, <2>1, <2>2, <2>3
<1>8. OneHolder'
  BY <1>1 DEF IndInv, OneHolder
<1> QED
  BY <1>4, <1>5, <1>6, <1>7, <1>8 DEF IndInv

LEMMA ClearInv ==
    ASSUME IndInv, NEW w \in Workers, Clear(w)
    PROVE  IndInv'
<1>1. /\ TypeOK /\ pc[w] = "clear"
      /\ table' = table /\ guards' = guards
      /\ want' = [want EXCEPT ![w] = {}]
      /\ lockOf' = [lockOf EXCEPT ![w] = [k \in Keys |-> NoLock]]
      /\ pc' = [pc EXCEPT ![w] = "idle"]
  BY DEF IndInv, Clear
<1>2. TypeOK'
  BY <1>1 DEF TypeOK
<1>3. guards[w] = {}
  BY <1>1 DEF IndInv, TypeOK, GuardsAreUsed
<1>4. GuardsAreUsed'
  <2> SUFFICES ASSUME NEW v \in Workers, NEW k \in guards[v]
               PROVE  /\ pc'[v] \in {"lock", "holding", "unlock"}
                      /\ k \in want'[v] /\ lockOf'[v][k] # NoLock
    BY <1>1 DEF GuardsAreUsed
  <2>1. v # w
    BY <1>3
  <2>2. pc'[v] = pc[v] /\ want'[v] = want[v] /\ lockOf'[v] = lockOf[v]
    BY <1>1, <2>1 DEF TypeOK
  <2> QED
    BY <2>2 DEF IndInv, GuardsAreUsed
<1>5. AllFound'
  BY <1>1 DEF IndInv, AllFound, TypeOK
<1>6. TableLeadsToUsers'
  BY <1>1 DEF IndInv, TableLeadsToUsers, Using, TypeOK
<1>7. OneHolder'
  BY <1>1 DEF IndInv, OneHolder
<1> QED
  BY <1>2, <1>4, <1>5, <1>6, <1>7 DEF IndInv

LEMMA NextInv == IndInv /\ [Next]_vars => IndInv'
<1> SUFFICES ASSUME IndInv, [Next]_vars
             PROVE  IndInv'
  OBVIOUS
<1>1. CASE UNCHANGED vars
  BY <1>1 DEF vars, IndInv, TypeOK, GuardsAreUsed, AllFound, TableLeadsToUsers, Using, OneHolder
<1>2. CASE Next
  BY <1>2, RequestInv, FindInv, LockInv, UnlockInv, ForgetInv, ClearInv DEF Next, Step
<1> QED
  BY <1>1, <1>2

-----------------------------------------------------------------------------
(* The types, and what the rest rests on: the table leads every worker that *)
(* may still use a key to the one lock of that key.                         *)
THEOREM IndInvHolds == Spec => []IndInv
  BY InitInv, NextInv, PTL DEF Spec

(* As long as a worker may use the lock of a key, PathMutationCoordinator   *)
(* leads everybody else to that same lock.                                  *)
THEOREM UsersFindOneLock == Spec => []TableLeadsToUsers
<1>1. IndInv => TableLeadsToUsers
  BY DEF IndInv
<1> QED
  BY <1>1, IndInvHolds, PTL

(* One write or patch at a time is between its guard and its drop, for each *)
(* destination key.                                                         *)
THEOREM OneHolderPerKey == Spec => []OneHolder
<1>1. IndInv => OneHolder
  BY DEF IndInv
<1> QED
  BY <1>1, IndInvHolds, PTL

(* Locking a mutex takes its key, unlocking it drops the key, and no other  *)
(* step of the coordinator changes who holds what.                          *)
THEOREM CoordinatorImplementsKeyLocks == Spec => ImplementsKeyLocks
<1>1. Init => KL!Init
  BY DEF Init, KL!Init
<1>2. IndInv /\ [Next]_vars => [KL!Next]_guards
  <2> SUFFICES ASSUME IndInv, [Next]_vars
               PROVE  KL!Next \/ guards' = guards
    OBVIOUS
  <2>1. CASE UNCHANGED vars
    BY <2>1 DEF vars
  <2>2. ASSUME NEW w \in Workers, Lock(w)
        PROVE  KL!Next
    <3>1. PICK k \in Keys :
             /\ k \in want[w] \ guards[w]
             /\ ~Locked(lockOf[w][k])
             /\ guards' = [guards EXCEPT ![w] = @ \cup {k}]
      BY <2>2 DEF Lock, IsAwaited, IsLeast
    <3>2. \A v \in Workers : k \notin guards[v]
      BY <2>2, <3>1, LockedByNobody DEF Lock
    <3> QED
      BY <3>1, <3>2 DEF KL!Next, KL!Take, KL!Holders
  <2>3. ASSUME NEW w \in Workers, Unlock(w)
        PROVE  KL!Next
    <3>1. PICK k \in Keys : k \in guards[w] /\ guards' = [guards EXCEPT ![w] = @ \ {k}]
      BY <2>3 DEF Unlock, IsLeast
    <3>2. {k} \subseteq guards[w] /\ KL!Drop(w, {k})
      BY <3>1 DEF KL!Drop
    <3> QED
      BY <3>2 DEF KL!Next
  <2>4. CASE Next
    BY <2>4, <2>2, <2>3 DEF Next, Step, Request, Find, Forget, Clear
  <2> QED
    BY <2>1, <2>4
<1> QED
  BY <1>1, <1>2, IndInvHolds, PTL DEF Spec, KL!Spec, ImplementsKeyLocks


-----------------------------------------------------------------------------
(* The calls that use such locks (FileMutation), in a workspace without     *)
(* symbolic links.                                                          *)

(* What the types say of one call.                                          *)
LEMMA TypedCall ==
    ASSUME CallsTypeOK, NEW c \in Calls
    PROVE  /\ held[c] \subseteq Paths /\ temps[c] \subseteq Paths /\ i[c] \in Nat
           /\ phase[c] \in {"new", "resolve", "lock", "prepare", "stage", "check", "install",
                            "rollback", "release", "done"}
           /\ result[c] \in {"none", "ok", "failed", "rollback_failed"}
           /\ keys[c] \in Seq(Paths) /\ Len(keys[c]) \in Nat
           /\ \A j \in 1 .. Len(keys[c]) : keys[c][j] \in Paths
           /\ seen[c] \in Seq([entry : Plain, content : Plain]) /\ Len(seen[c]) \in Nat
           /\ \A j \in 1 .. Len(seen[c]) : seen[c][j].entry \in Plain /\ seen[c][j].content \in Plain
           /\ op[c] \in Ops \cup {NoOp} /\ Paths \subseteq Nat
<1> DEFINE Read == [entry : Plain, content : Plain]
<1>1. seen[c] \in Seq(Read) /\ keys[c] \in Seq(Paths)
  BY DEF CallsTypeOK
<1>2. \A r \in Read : r.entry \in Plain /\ r.content \in Plain
  OBVIOUS
<1> HIDE DEF Read
<1>3. Len(seen[c]) \in Nat /\ \A j \in 1 .. Len(seen[c]) : seen[c][j] \in Read
  BY <1>1
<1>4. Len(keys[c]) \in Nat /\ \A j \in 1 .. Len(keys[c]) : keys[c][j] \in Paths
  BY <1>1
<1> QED
  BY <1>1, <1>2, <1>3, <1>4, PathsAssumption DEF CallsTypeOK, Read

(* What the call was asked to do has destinations.                          *)
LEMMA AskedFor ==
    ASSUME NEW o \in Ops
    PROVE  /\ o.paths \in Seq(Paths) /\ Len(o.paths) \in Nat \ {0}
           /\ \A j \in 1 .. Len(o.paths) : o.paths[j] \in Paths
           /\ o.kind \in {"write", "patch"} /\ o # NoOp
           /\ o.kind = "write" => Len(o.paths) = 1 /\ ~o.dry
           /\ o.kind = "patch" => ~o.create /\ ~o.expects
           /\ o.create \in BOOLEAN /\ o.expects \in BOOLEAN /\ o.dry \in BOOLEAN
<1>1. /\ o.kind \in {"write", "patch"} /\ o.paths \in Seq(Paths) /\ o.paths # <<>>
      /\ o.create \in BOOLEAN /\ o.expects \in BOOLEAN /\ o.dry \in BOOLEAN
  BY OpsAssumption
<1>2. Len(o.paths) \in Nat \ {0} /\ \A j \in 1 .. Len(o.paths) : o.paths[j] \in Paths
  BY <1>1
<1>3. o # NoOp
  BY <1>1 DEF NoOp
<1> QED
  BY <1>1, <1>2, <1>3, OpsAssumption

(* Without links a path names what opening it reads, and is its own key.    *)
LEMMA NothingIsFollowed ==
    ASSUME CallsTypeOK, NEW p \in Paths
    PROVE  disk[p] \in Plain /\ Followed(p) = disk[p] /\ Key(p) = p
<1>1. disk[p] \in Plain
  BY DEF CallsTypeOK
<1>2. disk[p].kind # "link"
  BY <1>1 DEF Plain, Absent, File
<1> QED
  BY <1>1, <1>2 DEF Followed, Key

(* A call that has read a file holds its path.                              *)
LEMMA HoldsWhatItRead ==
    ASSUME CallsInv, NEW c \in Calls, NEW j \in 1 .. Len(seen[c]), phase[c] # "done"
    PROVE  /\ j \in 1 .. Count(c) /\ op[c] \in Ops
           /\ op[c].paths[j] \in Paths /\ op[c].paths[j] \in held[c]
<1>1. CallsTypeOK /\ KeysInv(c) /\ ProgressInv(c)
  BY DEF CallsInv, CallInv
<1>2. Len(seen[c]) \in Nat /\ seen[c] # <<>>
  BY <1>1, TypedCall
<1>3. Working(c) \/ phase[c] = "release"
  BY <1>1, <1>2, TypedCall DEF ProgressInv, Working
<1>4. op[c] \in Ops
  BY <1>1, <1>3, TypedCall DEF ProgressInv, Working
<1>5. Count(c) \in Nat /\ j \in 1 .. Count(c)
  BY <1>1, <1>2, <1>4, AskedFor DEF ProgressInv, Count
<1>6. Len(keys[c]) = Count(c) /\ held[c] = KeySet(c)
  BY <1>1, <1>2, <1>3 DEF KeysInv
<1>7. op[c].paths[j] = keys[c][j]
  BY <1>1, <1>5, <1>6 DEF KeysInv
<1> QED
  BY <1>4, <1>5, <1>6, <1>7, AskedFor DEF KeySet, Count

(* What another call or process does leaves a call as it was, as long as    *)
(* the paths the call holds are left alone.                                 *)
LEMMA Undisturbed ==
    ASSUME CallsInv, NEW d \in Calls,
           /\ phase'[d] = phase[d] /\ op'[d] = op[d] /\ i'[d] = i[d] /\ keys'[d] = keys[d]
           /\ seen'[d] = seen[d] /\ temps'[d] = temps[d] /\ result'[d] = result[d] /\ held'[d] = held[d],
           touched \subseteq touched', raced \subseteq raced',
           \A p \in held[d] : \/ disk'[p] = disk[p]
                              \/ p \in touched' /\ (phase[d] = "install" /\ Path(d) = p => p \in raced')
    PROVE  CallInv(d)'
<1>1. KeysInv(d) /\ ProgressInv(d) /\ DiskInv(d)
  BY DEF CallsInv, CallInv
<1>2. KeysInv(d)'
  BY <1>1 DEF KeysInv, Count, Working, KeySet
<1>3. ProgressInv(d)'
  BY <1>1 DEF ProgressInv, Count, Working
<1>4. DiskInv(d)'
  <2>1. ASSUME phase[d] # "done", NEW j \in 1 .. Len(seen[d])
        PROVE  \/ op[d].paths[j] \in touched' \/ disk'[op[d].paths[j]] = Expected(d, j)'
               \/ result[d] = "rollback_failed" /\ (phase[d] = "rollback" => i[d] < j)
    <3>1. op[d].paths[j] \in held[d]
      BY <2>1, HoldsWhatItRead
    <3>2. Expected(d, j)' = Expected(d, j)
      BY DEF Expected, New
    <3> QED
      BY <1>1, <2>1, <3>1, <3>2 DEF DiskInv
  <2>2. ASSUME phase[d] = "install"
        PROVE  Path(d) \in raced' \/ disk'[Path(d)] = Seen(d).entry
    <3>1. i[d] \in 1 .. Len(seen[d])
      BY <1>1, <2>2 DEF ProgressInv, Working
    <3>2. Path(d) \in held[d]
      BY <2>2, <3>1, HoldsWhatItRead DEF Path
    <3> QED
      BY <1>1, <2>2, <3>2 DEF DiskInv
  <2> QED
    BY <2>1, <2>2 DEF DiskInv, Path, Seen
<1> QED
  BY <1>2, <1>3, <1>4 DEF CallInv

(* A call takes a step: it is as it should be afterwards, has changed no    *)
(* path that it does not hold, and has taken nobody's edit from a file      *)
(* except by replacing the file.                                            *)
LEMMA CallMoves ==
    ASSUME CallsInv, NEW c \in Calls, CallsTypeOK', CallInv(c)', touched' = touched, raced' = raced,
           \A d \in Calls \ {c} :
               /\ phase'[d] = phase[d] /\ op'[d] = op[d] /\ i'[d] = i[d] /\ keys'[d] = keys[d]
               /\ seen'[d] = seen[d] /\ temps'[d] = temps[d] /\ result'[d] = result[d] /\ held'[d] = held[d]
               /\ held'[c] \cap held[d] = {},
           op[c] = NoOp \/ op'[c] = op[c],
           result[c] = "ok" => result'[c] = "ok",
           phase'[c] = "done" => phase[c] = "release" /\ disk' = disk /\ result'[c] = result[c],
           \A p \in Paths :
               \/ disk'[p] = disk[p]
               \/ /\ p \in held[c]
                  /\ \A x \in Calls \ {c} :
                        x \in disk[p].edits => \/ x \in disk'[p].edits \/ p \in touched
                                               \/ op'[c].kind = "write" /\ op'[c].paths[1] = p /\ result'[c] = "ok"
    PROVE  CallsInv'
<1>1. OneHolderPerPath'
  BY DEF CallsInv, OneHolderPerPath
<1>2. \A d \in Calls : CallInv(d)'
  <2> SUFFICES ASSUME NEW d \in Calls \ {c} PROVE CallInv(d)'
    OBVIOUS
  <2>1. held[d] \subseteq Paths /\ held[c] \cap held[d] = {}
    BY TypedCall DEF CallsInv, OneHolderPerPath
  <2> QED
    BY <2>1, Undisturbed
<1>3. PatchesSurvive'
  <2> SUFFICES ASSUME NEW x \in Calls, Succeeded(x)', op'[x].kind = "patch", NEW j \in 1 .. Len(op'[x].paths)
               PROVE  LET p == op'[x].paths[j] IN
                        \/ x \in disk'[p].edits
                        \/ p \in touched'
                        \/ \E d \in Calls \ {x} : op'[d].kind = "write" /\ op'[d].paths[1] = p /\ result'[d] = "ok"
    BY DEF PatchesSurvive, Count
  <2> DEFINE p == op'[x].paths[j]
  <2>1. CASE x = c
    <3>1. phase[c] = "release" /\ disk' = disk /\ result[c] = "ok"
      BY <2>1 DEF Succeeded
    <3>2. ProgressInv(c) /\ DiskInv(c)
      BY DEF CallsInv, CallInv
    <3>3. op'[c] = op[c] /\ Len(seen[c]) = Count(c) /\ ~op[c].dry
      BY <2>1, <3>1, <3>2 DEF ProgressInv, Succeeded
    <3>4. p \in touched \/ disk[p] = New(c, j)
      BY <2>1, <3>1, <3>2, <3>3 DEF DiskInv, Expected, Count
    <3>5. c \in New(c, j).edits
      BY DEF New, File
    <3> QED
      BY <2>1, <3>1, <3>4, <3>5
  <2>2. CASE x # c
    <3>1. Succeeded(x) /\ op'[x] = op[x] /\ x \in Calls \ {c}
      BY <2>2 DEF Succeeded
    <3>2. \/ x \in disk[p].edits
          \/ p \in touched
          \/ \E d \in Calls \ {x} : op[d].kind = "write" /\ op[d].paths[1] = p /\ result[d] = "ok"
      BY <3>1 DEF CallsInv, PatchesSurvive, Count
    <3>3. ASSUME NEW d \in Calls \ {x}, op[d].kind = "write", op[d].paths[1] = p, result[d] = "ok"
          PROVE  op'[d].kind = "write" /\ op'[d].paths[1] = p /\ result'[d] = "ok"
      <4>1. op[d] # NoOp
        BY <3>3 DEF NoOp
      <4> QED
        BY <3>3, <4>1
    <3>4. ASSUME x \in disk[p].edits
          PROVE  \/ x \in disk'[p].edits \/ p \in touched
                 \/ \E d \in Calls \ {x} : op'[d].kind = "write" /\ op'[d].paths[1] = p /\ result'[d] = "ok"
      <4>1. p \in Paths
        <5>1. op[x] \in Ops
          BY <2>2, <3>1, TypedCall DEF CallsInv, CallInv, ProgressInv, Succeeded
        <5> QED
          BY <3>1, <5>1, AskedFor
      <4> QED
        BY <2>2, <3>1, <3>4, <4>1
    <3> QED
      BY <3>2, <3>3, <3>4
  <2> QED
    BY <2>1, <2>2
<1> QED
  BY <1>1, <1>2, <1>3 DEF CallsInv

(* Where a call that is under way stands.                                   *)
LEMMA UnderWay ==
    ASSUME CallsInv, NEW c \in Calls, phase[c] \in {"resolve", "lock"} \/ Working(c)
    PROVE  /\ CallsTypeOK /\ KeysInv(c) /\ ProgressInv(c) /\ DiskInv(c)
           /\ op[c] \in Ops /\ op[c] # NoOp
           /\ Count(c) \in Nat \ {0} /\ i[c] \in 1 .. Count(c)
           /\ Path(c) \in Paths
<1>1. CallsTypeOK /\ KeysInv(c) /\ ProgressInv(c) /\ DiskInv(c)
  BY DEF CallsInv, CallInv
<1>2. op[c] \in Ops /\ i[c] \in 1 .. Count(c)
  BY <1>1, TypedCall DEF ProgressInv, Working
<1> QED
  BY <1>1, <1>2, AskedFor DEF Count, Path

LEMMA BeginMoves ==
    ASSUME CallsInv, NEW c \in Calls, NEW o \in Ops, Begin(c, o)
    PROVE  CallsInv'
<1>1. CallsTypeOK /\ KeysInv(c) /\ ProgressInv(c) /\ DiskInv(c) /\ phase[c] = "new"
  BY DEF CallsInv, CallInv, Begin
<1>2. /\ phase' = [phase EXCEPT ![c] = "resolve"] /\ op' = [op EXCEPT ![c] = o] /\ i' = [i EXCEPT ![c] = 1]
      /\ UNCHANGED <<disk, held, keys, seen, temps, result, touched, raced>>
  BY DEF Begin
<1>3. CallsTypeOK'
  BY <1>1, <1>2 DEF CallsTypeOK
<1>4. phase'[c] = "resolve" /\ op'[c] = o /\ i'[c] = 1
  BY <1>1, <1>2 DEF CallsTypeOK
<1>5. /\ op[c] = NoOp /\ keys[c] = <<>> /\ Len(keys[c]) = 0 /\ seen[c] = <<>> /\ Len(seen[c]) = 0
      /\ held[c] = {} /\ temps[c] = {} /\ result[c] = "none"
  BY <1>1 DEF KeysInv, ProgressInv
<1>6. o # NoOp /\ Len(o.paths) \in Nat \ {0}
  BY AskedFor
<1>7. KeysInv(c)'
  BY <1>2, <1>4, <1>5, <1>6 DEF KeysInv, Count, Working, KeySet
<1>8. ProgressInv(c)'
  BY <1>2, <1>4, <1>5, <1>6 DEF ProgressInv, Count, Working
<1>9. DiskInv(c)'
  BY <1>2, <1>4, <1>5 DEF DiskInv
<1>10. \A d \in Calls \ {c} : phase'[d] = phase[d] /\ op'[d] = op[d] /\ i'[d] = i[d] /\ held'[c] \cap held[d] = {}
  BY <1>1, <1>2, <1>5 DEF CallsTypeOK
<1> QED
  BY <1>2, <1>3, <1>4, <1>5, <1>7, <1>8, <1>9, <1>10, CallMoves DEF CallInv

(* A call that has not read anything may fail.                              *)
LEMMA ResolveMoves ==
    ASSUME CallsInv, NEW c \in Calls, Resolve(c)
    PROVE  CallsInv'
<1>1. phase[c] = "resolve"
  BY DEF Resolve
<1>2. /\ CallsTypeOK /\ KeysInv(c) /\ ProgressInv(c) /\ op[c] \in Ops /\ op[c] # NoOp
      /\ Count(c) \in Nat \ {0} /\ i[c] \in 1 .. Count(c) /\ Path(c) \in Paths /\ Key(Path(c)) = Path(c)
  BY <1>1, UnderWay, NothingIsFollowed
<1>3. /\ Len(keys[c]) = i[c] - 1 /\ seen[c] = <<>> /\ Len(seen[c]) = 0 /\ held[c] = {} /\ temps[c] = {}
      /\ result[c] = "none" /\ keys[c] \in Seq(Paths)
  BY <1>1, <1>2, TypedCall DEF KeysInv, ProgressInv
<1>4. UNCHANGED <<disk, held, op, seen, temps, touched, raced>>
  BY DEF Resolve
<1>5. CASE Key(Path(c)) \in KeySet(c)
  <2>1. /\ phase' = [phase EXCEPT ![c] = "release"] /\ result' = [result EXCEPT ![c] = "failed"]
        /\ UNCHANGED <<i, keys>>
    BY <1>5 DEF Resolve, End
  <2>2. CallsTypeOK' /\ phase'[c] = "release" /\ result'[c] = "failed"
    BY <1>2, <1>4, <2>1 DEF CallsTypeOK
  <2>3. KeysInv(c)'
    BY <1>2, <1>3, <1>4, <2>1, <2>2 DEF KeysInv, Count, Working, KeySet
  <2>4. ProgressInv(c)'
    BY <1>2, <1>3, <1>4, <2>1, <2>2 DEF ProgressInv, Count, Working
  <2>5. DiskInv(c)'
    BY <1>3, <1>4, <2>2 DEF DiskInv
  <2>6. \A d \in Calls \ {c} : phase'[d] = phase[d] /\ result'[d] = result[d] /\ held'[c] \cap held[d] = {}
    BY <1>2, <1>3, <1>4, <2>1 DEF CallsTypeOK
  <2> QED
    BY <1>2, <1>3, <1>4, <2>1, <2>2, <2>3, <2>4, <2>5, <2>6, CallMoves DEF CallInv
<1>6. CASE Key(Path(c)) \notin KeySet(c)
  <2> DEFINE there == IF Last(c) THEN "lock" ELSE "resolve"
             next == IF Last(c) THEN 1 ELSE i[c] + 1
  <2>1. /\ keys' = [keys EXCEPT ![c] = Append(keys[c], Path(c))] /\ UNCHANGED result
        /\ phase' = [phase EXCEPT ![c] = there] /\ i' = [i EXCEPT ![c] = next]
    BY <1>2, <1>6 DEF Resolve, Advance, CallsTypeOK
  <2>2. /\ next \in 1 .. Count(c) /\ there \in {"resolve", "lock"}
        /\ there = "lock" => next = 1 /\ i[c] = Count(c)
        /\ there = "resolve" => next = i[c] + 1
    BY <1>2 DEF Last
  <2> HIDE DEF there, next
  <2>3. Append(keys[c], Path(c)) \in Seq(Paths)
    BY <1>2, <1>3
  <2>4. CallsTypeOK'
    <3>1. keys' \in [Calls -> Seq(Paths)]
      BY <1>2, <2>1, <2>3 DEF CallsTypeOK
    <3>2. next \in Nat
      BY <1>2, <2>2
    <3>3. i' \in [Calls -> Nat]
      BY <1>2, <2>1, <3>2 DEF CallsTypeOK
    <3>4. phase' \in [Calls -> {"new", "resolve", "lock", "prepare", "stage", "check", "install",
                                "rollback", "release", "done"}]
      BY <1>2, <2>1, <2>2 DEF CallsTypeOK
    <3> QED
      BY <1>2, <1>4, <2>1, <3>1, <3>3, <3>4 DEF CallsTypeOK
  <2>5. phase'[c] = there /\ i'[c] = next /\ keys'[c] = Append(keys[c], Path(c))
    BY <1>2, <2>1 DEF CallsTypeOK
  <2>6. /\ Len(keys'[c]) = i[c] /\ keys'[c][i[c]] = Path(c)
        /\ \A j \in 1 .. (i[c] - 1) : keys'[c][j] = keys[c][j]
    BY <1>2, <1>3, <2>5
  <2>7. KeysInv(c)'
    <3>1. \A j \in 1 .. i[c] : keys'[c][j] = op[c].paths[j]
      BY <1>2, <1>3, <2>6 DEF KeysInv, Path
    <3>2. \A j \in 1 .. (i[c] - 1) : keys[c][j] # Path(c)
      BY <1>2, <1>3, <1>6 DEF KeySet
    <3>3. \A j, m \in 1 .. i[c] : keys'[c][j] = keys'[c][m] => j = m
      <4> SUFFICES ASSUME NEW j \in 1 .. i[c], NEW m \in 1 .. i[c], keys'[c][j] = keys'[c][m] PROVE j = m
        OBVIOUS
      <4>1. j = i[c] \/ j \in 1 .. (i[c] - 1)
        BY <1>2
      <4>2. m = i[c] \/ m \in 1 .. (i[c] - 1)
        BY <1>2
      <4>3. \A a, b \in 1 .. (i[c] - 1) : keys[c][a] = keys[c][b] => a = b
        BY <1>2, <1>3 DEF KeysInv
      <4>4. CASE j = i[c]
        BY <2>6, <3>2, <4>2, <4>4
      <4>5. CASE j \in 1 .. (i[c] - 1)
        BY <2>6, <3>2, <4>2, <4>3, <4>5
      <4> QED
        BY <4>1, <4>4, <4>5
    <3> QED
      BY <1>2, <1>3, <1>4, <2>2, <2>5, <2>6, <3>1, <3>3 DEF KeysInv, Count, Working
  <2>8. ProgressInv(c)'
    BY <1>2, <1>3, <1>4, <2>1, <2>2, <2>5 DEF ProgressInv, Count, Working
  <2>9. DiskInv(c)'
    BY <1>3, <1>4, <2>2, <2>5 DEF DiskInv
  <2>10. \A d \in Calls \ {c} : phase'[d] = phase[d] /\ i'[d] = i[d] /\ keys'[d] = keys[d] /\ held'[c] \cap held[d] = {}
    BY <1>2, <1>3, <1>4, <2>1 DEF CallsTypeOK
  <2> QED
    BY <1>2, <1>3, <1>4, <2>1, <2>2, <2>4, <2>5, <2>7, <2>8, <2>9, <2>10, CallMoves DEF CallInv
<1> QED
  BY <1>5, <1>6

(* A key that is taken had no holder.                                       *)
LEMMA LockNextMoves ==
    ASSUME CallsInv, NEW c \in Calls, LockNext(c)
    PROVE  CallsInv'
<1>1. phase[c] = "lock"
  BY DEF LockNext
<1>2. /\ CallsTypeOK /\ KeysInv(c) /\ ProgressInv(c) /\ op[c] \in Ops /\ op[c] # NoOp
      /\ Count(c) \in Nat \ {0} /\ i[c] \in 1 .. Count(c)
  BY <1>1, UnderWay
<1>3. PICK k \in KeySet(c) \ held[c] :
        /\ PathLocks!Take(c, k)
        /\ phase' = [phase EXCEPT ![c] = IF KeySet(c) = held'[c] THEN "prepare" ELSE "lock"]
  BY DEF LockNext
<1>4. UNCHANGED <<disk, op, i, keys, seen, temps, result, touched, raced>>
  BY DEF LockNext
<1>5. held' = [held EXCEPT ![c] = held[c] \cup {k}] /\ \A d \in Calls : k \notin held[d]
  BY <1>2, <1>3 DEF PathLocks!Take, PathLocks!Holders, CallsTypeOK
<1>6. k \in Paths
  BY <1>2, TypedCall DEF KeySet
<1>7. held'[c] = held[c] \cup {k} /\ phase'[c] \in {"prepare", "lock"} /\ (phase'[c] = "prepare" => held'[c] = KeySet(c))
  BY <1>2, <1>3, <1>5 DEF CallsTypeOK
<1>8. CallsTypeOK'
  <2>1. held' \in [Calls -> SUBSET Paths]
    BY <1>2, <1>5, <1>6 DEF CallsTypeOK
  <2>2. phase' \in [Calls -> {"new", "resolve", "lock", "prepare", "stage", "check", "install",
                              "rollback", "release", "done"}]
    BY <1>2, <1>3 DEF CallsTypeOK
  <2> QED
    BY <1>2, <1>4, <2>1, <2>2 DEF CallsTypeOK
<1>9. seen[c] = <<>> /\ Len(seen[c]) = 0 /\ i[c] = 1 /\ temps[c] = {} /\ result[c] = "none"
  BY <1>1, <1>2 DEF ProgressInv
<1>10. KeysInv(c)'
  <2>1. held'[c] \subseteq KeySet(c) /\ KeySet(c)' = KeySet(c) /\ Count(c)' = Count(c)
    BY <1>1, <1>2, <1>3, <1>4, <1>7 DEF KeysInv, KeySet, Count
  <2> QED
    BY <1>1, <1>2, <1>4, <1>7, <2>1 DEF KeysInv, Working
<1>11. ProgressInv(c)'
  BY <1>2, <1>4, <1>7, <1>9 DEF ProgressInv, Count, Working
<1>12. DiskInv(c)'
  BY <1>4, <1>7, <1>9 DEF DiskInv
<1>13. \A d \in Calls \ {c} : phase'[d] = phase[d] /\ held'[d] = held[d] /\ held'[c] \cap held[d] = {}
  BY <1>2, <1>3, <1>5 DEF CallsTypeOK, CallsInv, OneHolderPerPath
<1> QED
  BY <1>2, <1>4, <1>7, <1>8, <1>9, <1>10, <1>11, <1>12, <1>13, CallMoves DEF CallInv

(* What is read is what the disk has, for the call holds the path.          *)
LEMMA PrepareMoves ==
    ASSUME CallsInv, NEW c \in Calls, Prepare(c)
    PROVE  CallsInv'
<1> DEFINE r == [entry |-> disk[Path(c)], content |-> disk[Path(c)]]
           ends == op[c].dry /\ Last(c)
           there == IF ends THEN "release" ELSE IF Last(c) THEN "stage" ELSE "prepare"
           next == IF ends THEN i[c] ELSE IF Last(c) THEN 1 ELSE i[c] + 1
           how == IF ends THEN "ok" ELSE "none"
<1>1. phase[c] = "prepare" /\ Working(c)
  BY DEF Prepare, Working
<1>2. /\ CallsTypeOK /\ KeysInv(c) /\ ProgressInv(c) /\ DiskInv(c) /\ op[c] \in Ops /\ op[c] # NoOp
      /\ Count(c) \in Nat \ {0} /\ i[c] \in 1 .. Count(c) /\ Path(c) \in Paths
      /\ disk[Path(c)] \in Plain /\ Followed(Path(c)) = disk[Path(c)]
  BY <1>1, UnderWay, NothingIsFollowed
<1>3. Len(seen[c]) = i[c] - 1 /\ temps[c] = {} /\ result[c] = "none" /\ held[c] = KeySet(c) /\ Len(keys[c]) = Count(c)
  BY <1>1, <1>2 DEF KeysInv, ProgressInv
<1>4. UNCHANGED <<disk, held, op, keys, temps, touched, raced>>
  BY DEF Prepare
<1>5. seen' = [seen EXCEPT ![c] = Append(seen[c], r)] /\ (op[c].kind = "patch" => disk[Path(c)].kind = "file")
  BY <1>2 DEF Prepare, CanPrepare
<1>6. /\ phase' = [phase EXCEPT ![c] = there] /\ i' = [i EXCEPT ![c] = next]
      /\ result' = [result EXCEPT ![c] = how]
  <2>1. CASE ends
    BY <1>2, <2>1 DEF Prepare, End, CallsTypeOK
  <2>2. CASE ~ends
    BY <1>2, <1>3, <2>2 DEF Prepare, Advance, CallsTypeOK
  <2> QED
    BY <2>1, <2>2
<1>7. /\ next \in 1 .. Count(c) /\ next \in Nat /\ how \in {"ok", "none"}
      /\ \/ there = "prepare" /\ next = i[c] + 1 /\ how = "none"
         \/ there = "stage" /\ i[c] = Count(c) /\ how = "none" /\ ~op[c].dry
         \/ there = "release" /\ i[c] = Count(c) /\ how = "ok" /\ op[c].dry
  BY <1>2 DEF Last
<1>8. seen[c] \in Seq([entry : Plain, content : Plain]) /\ r \in [entry : Plain, content : Plain]
  BY <1>2, TypedCall
<1>9. r.entry = disk[Path(c)] /\ r.content = disk[Path(c)]
  OBVIOUS
<1> HIDE DEF r, ends, there, next, how
<1>10. Append(seen[c], r) \in Seq([entry : Plain, content : Plain])
  BY <1>8
<1>11. phase'[c] = there /\ i'[c] = next /\ result'[c] = how /\ seen'[c] = Append(seen[c], r)
  BY <1>2, <1>5, <1>6 DEF CallsTypeOK
<1>12. /\ Len(seen'[c]) = i[c] /\ seen'[c][i[c]] = r /\ seen'[c] # <<>>
       /\ \A j \in 1 .. (i[c] - 1) : seen'[c][j] = seen[c][j]
  BY <1>2, <1>3, <1>8, <1>11
<1>13. CallsTypeOK'
  <2>1. seen' \in [Calls -> Seq([entry : Plain, content : Plain])]
    BY <1>2, <1>5, <1>10 DEF CallsTypeOK
  <2>2. i' \in [Calls -> Nat] /\ result' \in [Calls -> {"none", "ok", "failed", "rollback_failed"}]
    BY <1>2, <1>6, <1>7 DEF CallsTypeOK
  <2>3. phase' \in [Calls -> {"new", "resolve", "lock", "prepare", "stage", "check", "install",
                              "rollback", "release", "done"}]
    BY <1>2, <1>6, <1>7 DEF CallsTypeOK
  <2> QED
    BY <1>2, <1>4, <2>1, <2>2, <2>3 DEF CallsTypeOK
<1>14. KeysInv(c)'
  <2>1. KeySet(c)' = KeySet(c) /\ Count(c)' = Count(c)
    BY <1>4 DEF KeySet, Count
  <2> QED
    BY <1>2, <1>3, <1>4, <1>7, <1>11, <2>1 DEF KeysInv
<1>15. ProgressInv(c)'
  <2>1. \A j \in 1 .. Len(seen'[c]) :
          /\ seen'[c][j].entry = seen'[c][j].content
          /\ op[c].kind = "patch" => seen'[c][j].entry.kind = "file"
    <3> SUFFICES ASSUME NEW j \in 1 .. Len(seen'[c])
                 PROVE  /\ seen'[c][j].entry = seen'[c][j].content
                        /\ op[c].kind = "patch" => seen'[c][j].entry.kind = "file"
      OBVIOUS
    <3>1. CASE j = i[c]
      BY <1>5, <1>9, <1>12, <3>1
    <3>2. CASE j # i[c]
      <4>1. j \in 1 .. (i[c] - 1)
        BY <1>2, <1>12, <3>2
      <4> QED
        BY <1>2, <1>3, <1>12, <4>1 DEF ProgressInv
    <3> QED
      BY <3>1, <3>2
  <2>2. Count(c)' = Count(c) /\ Len(seen'[c]) <= Count(c)
    BY <1>2, <1>4, <1>12 DEF Count
  <2> QED
    BY <1>2, <1>3, <1>4, <1>7, <1>11, <1>12, <2>1, <2>2 DEF ProgressInv, Working
<1>16. DiskInv(c)'
  <2>1. \A j \in 1 .. Len(seen'[c]) : op[c].paths[j] \in touched \/ disk[op[c].paths[j]] = seen'[c][j].entry
    <3> SUFFICES ASSUME NEW j \in 1 .. Len(seen'[c])
                 PROVE  op[c].paths[j] \in touched \/ disk[op[c].paths[j]] = seen'[c][j].entry
      OBVIOUS
    <3>1. CASE j = i[c]
      BY <1>9, <1>12, <3>1 DEF Path
    <3>2. CASE j # i[c]
      <4>1. j \in 1 .. (i[c] - 1)
        BY <1>2, <1>12, <3>2
      <4>2. Expected(c, j) = seen[c][j].entry
        BY <1>1 DEF Expected
      <4> QED
        BY <1>1, <1>2, <1>3, <1>12, <4>1, <4>2 DEF DiskInv
    <3> QED
      BY <3>1, <3>2
  <2>2. \A j \in 1 .. Len(seen'[c]) : Expected(c, j)' = seen'[c][j].entry
    BY <1>4, <1>7, <1>11 DEF Expected
  <2> QED
    BY <1>4, <1>7, <1>11, <2>1, <2>2 DEF DiskInv
<1>17. \A d \in Calls \ {c} : /\ phase'[d] = phase[d] /\ i'[d] = i[d] /\ seen'[d] = seen[d] /\ result'[d] = result[d]
                              /\ held'[c] \cap held[d] = {}
  BY <1>2, <1>4, <1>5, <1>6 DEF CallsTypeOK, CallsInv, OneHolderPerPath
<1> QED
  BY <1>2, <1>3, <1>4, <1>7, <1>11, <1>13, <1>14, <1>15, <1>16, <1>17, CallMoves DEF CallInv

LEMMA StageMoves ==
    ASSUME CallsInv, NEW c \in Calls, Stage(c)
    PROVE  CallsInv'
<1> DEFINE there == IF Last(c) THEN "check" ELSE "stage"
           next == IF Last(c) THEN 1 ELSE i[c] + 1
<1>1. phase[c] = "stage" /\ Working(c)
  BY DEF Stage, Working
<1>2. /\ CallsTypeOK /\ KeysInv(c) /\ ProgressInv(c) /\ DiskInv(c) /\ op[c] \in Ops /\ op[c] # NoOp
      /\ Count(c) \in Nat \ {0} /\ i[c] \in 1 .. Count(c) /\ Path(c) \in Paths
  BY <1>1, UnderWay
<1>3. UNCHANGED <<disk, held, op, keys, seen, result, touched, raced>>
  BY DEF Stage
<1>4. /\ temps' = [temps EXCEPT ![c] = temps[c] \cup {Path(c)}]
      /\ phase' = [phase EXCEPT ![c] = there] /\ i' = [i EXCEPT ![c] = next]
  BY <1>2 DEF Stage, Advance, CallsTypeOK
<1>5. /\ next \in 1 .. Count(c) /\ next \in Nat /\ there \in {"check", "stage"}
      /\ there = "check" => next = 1
  BY <1>2 DEF Last
<1> HIDE DEF there, next
<1>6. phase'[c] = there /\ i'[c] = next /\ temps'[c] = temps[c] \cup {Path(c)}
  BY <1>2, <1>4 DEF CallsTypeOK
<1>7. CallsTypeOK'
  <2>1. i' \in [Calls -> Nat] /\ temps' \in [Calls -> SUBSET Paths]
    BY <1>2, <1>4, <1>5 DEF CallsTypeOK
  <2>2. phase' \in [Calls -> {"new", "resolve", "lock", "prepare", "stage", "check", "install",
                              "rollback", "release", "done"}]
    BY <1>2, <1>4, <1>5 DEF CallsTypeOK
  <2> QED
    BY <1>2, <1>3, <2>1, <2>2 DEF CallsTypeOK
<1>8. KeysInv(c)'
  <2>1. KeySet(c)' = KeySet(c) /\ Count(c)' = Count(c)
    BY <1>3 DEF KeySet, Count
  <2> QED
    BY <1>1, <1>2, <1>3, <1>5, <1>6, <2>1 DEF KeysInv
<1>9. ProgressInv(c)'
  <2>1. \A p \in temps'[c] : \E j \in 1 .. Count(c) : p = op[c].paths[j] /\ (there # "stage" => next <= j)
    BY <1>1, <1>2, <1>5, <1>6 DEF ProgressInv, Path
  <2>2. Count(c)' = Count(c)
    BY <1>3 DEF Count
  <2> QED
    BY <1>1, <1>2, <1>3, <1>5, <1>6, <2>1, <2>2 DEF ProgressInv, Working
<1>10. DiskInv(c)'
  <2>1. Len(seen[c]) \in Nat
    BY <1>2, TypedCall
  <2>2. \A j \in 1 .. Len(seen[c]) : Expected(c, j) = seen[c][j].entry /\ Expected(c, j)' = seen[c][j].entry
    BY <1>1, <1>2, <1>3, <1>5, <1>6, <2>1 DEF Expected
  <2> QED
    BY <1>1, <1>2, <1>3, <1>5, <1>6, <2>2 DEF DiskInv
<1>11. \A d \in Calls \ {c} : phase'[d] = phase[d] /\ i'[d] = i[d] /\ temps'[d] = temps[d] /\ held'[c] \cap held[d] = {}
  BY <1>2, <1>3, <1>4 DEF CallsTypeOK, CallsInv, OneHolderPerPath
<1> QED
  BY <1>2, <1>3, <1>5, <1>6, <1>7, <1>8, <1>9, <1>10, <1>11, CallMoves DEF CallInv

(* Nothing was installed yet: what was read is still there.                 *)
LEMMA FailEarlyMoves ==
    ASSUME CallsInv, NEW c \in Calls, FailEarly(c)
    PROVE  CallsInv'
<1>1. phase[c] \in {"resolve", "prepare", "stage"} /\ (phase[c] \in {"resolve", "lock"} \/ Working(c))
  BY DEF FailEarly, Working
<1>2. /\ CallsTypeOK /\ KeysInv(c) /\ ProgressInv(c) /\ DiskInv(c) /\ op[c] \in Ops /\ op[c] # NoOp
  BY <1>1, UnderWay
<1>3. /\ phase' = [phase EXCEPT ![c] = "release"] /\ result' = [result EXCEPT ![c] = "failed"]
      /\ temps' = [temps EXCEPT ![c] = {}] /\ UNCHANGED <<disk, held, op, i, keys, seen, touched, raced>>
  BY DEF FailEarly, End
<1>4. CallsTypeOK' /\ phase'[c] = "release" /\ result'[c] = "failed" /\ temps'[c] = {}
  BY <1>2, <1>3 DEF CallsTypeOK
<1>5. KeysInv(c)'
  BY <1>1, <1>2, <1>3, <1>4 DEF KeysInv, ProgressInv, Count, Working, KeySet
<1>6. ProgressInv(c)'
  BY <1>1, <1>2, <1>3, <1>4 DEF ProgressInv, Count, Working
<1>7. DiskInv(c)'
  <2>1. \A j \in 1 .. Len(seen[c]) : Expected(c, j) = seen[c][j].entry /\ Expected(c, j)' = seen[c][j].entry
    BY <1>1, <1>3, <1>4 DEF Expected
  <2>2. result[c] = "none"
    BY <1>1, <1>2 DEF ProgressInv
  <2> QED
    BY <1>1, <1>2, <1>3, <1>4, <2>1, <2>2 DEF DiskInv
<1>8. result[c] = "none"
  BY <1>1, <1>2 DEF ProgressInv
<1>9. \A d \in Calls \ {c} : /\ phase'[d] = phase[d] /\ result'[d] = result[d] /\ temps'[d] = temps[d]
                             /\ held'[c] \cap held[d] = {}
  BY <1>2, <1>3 DEF CallsTypeOK, CallsInv, OneHolderPerPath
<1> QED
  BY <1>2, <1>3, <1>4, <1>5, <1>6, <1>7, <1>8, <1>9, CallMoves DEF CallInv

(* How a call stands while it commits or rolls back: it has read all of its *)
(* files, as they were then, and its destinations are different paths.      *)
LEMMA Committing ==
    ASSUME CallsInv, NEW c \in Calls, phase[c] \in {"check", "install", "rollback"}
    PROVE  /\ CallsTypeOK /\ KeysInv(c) /\ ProgressInv(c) /\ DiskInv(c)
           /\ op[c] \in Ops /\ op[c] # NoOp
           /\ Count(c) \in Nat \ {0} /\ i[c] \in 1 .. Count(c) /\ Len(seen[c]) = Count(c)
           /\ Path(c) \in Paths /\ Path(c) \in held[c] /\ Path(c) = op[c].paths[i[c]]
           /\ Followed(Path(c)) = disk[Path(c)] /\ Seen(c) = seen[c][i[c]]
           /\ \A j \in 1 .. Count(c) : /\ seen[c][j].entry = seen[c][j].content
                                       /\ New(c, j) \in Plain /\ seen[c][j].entry \in Plain
           /\ \A j \in 1 .. Count(c) : j # i[c] => op[c].paths[j] # Path(c)
<1>1. Working(c)
  BY DEF Working
<1>2. /\ CallsTypeOK /\ KeysInv(c) /\ ProgressInv(c) /\ DiskInv(c) /\ op[c] \in Ops /\ op[c] # NoOp
      /\ Count(c) \in Nat \ {0} /\ i[c] \in 1 .. Count(c) /\ Path(c) \in Paths
  BY <1>1, UnderWay
<1>3. Len(seen[c]) = Count(c) /\ Len(keys[c]) = Count(c)
  BY <1>1, <1>2 DEF ProgressInv, KeysInv
<1>4. Path(c) = op[c].paths[i[c]] /\ Seen(c) = seen[c][i[c]] /\ Path(c) \in held[c]
  BY <1>2, <1>3, HoldsWhatItRead DEF Path, Seen
<1>5. \A j \in 1 .. Count(c) : j # i[c] => op[c].paths[j] # Path(c)
  BY <1>2, <1>3, <1>4 DEF KeysInv
<1>6. \A j \in 1 .. Count(c) : /\ seen[c][j].entry = seen[c][j].content
                               /\ New(c, j) \in Plain /\ seen[c][j].entry \in Plain
  <2> SUFFICES ASSUME NEW j \in 1 .. Count(c)
               PROVE  /\ seen[c][j].entry = seen[c][j].content
                      /\ New(c, j) \in Plain /\ seen[c][j].entry \in Plain
    OBVIOUS
  <2>1. seen[c][j].entry = seen[c][j].content /\ seen[c][j].content \in Plain
    BY <1>2, <1>3, TypedCall DEF ProgressInv
  <2>2. seen[c][j].content.edits \subseteq Calls \cup {Outside}
    BY <2>1 DEF Plain, Absent, File
  <2> QED
    BY <2>1, <2>2 DEF New, Plain
<1> QED
  BY <1>2, <1>3, <1>4, <1>5, <1>6, NothingIsFollowed

(* The check compares the file with what was read.                          *)
LEMMA CheckMoves ==
    ASSUME CallsInv, NEW c \in Calls, Check(c)
    PROVE  CallsInv'
<1>1. phase[c] = "check" /\ Unchanged(c) /\ phase' = [phase EXCEPT ![c] = "install"]
      /\ UNCHANGED <<disk, held, op, i, keys, seen, temps, result, touched, raced>>
  BY DEF Check
<1>2. /\ CallsTypeOK /\ KeysInv(c) /\ ProgressInv(c) /\ DiskInv(c) /\ op[c] \in Ops /\ op[c] # NoOp
      /\ Count(c) \in Nat \ {0} /\ i[c] \in 1 .. Count(c) /\ Len(seen[c]) = Count(c)
      /\ Followed(Path(c)) = disk[Path(c)] /\ Seen(c) = seen[c][i[c]] /\ Seen(c).entry = Seen(c).content
  BY <1>1, Committing
<1>3. CallsTypeOK' /\ phase'[c] = "install"
  BY <1>1, <1>2 DEF CallsTypeOK
<1>4. disk[Path(c)] = Seen(c).entry
  BY <1>1, <1>2 DEF Unchanged
<1>5. KeysInv(c)' /\ ProgressInv(c)'
  BY <1>1, <1>2, <1>3 DEF KeysInv, ProgressInv, Count, Working, KeySet
<1>6. DiskInv(c)'
  <2>1. \A j \in 1 .. Len(seen[c]) : Expected(c, j)' = Expected(c, j)
    BY <1>1, <1>3 DEF Expected, New
  <2>2. result[c] = "none"
    BY <1>1, <1>2 DEF ProgressInv, Working
  <2> QED
    BY <1>1, <1>2, <1>3, <1>4, <2>1, <2>2 DEF DiskInv, Path, Seen
<1>7. \A d \in Calls \ {c} : phase'[d] = phase[d] /\ held'[c] \cap held[d] = {}
  BY <1>1, <1>2 DEF CallsTypeOK, CallsInv, OneHolderPerPath
<1> QED
  BY <1>1, <1>2, <1>3, <1>5, <1>6, <1>7, CallMoves DEF CallInv

(* A patch keeps the edits that are in the file, a write says that it has   *)
(* replaced them.                                                           *)
LEMMA InstallMoves ==
    ASSUME CallsInv, NEW c \in Calls, Install(c)
    PROVE  CallsInv'
<1> DEFINE there == IF Last(c) THEN "release" ELSE "check"
           next == IF Last(c) THEN i[c] ELSE i[c] + 1
           how == IF Last(c) THEN "ok" ELSE "none"
<1>1. phase[c] = "install" /\ Working(c)
  BY DEF Install, Working
<1>2. /\ CallsTypeOK /\ KeysInv(c) /\ ProgressInv(c) /\ DiskInv(c) /\ op[c] \in Ops /\ op[c] # NoOp
      /\ Count(c) \in Nat \ {0} /\ i[c] \in 1 .. Count(c) /\ Len(seen[c]) = Count(c)
      /\ Path(c) \in Paths /\ Path(c) \in held[c] /\ Path(c) = op[c].paths[i[c]]
      /\ \A j \in 1 .. Count(c) : /\ seen[c][j].entry = seen[c][j].content
                                  /\ New(c, j) \in Plain /\ seen[c][j].entry \in Plain
      /\ \A j \in 1 .. Count(c) : j # i[c] => op[c].paths[j] # Path(c)
  BY <1>1, Committing
<1>3. result[c] = "none" /\ ~op[c].dry /\ Len(keys[c]) = Count(c) /\ held[c] = KeySet(c)
  BY <1>1, <1>2 DEF KeysInv, ProgressInv
<1>4. /\ disk' = [disk EXCEPT ![Path(c)] = New(c, i[c])]
      /\ temps' = [temps EXCEPT ![c] = temps[c] \ {Path(c)}]
      /\ UNCHANGED <<held, op, keys, seen, touched, raced>>
  BY <1>2 DEF Install, CallsTypeOK
<1>5. /\ phase' = [phase EXCEPT ![c] = there] /\ i' = [i EXCEPT ![c] = next]
      /\ result' = [result EXCEPT ![c] = how]
  <2>1. CASE Last(c)
    BY <1>2, <2>1 DEF Install, End, CallsTypeOK
  <2>2. CASE ~Last(c)
    BY <1>2, <1>3, <2>2 DEF Install, Advance, CallsTypeOK
  <2> QED
    BY <2>1, <2>2
<1>6. /\ next \in 1 .. Count(c) /\ next \in Nat /\ how \in {"ok", "none"}
      /\ \/ there = "check" /\ next = i[c] + 1 /\ how = "none"
         \/ there = "release" /\ i[c] = Count(c) /\ how = "ok"
  BY <1>2 DEF Last
<1> HIDE DEF there, next, how
<1>7. phase'[c] = there /\ i'[c] = next /\ result'[c] = how /\ temps'[c] = temps[c] \ {Path(c)}
  BY <1>2, <1>4, <1>5 DEF CallsTypeOK
<1>8. CallsTypeOK'
  <2>1. disk' \in [Paths -> Plain] /\ temps' \in [Calls -> SUBSET Paths]
    BY <1>2, <1>4 DEF CallsTypeOK
  <2>2. i' \in [Calls -> Nat] /\ result' \in [Calls -> {"none", "ok", "failed", "rollback_failed"}]
    BY <1>2, <1>5, <1>6 DEF CallsTypeOK
  <2>3. phase' \in [Calls -> {"new", "resolve", "lock", "prepare", "stage", "check", "install",
                              "rollback", "release", "done"}]
    BY <1>2, <1>5, <1>6 DEF CallsTypeOK
  <2> QED
    BY <1>2, <1>4, <2>1, <2>2, <2>3 DEF CallsTypeOK
<1>9. KeysInv(c)'
  <2>1. KeySet(c)' = KeySet(c) /\ Count(c)' = Count(c)
    BY <1>4 DEF KeySet, Count
  <2> QED
    BY <1>1, <1>2, <1>3, <1>4, <1>6, <1>7, <2>1 DEF KeysInv
<1>10. ProgressInv(c)'
  <2>1. \A p \in temps'[c] : \E j \in 1 .. Count(c) : p = op[c].paths[j] /\ i[c] < j
    <3> SUFFICES ASSUME NEW p \in temps'[c] PROVE \E j \in 1 .. Count(c) : p = op[c].paths[j] /\ i[c] < j
      OBVIOUS
    <3>1. PICK j \in 1 .. Count(c) : p = op[c].paths[j] /\ i[c] <= j
      BY <1>1, <1>2, <1>7 DEF ProgressInv
    <3>2. j # i[c]
      BY <1>2, <1>7, <3>1
    <3> QED
      BY <1>2, <3>1, <3>2
  <2>2. there = "release" => temps'[c] = {}
    BY <1>2, <1>6, <2>1
  <2>3. Count(c)' = Count(c)
    BY <1>4 DEF Count
  <2>4. \A p \in temps'[c] : \E j \in 1 .. Count(c) : p = op[c].paths[j] /\ next <= j
    BY <1>2, <1>6, <2>1
  <2> QED
    BY <1>1, <1>2, <1>3, <1>4, <1>6, <1>7, <2>2, <2>3, <2>4 DEF ProgressInv, Working
<1>11. DiskInv(c)'
  <2>1. ASSUME NEW j \in 1 .. Count(c)
        PROVE  op[c].paths[j] \in touched' \/ disk'[op[c].paths[j]] = Expected(c, j)'
    <3>1. Expected(c, j)' = IF j <= i[c] THEN New(c, j) ELSE seen[c][j].entry
      BY <1>2, <1>3, <1>4, <1>6, <1>7 DEF Expected, New
    <3>2. CASE j = i[c]
      <4>1. Path(c) \in DOMAIN disk
        BY <1>2 DEF CallsTypeOK
      <4> QED
        BY <1>2, <1>4, <3>1, <3>2, <4>1
    <3>3. CASE j # i[c]
      <4>1. disk'[op[c].paths[j]] = disk[op[c].paths[j]]
        <5>1. op[c].paths[j] \in Paths
          BY <1>2, AskedFor DEF Count
        <5> QED
          BY <1>2, <1>4, <3>3, <5>1 DEF CallsTypeOK
      <4>2. Expected(c, j) = IF j <= i[c] THEN New(c, j) ELSE seen[c][j].entry
        BY <1>1, <1>2, <3>3 DEF Expected
      <4>3. op[c].paths[j] \in touched \/ disk[op[c].paths[j]] = Expected(c, j)
        BY <1>1, <1>2, <1>3 DEF DiskInv
      <4> QED
        BY <1>4, <3>1, <4>1, <4>2, <4>3
    <3> QED
      BY <3>2, <3>3
  <2>2. Len(seen'[c]) = Count(c) /\ op'[c] = op[c] /\ phase'[c] # "install"
    BY <1>2, <1>4, <1>6, <1>7
  <2> QED
    BY <2>1, <2>2 DEF DiskInv
<1>12. \A p \in Paths :
          \/ disk'[p] = disk[p]
          \/ /\ p \in held[c]
             /\ \A x \in Calls \ {c} :
                   x \in disk[p].edits => \/ x \in disk'[p].edits \/ p \in touched
                                          \/ op'[c].kind = "write" /\ op'[c].paths[1] = p /\ result'[c] = "ok"
  <2> SUFFICES ASSUME NEW x \in Calls \ {c}, x \in disk[Path(c)].edits, Path(c) \notin touched
               PROVE  \/ x \in disk'[Path(c)].edits
                      \/ op'[c].kind = "write" /\ op'[c].paths[1] = Path(c) /\ result'[c] = "ok"
    BY <1>2, <1>4 DEF CallsTypeOK
  <2>1. CASE op[c].kind = "write"
    <3>1. Count(c) = 1
      BY <1>2, <2>1, AskedFor DEF Count
    <3> QED
      BY <1>2, <1>4, <1>6, <1>7, <2>1, <3>1
  <2>2. CASE op[c].kind # "write"
    <3>1. disk'[Path(c)] = File(seen[c][i[c]].content.edits \cup {c})
      BY <1>2, <1>4, <2>2 DEF New, CallsTypeOK
    <3>2. Expected(c, i[c]) = seen[c][i[c]].entry
      BY <1>1, <1>2 DEF Expected
    <3>3. disk[Path(c)] = seen[c][i[c]].content
      BY <1>1, <1>2, <1>3, <3>2 DEF DiskInv
    <3> QED
      BY <3>1, <3>3 DEF File
  <2> QED
    BY <2>1, <2>2
<1>13. \A d \in Calls \ {c} : /\ phase'[d] = phase[d] /\ i'[d] = i[d] /\ temps'[d] = temps[d] /\ result'[d] = result[d]
                              /\ held'[c] \cap held[d] = {}
  BY <1>2, <1>4, <1>5 DEF CallsTypeOK, CallsInv, OneHolderPerPath
<1> QED
  BY <1>2, <1>3, <1>4, <1>6, <1>7, <1>8, <1>9, <1>10, <1>11, <1>12, <1>13, CallMoves DEF CallInv

LEMMA FailCommitMoves ==
    ASSUME CallsInv, NEW c \in Calls, FailCommit(c)
    PROVE  CallsInv'
<1> DEFINE there == IF i[c] = 1 THEN "release" ELSE "rollback"
           next == IF i[c] = 1 THEN i[c] ELSE i[c] - 1
           how == IF i[c] = 1 THEN "failed" ELSE "none"
<1>1. phase[c] \in {"check", "install"} /\ Working(c)
  BY DEF FailCommit, Working
<1>2. /\ CallsTypeOK /\ KeysInv(c) /\ ProgressInv(c) /\ DiskInv(c) /\ op[c] \in Ops /\ op[c] # NoOp
      /\ Count(c) \in Nat \ {0} /\ i[c] \in 1 .. Count(c) /\ Len(seen[c]) = Count(c)
  BY <1>1, Committing
<1>3. result[c] = "none" /\ ~op[c].dry /\ Len(keys[c]) = Count(c) /\ held[c] = KeySet(c)
  BY <1>1, <1>2 DEF KeysInv, ProgressInv
<1>4. temps' = [temps EXCEPT ![c] = {}] /\ UNCHANGED <<disk, held, op, keys, seen, touched, raced>>
  BY DEF FailCommit
<1>5. /\ phase' = [phase EXCEPT ![c] = there] /\ i' = [i EXCEPT ![c] = next]
      /\ result' = [result EXCEPT ![c] = how]
  <2>1. CASE i[c] = 1
    BY <1>2, <2>1 DEF FailCommit, End, CallsTypeOK
  <2>2. CASE i[c] # 1
    BY <1>2, <1>3, <2>2 DEF FailCommit, CallsTypeOK
  <2> QED
    BY <2>1, <2>2
<1>6. /\ next \in 1 .. Count(c) /\ next \in Nat /\ how \in {"failed", "none"}
      /\ \/ there = "rollback" /\ next = i[c] - 1 /\ how = "none"
         \/ there = "release" /\ i[c] = 1 /\ how = "failed"
  BY <1>2
<1> HIDE DEF there, next, how
<1>7. phase'[c] = there /\ i'[c] = next /\ result'[c] = how /\ temps'[c] = {}
  BY <1>2, <1>4, <1>5 DEF CallsTypeOK
<1>8. CallsTypeOK'
  <2>1. i' \in [Calls -> Nat] /\ result' \in [Calls -> {"none", "ok", "failed", "rollback_failed"}]
    BY <1>2, <1>5, <1>6 DEF CallsTypeOK
  <2>2. phase' \in [Calls -> {"new", "resolve", "lock", "prepare", "stage", "check", "install",
                              "rollback", "release", "done"}]
    BY <1>2, <1>5, <1>6 DEF CallsTypeOK
  <2> QED
    BY <1>2, <1>4, <2>1, <2>2 DEF CallsTypeOK
<1>9. Count(c)' = Count(c) /\ KeySet(c)' = KeySet(c)
  BY <1>4 DEF Count, KeySet
<1>10. KeysInv(c)'
  BY <1>1, <1>2, <1>3, <1>4, <1>6, <1>7, <1>9 DEF KeysInv
<1>11. ProgressInv(c)'
  BY <1>1, <1>2, <1>3, <1>4, <1>6, <1>7, <1>9 DEF ProgressInv, Working
<1>12. DiskInv(c)'
  <2>1. \A j \in 1 .. Count(c) : Expected(c, j)' = Expected(c, j)
    BY <1>1, <1>2, <1>4, <1>6, <1>7 DEF Expected, New
  <2> QED
    BY <1>1, <1>2, <1>3, <1>4, <1>6, <1>7, <2>1 DEF DiskInv
<1>13. \A d \in Calls \ {c} : /\ phase'[d] = phase[d] /\ i'[d] = i[d] /\ temps'[d] = temps[d] /\ result'[d] = result[d]
                              /\ held'[c] \cap held[d] = {}
  BY <1>2, <1>4, <1>5 DEF CallsTypeOK, CallsInv, OneHolderPerPath
<1> QED
  BY <1>2, <1>3, <1>4, <1>6, <1>7, <1>8, <1>10, <1>11, <1>12, <1>13, CallMoves DEF CallInv

(* A file that is restored was there, for only a patch of several files has *)
(* installed one before it fails; the others' edits were in what it read.   *)
LEMMA RestoreMoves ==
    ASSUME CallsInv, NEW c \in Calls, Restore(c) \/ RestoreFails(c)
    PROVE  CallsInv'
<1> DEFINE how == IF Restore(c) THEN Verdict(c) ELSE "rollback_failed"
           there == IF i[c] = 1 THEN "release" ELSE "rollback"
           next == IF i[c] = 1 THEN i[c] ELSE i[c] - 1
<1>1. phase[c] = "rollback" /\ Working(c)
  BY DEF Restore, RestoreFails, Working
<1>2. /\ CallsTypeOK /\ KeysInv(c) /\ ProgressInv(c) /\ DiskInv(c) /\ op[c] \in Ops /\ op[c] # NoOp
      /\ Count(c) \in Nat \ {0} /\ i[c] \in 1 .. Count(c) /\ Len(seen[c]) = Count(c)
      /\ Path(c) \in Paths /\ Path(c) \in held[c] /\ Path(c) = op[c].paths[i[c]] /\ Seen(c) = seen[c][i[c]]
      /\ \A j \in 1 .. Count(c) : seen[c][j].entry = seen[c][j].content /\ seen[c][j].entry \in Plain
      /\ \A j \in 1 .. Count(c) : j # i[c] => op[c].paths[j] # Path(c)
  BY <1>1, Committing
<1>3. /\ result[c] # "ok" /\ ~op[c].dry /\ Len(keys[c]) = Count(c) /\ held[c] = KeySet(c) /\ temps[c] = {}
      /\ i[c] < Count(c)
  BY <1>1, <1>2 DEF KeysInv, ProgressInv
<1>4. op[c].kind = "patch"
  BY <1>2, <1>3, AskedFor DEF Count
<1>5. File(Seen(c).content.edits) = Seen(c).entry
  <2>1. Seen(c).entry = Seen(c).content /\ Seen(c).entry.kind = "file" /\ Seen(c).entry \in Plain
    BY <1>2, <1>4 DEF ProgressInv
  <2> QED
    BY <2>1 DEF Plain, File, Absent
<1>6. /\ RestoreNext(c, how) /\ UNCHANGED <<held, op, keys, seen, temps, touched, raced>>
      /\ \/ how = "rollback_failed" /\ disk' = disk
         \/ disk' = [disk EXCEPT ![Path(c)] = Seen(c).entry]
  BY <1>5 DEF Restore, RestoreFails, RestoreNext
<1>7. how \in {"failed", "rollback_failed"} /\ (result[c] = "rollback_failed" => how = "rollback_failed")
  BY DEF Verdict
<1> HIDE DEF how
<1>8. /\ phase' = [phase EXCEPT ![c] = there] /\ i' = [i EXCEPT ![c] = next]
      /\ result' = [result EXCEPT ![c] = how]
  <2>1. CASE i[c] = 1
    BY <1>2, <1>6, <2>1 DEF RestoreNext, End, CallsTypeOK
  <2>2. CASE i[c] # 1
    BY <1>1, <1>2, <1>6, <2>2 DEF RestoreNext, CallsTypeOK
  <2> QED
    BY <2>1, <2>2
<1>9. /\ next \in 1 .. Count(c) /\ next \in Nat
      /\ \/ there = "rollback" /\ next = i[c] - 1
         \/ there = "release" /\ i[c] = 1
  BY <1>2
<1> HIDE DEF there, next
<1>10. phase'[c] = there /\ i'[c] = next /\ result'[c] = how
  BY <1>2, <1>8 DEF CallsTypeOK
<1>11. CallsTypeOK'
  <2>1. disk' \in [Paths -> Plain]
    BY <1>2, <1>6 DEF CallsTypeOK
  <2>2. i' \in [Calls -> Nat] /\ result' \in [Calls -> {"none", "ok", "failed", "rollback_failed"}]
    BY <1>2, <1>7, <1>8, <1>9 DEF CallsTypeOK
  <2>3. phase' \in [Calls -> {"new", "resolve", "lock", "prepare", "stage", "check", "install",
                              "rollback", "release", "done"}]
    BY <1>2, <1>8, <1>9 DEF CallsTypeOK
  <2> QED
    BY <1>2, <1>6, <2>1, <2>2, <2>3 DEF CallsTypeOK
<1>12. Count(c)' = Count(c) /\ KeySet(c)' = KeySet(c)
  BY <1>6 DEF Count, KeySet
<1>13. KeysInv(c)'
  BY <1>1, <1>2, <1>3, <1>6, <1>9, <1>10, <1>12 DEF KeysInv
<1>14. ProgressInv(c)'
  BY <1>1, <1>2, <1>3, <1>6, <1>7, <1>9, <1>10, <1>12 DEF ProgressInv, Working
<1>15. DiskInv(c)'
  <2>1. ASSUME NEW j \in 1 .. Count(c)
        PROVE  \/ op[c].paths[j] \in touched' \/ disk'[op[c].paths[j]] = Expected(c, j)'
               \/ result'[c] = "rollback_failed" /\ (phase'[c] = "rollback" => i'[c] < j)
    <3>1. Expected(c, j)' = IF j < i[c] THEN New(c, j) ELSE seen[c][j].entry
      BY <1>2, <1>3, <1>6, <1>7, <1>9, <1>10 DEF Expected, New
    <3>2. CASE j = i[c]
      <4>1. Path(c) \in DOMAIN disk
        BY <1>2 DEF CallsTypeOK
      <4> QED
        BY <1>2, <1>6, <1>9, <1>10, <3>1, <3>2, <4>1
    <3>3. CASE j # i[c]
      <4>1. op[c].paths[j] \in Paths
        BY <1>2, AskedFor DEF Count
      <4>2. disk'[op[c].paths[j]] = disk[op[c].paths[j]]
        BY <1>2, <1>6, <3>3, <4>1 DEF CallsTypeOK
      <4>3. Expected(c, j) = IF j < i[c] THEN New(c, j) ELSE seen[c][j].entry
        BY <1>1, <1>2, <3>3 DEF Expected
      <4>4. \/ op[c].paths[j] \in touched \/ disk[op[c].paths[j]] = Expected(c, j)
            \/ result[c] = "rollback_failed" /\ i[c] < j
        BY <1>1, <1>2 DEF DiskInv
      <4> QED
        BY <1>2, <1>6, <1>7, <1>9, <1>10, <3>1, <4>2, <4>3, <4>4
    <3> QED
      BY <3>2, <3>3
  <2>2. Len(seen'[c]) = Count(c) /\ op'[c] = op[c] /\ phase'[c] # "install"
    BY <1>2, <1>6, <1>9, <1>10
  <2> QED
    BY <2>1, <2>2 DEF DiskInv
<1>16. \A p \in Paths :
          \/ disk'[p] = disk[p]
          \/ /\ p \in held[c]
             /\ \A x \in Calls \ {c} : x \in disk[p].edits => x \in disk'[p].edits \/ p \in touched
  <2> SUFFICES ASSUME NEW x \in Calls \ {c}, x \in disk[Path(c)].edits, Path(c) \notin touched,
                      disk' = [disk EXCEPT ![Path(c)] = Seen(c).entry]
               PROVE  x \in disk'[Path(c)].edits
    BY <1>2, <1>6 DEF CallsTypeOK
  <2>1. Expected(c, i[c]) = New(c, i[c])
    BY <1>1, <1>2 DEF Expected
  <2>2. disk[Path(c)] = New(c, i[c])
    BY <1>1, <1>2, <2>1 DEF DiskInv
  <2>3. x \in Seen(c).content.edits
    BY <1>2, <1>4, <2>2 DEF New, File
  <2> QED
    BY <1>2, <2>3 DEF CallsTypeOK
<1>17. \A d \in Calls \ {c} : /\ phase'[d] = phase[d] /\ i'[d] = i[d] /\ result'[d] = result[d]
                              /\ held'[c] \cap held[d] = {}
  BY <1>2, <1>6, <1>8 DEF CallsTypeOK, CallsInv, OneHolderPerPath
<1> QED
  BY <1>2, <1>3, <1>6, <1>9, <1>10, <1>11, <1>13, <1>14, <1>15, <1>16, <1>17, CallMoves DEF CallInv

LEMMA ReleaseMoves ==
    ASSUME CallsInv, NEW c \in Calls, Release(c)
    PROVE  CallsInv'
<1>1. phase[c] = "release" /\ phase' = [phase EXCEPT ![c] = "done"]
      /\ UNCHANGED <<disk, op, i, keys, seen, temps, result, touched, raced>>
  BY DEF Release
<1>2. CallsTypeOK /\ KeysInv(c) /\ ProgressInv(c)
  BY DEF CallsInv, CallInv
<1>3. held' = [held EXCEPT ![c] = {}]
  BY <1>2 DEF Release, PathLocks!Drop, CallsTypeOK
<1>4. CallsTypeOK' /\ phase'[c] = "done" /\ held'[c] = {}
  BY <1>1, <1>2, <1>3 DEF CallsTypeOK
<1>5. KeysInv(c)'
  BY <1>1, <1>2, <1>4 DEF KeysInv, Count, Working, KeySet
<1>6. ProgressInv(c)'
  BY <1>1, <1>2, <1>4 DEF ProgressInv, Count, Working
<1>7. DiskInv(c)'
  BY <1>4 DEF DiskInv
<1>8. \A d \in Calls \ {c} : phase'[d] = phase[d] /\ held'[d] = held[d] /\ held'[c] \cap held[d] = {}
  BY <1>1, <1>2, <1>3, <1>4 DEF CallsTypeOK
<1> QED
  BY <1>1, <1>4, <1>5, <1>6, <1>7, <1>8, CallMoves DEF CallInv

(* Another process is remembered for the path it has changed.               *)
LEMMA OutsideMoves ==
    ASSUME CallsInv, NEW p \in Paths, ChangeOutside(p)
    PROVE  CallsInv'
<1>1. /\ touched' = touched \cup {p} /\ raced \subseteq raced' /\ raced' \subseteq touched'
      /\ UNCHANGED <<held, phase, op, i, keys, seen, temps, result>>
      /\ \A c \in Calls : phase[c] = "install" /\ Path(c) = p => p \in raced'
  BY DEF ChangeOutside, CallsInv, CallsTypeOK
<1>2. PICK entry \in {File({Outside}), Absent} : disk' = [disk EXCEPT ![p] = entry]
  BY DEF ChangeOutside
<1>3. entry \in Plain
  BY <1>2 DEF Plain
<1>4. CallsTypeOK' /\ OneHolderPerPath'
  BY <1>1, <1>2, <1>3 DEF CallsInv, CallsTypeOK, OneHolderPerPath
<1>5. \A q \in Paths : disk'[q] = disk[q] \/ q = p
  BY <1>2 DEF CallsInv, CallsTypeOK
<1>6. \A d \in Calls : CallInv(d)'
  <2> SUFFICES ASSUME NEW d \in Calls PROVE CallInv(d)'
    OBVIOUS
  <2>1. held[d] \subseteq Paths
    BY TypedCall DEF CallsInv
  <2> QED
    BY <1>1, <1>5, <2>1, Undisturbed
<1>7. PatchesSurvive'
  <2> SUFFICES ASSUME NEW x \in Calls, Succeeded(x), op[x].kind = "patch", NEW j \in 1 .. Count(x),
                      op[x].paths[j] \notin touched'
               PROVE  \/ x \in disk'[op[x].paths[j]].edits
                      \/ \E d \in Calls \ {x} : op[d].kind = "write" /\ op[d].paths[1] = op[x].paths[j] /\ result[d] = "ok"
    BY <1>1 DEF PatchesSurvive, Succeeded, Count
  <2>1. op[x] \in Ops
    BY TypedCall DEF CallsInv, CallInv, ProgressInv, Succeeded
  <2>2. op[x].paths[j] \in Paths
    BY <2>1, AskedFor DEF Count
  <2>3. disk'[op[x].paths[j]] = disk[op[x].paths[j]]
    BY <1>1, <1>5, <2>2
  <2> QED
    BY <1>1, <2>3 DEF CallsInv, PatchesSurvive
<1> QED
  BY <1>4, <1>6, <1>7 DEF CallsInv

LEMMA CallsInitially ==
    ASSUME DOMAIN Links = {}, CallsInit
    PROVE  CallsInv
<1> USE DEF CallsInit, PathLocks!Init
<1>1. CallsTypeOK
  <2>1. PICK M \in SUBSET Optional : disk = [p \in Paths |-> IF p \in M THEN Absent ELSE File({})]
    OBVIOUS
  <2>2. disk \in [Paths -> Plain]
    BY <2>1 DEF Plain
  <2>3. \A S : <<>> \in Seq(S)
    OBVIOUS
  <2> QED
    BY <2>2, <2>3 DEF CallsTypeOK
<1>2. OneHolderPerPath /\ PatchesSurvive
  BY DEF OneHolderPerPath, PatchesSurvive, Succeeded
<1>3. ASSUME NEW c \in Calls PROVE CallInv(c)
  <2>1. /\ phase[c] = "new" /\ op[c] = NoOp /\ keys[c] = <<>> /\ seen[c] = <<>> /\ held[c] = {} /\ temps[c] = {}
        /\ result[c] = "none" /\ Len(keys[c]) = 0 /\ Len(seen[c]) = 0
    OBVIOUS
  <2>2. Count(c) = 0
    BY <2>1 DEF Count, NoOp
  <2> QED
    BY <2>1, <2>2 DEF CallInv, KeysInv, ProgressInv, DiskInv, Working
<1> QED
  BY <1>1, <1>2, <1>3 DEF CallsInv

LEMMA CallsStep == CallsInv /\ [CallsNext]_callVars => CallsInv'
<1> SUFFICES ASSUME CallsInv, [CallsNext]_callVars PROVE CallsInv'
  OBVIOUS
<1>1. CASE UNCHANGED callVars
  <2>1. \A d \in Calls : CallInv(d)'
    BY <1>1, Undisturbed DEF callVars
  <2>2. CallsTypeOK' /\ OneHolderPerPath'
    BY <1>1 DEF callVars, CallsInv, CallsTypeOK, OneHolderPerPath
  <2>3. PatchesSurvive'
    BY <1>1 DEF callVars, CallsInv, PatchesSurvive, Succeeded, Count
  <2> QED
    BY <2>1, <2>2, <2>3 DEF CallsInv
<1>2. ASSUME NEW c \in Calls, CallStep(c) PROVE CallsInv'
  BY <1>2, ResolveMoves, LockNextMoves, PrepareMoves, StageMoves, FailEarlyMoves, CheckMoves, InstallMoves,
     FailCommitMoves, RestoreMoves, ReleaseMoves DEF CallStep
<1> QED
  BY <1>1, <1>2, BeginMoves, OutsideMoves DEF CallsNext

(* CallsInv is inductive.                                                   *)
THEOREM CallsInvHolds ==
    ASSUME DOMAIN Links = {}
    PROVE  CallsSpec => []CallsInv
<1>1. CallsInit => CallsInv
  BY CallsInitially
<1> QED
  BY <1>1, CallsStep, PTL DEF CallsSpec

(* Without links two calls never work on one destination at once            *)
(* (PathMutationCoordinator.acquire, mutation_key).                         *)
THEOREM DestinationsAreSerialized ==
    ASSUME DOMAIN Links = {}
    PROVE  CallsSpec => []SamePathIsSerialized
<1>1. CallsInv => SamePathIsSerialized
  <2> SUFFICES ASSUME CallsInv, NEW c \in Calls, NEW d \in Calls, c # d, Working(c), Working(d),
                      NEW j \in 1 .. Count(c), NEW m \in 1 .. Count(d)
               PROVE  op[c].paths[j] # op[d].paths[m]
    BY DEF SamePathIsSerialized
  <2>1. \A x \in Calls, k \in Nat : Working(x) /\ k \in 1 .. Count(x) => op[x].paths[k] \in held[x]
    <3> SUFFICES ASSUME NEW x \in Calls, NEW k \in 1 .. Count(x), Working(x) PROVE op[x].paths[k] \in held[x]
      OBVIOUS
    <3>1. KeysInv(x) /\ Count(x) \in Nat
      BY UnderWay
    <3> QED
      BY <3>1 DEF KeysInv, KeySet
  <2>2. Count(c) \in Nat /\ Count(d) \in Nat
    BY UnderWay
  <2> QED
    BY <2>1, <2>2 DEF CallsInv, OneHolderPerPath
<1> QED
  BY <1>1, CallsInvHolds, PTL

(* A call that is over has changed all of its files or none, or says that   *)
(* it could not undo what it did (commit, finish_commit_failure).           *)
THEOREM CallsAreAtomic ==
    ASSUME DOMAIN Links = {}
    PROVE  CallsSpec => []AllOrNothing
<1>1. CallsInv => AllOrNothing
  <2> SUFFICES ASSUME CallsInv, NEW c \in Calls, phase[c] = "release"
               PROVE  /\ result[c] = "ok" /\ ~op[c].dry =>
                           \A j \in 1 .. Len(seen[c]) : op[c].paths[j] \in touched \/ disk[op[c].paths[j]] = New(c, j)
                      /\ result[c] = "failed" \/ op[c].dry =>
                           \A j \in 1 .. Len(seen[c]) : op[c].paths[j] \in touched \/ disk[op[c].paths[j]] = seen[c][j].entry
                      /\ temps[c] = {}
    BY DEF AllOrNothing, Holds
  <2>1. ProgressInv(c) /\ DiskInv(c)
    BY DEF CallsInv, CallInv
  <2>2. temps[c] = {} /\ (result[c] = "failed" \/ op[c].dry => result[c] # "rollback_failed")
    BY <2>1 DEF ProgressInv
  <2>3. \A j \in 1 .. Len(seen[c]) : \/ op[c].paths[j] \in touched \/ disk[op[c].paths[j]] = Expected(c, j)
                                     \/ result[c] = "rollback_failed"
    BY <2>1 DEF DiskInv
  <2>4. \A j \in 1 .. Len(seen[c]) :
           Expected(c, j) = IF result[c] = "ok" /\ ~op[c].dry THEN New(c, j) ELSE seen[c][j].entry
    BY DEF Expected
  <2> QED
    BY <2>2, <2>3, <2>4
<1> QED
  BY <1>1, CallsInvHolds, PTL

(* No other patch, and no rollback, takes out of a file what a successful   *)
(* patch has put there.                                                     *)
THEOREM PatchesStay ==
    ASSUME DOMAIN Links = {}
    PROVE  CallsSpec => []PatchesSurvive
<1>1. CallsInv => PatchesSurvive
  BY DEF CallsInv
<1> QED
  BY <1>1, CallsInvHolds, PTL

(* What is replaced is what was read, and nothing that was not read is      *)
(* replaced (revalidate_hash, revalidate_prepared, install_replacement).    *)
THEOREM OnlyWhatWasRead ==
    ASSUME DOMAIN Links = {}
    PROVE  CallsSpec => ReplacesWhatItRead
<1>1. CallsInv /\ [CallsNext]_callVars =>
        [\A c \in Calls : phase[c] = "install" /\ Acts(c) /\ disk' # disk =>
           /\ Path(c) \notin raced => disk[Path(c)] = Seen(c).entry
           /\ disk[Path(c)].kind # "missing" => ~op[c].create /\ Seen(c).entry.kind # "missing"]_callVars
  <2> SUFFICES ASSUME CallsInv, CallsNext, NEW c \in Calls, phase[c] = "install", Acts(c), disk' # disk
               PROVE  /\ Path(c) \notin raced => disk[Path(c)] = Seen(c).entry
                      /\ disk[Path(c)].kind # "missing" => ~op[c].create /\ Seen(c).entry.kind # "missing"
    OBVIOUS
  <2>1. CallsTypeOK /\ DiskInv(c)
    BY DEF CallsInv, CallInv
  <2>2. \A p \in Paths : ~ChangeOutside(p)
    BY DEF ChangeOutside, Acts
  <2>3. \A d \in Calls : ~(\E o \in Ops : Begin(d, o))
    BY DEF Begin
  <2>4. \A d \in Calls \ {c} : ~CallStep(d)
    <3> SUFFICES ASSUME NEW d \in Calls \ {c}, CallStep(d) PROVE phase'[c] = phase[c] /\ i'[c] = i[c]
      BY DEF Acts
    <3> QED
      BY <2>1 DEF CallStep, Resolve, LockNext, Prepare, Stage, FailEarly, Check, Install, FailCommit, Restore,
                  RestoreFails, RestoreNext, Release, Advance, End, CallsTypeOK
  <2>5. Install(c)
    BY <2>2, <2>3, <2>4 DEF CallsNext, CallStep, Resolve, LockNext, Prepare, Stage, FailEarly, Check,
                            FailCommit, Restore, RestoreFails, Release
  <2> QED
    BY <2>1, <2>5 DEF Install, Exclusive, DiskInv
<1> QED
  BY <1>1, CallsInvHolds, PTL DEF CallsSpec, ReplacesWhatItRead

(* The locks the calls use are those that MutationLocks implements.         *)
THEOREM CallsUseKeyLocks ==
    ASSUME DOMAIN Links = {}
    PROVE  CallsSpec => PathLocks!Spec
<1>1. CallsInit => PathLocks!Init
  BY DEF CallsInit
<1>2. CallsInv /\ [CallsNext]_callVars => [PathLocks!Next]_held
  <2> SUFFICES ASSUME CallsInv, CallsNext, held' # held PROVE PathLocks!Next
    BY DEF callVars
  <2>1. PICK c \in Calls : LockNext(c) \/ Release(c)
    BY DEF CallsNext, CallStep, Begin, ChangeOutside, Resolve, Prepare, Stage, FailEarly, Check, Install,
           FailCommit, Restore, RestoreFails, RestoreNext
  <2>2. held[c] \in SUBSET Paths /\ KeySet(c) \subseteq Paths
    BY TypedCall DEF CallsInv, KeySet
  <2>3. CASE LockNext(c)
    <3>1. PICK k \in KeySet(c) : PathLocks!Take(c, k)
      BY <2>3 DEF LockNext
    <3> QED
      BY <2>2, <3>1 DEF PathLocks!Next
  <2>4. CASE Release(c)
    <3>1. PathLocks!Drop(c, held[c])
      BY <2>4 DEF Release
    <3> QED
      BY <2>2, <3>1 DEF PathLocks!Next
  <2> QED
    BY <2>1, <2>3, <2>4
<1> QED
  BY <1>1, <1>2, CallsInvHolds, PTL DEF CallsSpec, PathLocks!Spec
=============================================================================

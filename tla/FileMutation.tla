---------------------------- MODULE FileMutation ----------------------------
(***************************************************************************)
(* The write and patch tools of aether-tools (write.rs, patch.rs, and the  *)
(* staging in common.rs), run by blocking workers side by side, with other *)
(* processes changing the same files.                                      *)
(*                                                                         *)
(* A call resolves its destinations to keys, locks the keys (KeyLocks),    *)
(* reads every file, stages every replacement next to its destination,     *)
(* and then, file by file, checks that the file is still what it read and  *)
(* installs the replacement.  A patch that cannot install a file writes    *)
(* the files it has already installed back, newest first.                  *)
(*                                                                         *)
(* A file's content is the set of calls whose edits it has: a write leaves *)
(* only its own, a patch adds its own to what it read.  A step that checks *)
(* the cancellation flag or touches the disk may fail; since a call stops   *)
(* at the first check that sees the flag, the flag itself is not a         *)
(* variable.  Hunks that leave a file as it was are not modelled.          *)
(***************************************************************************)
EXTENDS Integers, Sequences

CONSTANTS
    Calls,       \* tool calls; each is executed once
    Paths,       \* destinations in the workspace; their order is that of <
    Ops,         \* what a call may be asked to do
    Links,       \* the symbolic links there are at first: link -> the file it names
    Optional,    \* the destinations that need not exist at first
    Outside,     \* another process, as the author of a file
    OutsidePaths \* bound: the paths another process changes, each once

ASSUME PathsAssumption ==
    /\ Paths \subseteq Nat /\ Optional \subseteq Paths
    /\ DOMAIN Links \subseteq Paths \ Optional
    /\ \A p \in DOMAIN Links : Links[p] \in Paths \ DOMAIN Links
    /\ Outside \notin Calls
    /\ OutsidePaths \subseteq Paths

\* A write has one destination, a patch at least one and neither flag.
ASSUME OpsAssumption ==
    \A o \in Ops :
        /\ o \in [kind : {"write", "patch"}, paths : Seq(Paths) \ {<<>>},
                  create : BOOLEAN, expects : BOOLEAN, dry : BOOLEAN]
        /\ o.kind = "write" => Len(o.paths) = 1 /\ ~o.dry
        /\ o.kind = "patch" => ~o.create /\ ~o.expects

VARIABLES
    disk,     \* what each path names: nothing, a file, or a link
    held,     \* KeyLocks: the keys each call holds
    phase,    \* where the call is
    op,       \* what it was asked to do
    i,        \* the index of the file it is working on
    keys,     \* the key of each of its files
    seen,     \* what it read of each of its files
    temps,    \* the destinations it has a staged file for
    result,   \* "none", "ok", "failed" or "rollback_failed"
    touched,  \* the paths another process has changed
    raced     \* those it changed between a call's check and its install

callVars == <<disk, held, phase, op, i, keys, seen, temps, result, touched, raced>>

PathLocks == INSTANCE KeyLocks WITH Workers <- Calls, Keys <- Paths

-----------------------------------------------------------------------------
Absent == [kind |-> "missing", edits |-> {}, to |-> 0]
File(E) == [kind |-> "file", edits |-> E, to |-> 0]
Link(p) == [kind |-> "link", edits |-> {}, to |-> p]

(* What opening the path reads: links are followed.                         *)
Followed(p) == IF disk[p].kind = "link" THEN disk[disk[p].to] ELSE disk[p]

(* Workspace::mutation_key                                                  *)
Key(p) == IF disk[p].kind = "link" /\ Followed(p).kind # "missing" THEN disk[p].to ELSE p

NoOp == [kind |-> "none", paths |-> <<>>, create |-> FALSE, expects |-> FALSE, dry |-> FALSE]

Path(c) == op[c].paths[i[c]]
Count(c) == Len(op[c].paths)
Last(c) == i[c] = Count(c)
Seen(c) == seen[c][i[c]]
KeySet(c) == {keys[c][j] : j \in 1 .. Len(keys[c])}

(* What the call puts at its j-th destination.                              *)
New(c, j) == File(IF op[c].kind = "write" THEN {c} ELSE seen[c][j].content.edits \cup {c})

(* write keeps a hash of the old content unless there is none to keep, or   *)
(* the caller only wants to create.                                         *)
Hashed(c) ==
    /\ Seen(c).entry.kind # "missing"
    /\ ~(op[c].create /\ ~op[c].expects)

Exclusive(c) == op[c].create \/ Seen(c).entry.kind = "missing"

-----------------------------------------------------------------------------
CallsInit ==
    /\ \E M \in SUBSET Optional :
        disk = [p \in Paths |-> IF p \in M THEN Absent
                                ELSE IF p \in DOMAIN Links THEN Link(Links[p])
                                ELSE File({})]
    /\ PathLocks!Init
    /\ phase = [c \in Calls |-> "new"]
    /\ op = [c \in Calls |-> NoOp]
    /\ i = [c \in Calls |-> 0]
    /\ keys = [c \in Calls |-> <<>>]
    /\ seen = [c \in Calls |-> <<>>]
    /\ temps = [c \in Calls |-> {}]
    /\ result = [c \in Calls |-> "none"]
    /\ touched = {}
    /\ raced = {}

(* Every file of the call is handled in turn: the next one, or the first    *)
(* one of the next phase.                                                   *)
Advance(c, here, there) ==
    /\ i' = [i EXCEPT ![c] = IF Last(c) THEN 1 ELSE @ + 1]
    /\ phase' = [phase EXCEPT ![c] = IF Last(c) THEN there ELSE here]

(* The call ends with this result; its locks are dropped by Release.        *)
End(c, r) ==
    /\ phase' = [phase EXCEPT ![c] = "release"]
    /\ result' = [result EXCEPT ![c] = r]

Begin(c, o) ==
    /\ phase[c] = "new"
    /\ op' = [op EXCEPT ![c] = o]
    /\ i' = [i EXCEPT ![c] = 1]
    /\ phase' = [phase EXCEPT ![c] = "resolve"]
    /\ UNCHANGED <<disk, held, keys, seen, temps, result, touched, raced>>

(* A patch that names one destination twice is refused.                     *)
Resolve(c) ==
    /\ phase[c] = "resolve"
    /\ IF Key(Path(c)) \in KeySet(c)
         THEN End(c, "failed") /\ UNCHANGED <<i, keys>>
         ELSE /\ keys' = [keys EXCEPT ![c] = Append(@, Key(Path(c)))]
              /\ Advance(c, "resolve", "lock")
              /\ UNCHANGED result
    /\ UNCHANGED <<disk, held, op, seen, temps, touched, raced>>

LockHeld(c) ==
    /\ phase[c] = "lock"
    /\ held' = [held EXCEPT ![c] = KeySet(c)]
    /\ phase' = [phase EXCEPT ![c] = "prepare"]
    /\ UNCHANGED <<disk, op, i, keys, seen, temps, result, touched, raced>>

LockNext(c) ==
    /\ phase[c] = "lock"
    /\ \E k \in KeySet(c) \ held[c] :
        /\ \A j \in KeySet(c) \ held[c] : k =< j
        /\ PathLocks!Take(c, k)
        /\ phase' = [phase EXCEPT ![c] = IF KeySet(c) = held'[c] THEN "prepare" ELSE "lock"]
    /\ UNCHANGED <<disk, op, i, keys, seen, temps, result, touched, raced>>

(* What a call may go on from: a patch needs a file to edit, a write that   *)
(* names the hash of the old content needs one to compare.                  *)
CanPrepare(c) ==
    LET entry == disk[Path(c)] content == Followed(Path(c)) IN
    IF op[c].kind = "patch" THEN content.kind = "file"
    ELSE IF entry.kind = "missing" THEN ~op[c].expects
    ELSE (op[c].create /\ ~op[c].expects) \/ content.kind = "file"

Prepare(c) ==
    /\ phase[c] = "prepare"
    /\ CanPrepare(c)
    /\ seen' = [seen EXCEPT ![c] =
                    Append(@, [entry |-> disk[Path(c)], content |-> Followed(Path(c))])]
    /\ IF op[c].dry /\ Last(c)
         THEN End(c, "ok") /\ UNCHANGED i
         ELSE Advance(c, "prepare", "stage") /\ UNCHANGED result
    /\ UNCHANGED <<disk, held, op, keys, temps, touched, raced>>

Stage(c) ==
    /\ phase[c] = "stage"
    /\ temps' = [temps EXCEPT ![c] = @ \cup {Path(c)}]
    /\ Advance(c, "stage", "check")
    /\ UNCHANGED <<disk, held, op, keys, seen, result, touched, raced>>

(* Cancelled, a hash that is not the expected one, hunks that do not apply, *)
(* or an I/O error, before anything was installed: staged files are         *)
(* removed.                                                                 *)
FailEarly(c) ==
    /\ phase[c] \in {"resolve", "prepare", "stage"}
    /\ End(c, "failed")
    /\ temps' = [temps EXCEPT ![c] = {}]
    /\ UNCHANGED <<disk, held, op, i, keys, seen, touched, raced>>

(* revalidate_hash, revalidate_prepared: the file is what it was.           *)
Unchanged(c) ==
    LET p == Path(c) IN
    /\ op[c].kind = "patch" \/ ~Hashed(c) => disk[p] = Seen(c).entry
    /\ op[c].kind = "patch" \/ Hashed(c) => Followed(p) = Seen(c).content

CheckNothing(c) ==
    /\ phase[c] = "check"
    /\ phase' = [phase EXCEPT ![c] = "install"]
    /\ UNCHANGED <<disk, held, op, i, keys, seen, temps, result, touched, raced>>

Check(c) ==
    /\ phase[c] = "check"
    /\ Unchanged(c)
    /\ phase' = [phase EXCEPT ![c] = "install"]
    /\ UNCHANGED <<disk, held, op, i, keys, seen, temps, result, touched, raced>>

(* install_replacement: the staged file takes the destination's name.  The  *)
(* exclusive form does so only if nothing has that name.                    *)
Install(c) ==
    /\ phase[c] = "install"
    /\ Exclusive(c) => disk[Path(c)].kind = "missing"
    /\ disk' = [disk EXCEPT ![Path(c)] = New(c, i[c])]
    /\ temps' = [temps EXCEPT ![c] = @ \ {Path(c)}]
    /\ IF Last(c)
         THEN End(c, "ok") /\ UNCHANGED i
         ELSE Advance(c, "check", "release") /\ UNCHANGED result
    /\ UNCHANGED <<held, op, keys, seen, touched, raced>>

FailCommitAtOnce(c) ==
    /\ phase[c] \in {"check", "install"}
    /\ temps' = [temps EXCEPT ![c] = {}]
    /\ End(c, "failed")
    /\ UNCHANGED <<disk, held, op, i, keys, seen, touched, raced>>

(* The file has changed, its name is taken, the call is cancelled or the    *)
(* disk fails: nothing more is installed, all staged files are removed and  *)
(* the files already installed are to be restored.                          *)
FailCommit(c) ==
    /\ phase[c] \in {"check", "install"}
    /\ temps' = [temps EXCEPT ![c] = {}]
    /\ IF i[c] = 1
         THEN End(c, "failed") /\ UNCHANGED i
         ELSE /\ phase' = [phase EXCEPT ![c] = "rollback"]
              /\ i' = [i EXCEPT ![c] = @ - 1]
              /\ UNCHANGED result
    /\ UNCHANGED <<disk, held, op, keys, seen, touched, raced>>

(* finish_commit_failure: atomic_write puts the old bytes back as a file,   *)
(* whatever is there now; it is not stopped by the cancellation flag.       *)
RestoreNext(c, r) ==
    /\ IF i[c] = 1
         THEN End(c, r) /\ UNCHANGED i
         ELSE /\ i' = [i EXCEPT ![c] = @ - 1]
              /\ result' = [result EXCEPT ![c] = r]
              /\ UNCHANGED phase
    /\ UNCHANGED <<held, op, keys, seen, temps, touched, raced>>

Verdict(c) == IF result[c] = "rollback_failed" THEN result[c] ELSE "failed"

Restore(c) ==
    /\ phase[c] = "rollback"
    /\ disk' = [disk EXCEPT ![Path(c)] = File(Seen(c).content.edits)]
    /\ RestoreNext(c, Verdict(c))

RestoreFails(c) ==
    /\ phase[c] = "rollback"
    /\ RestoreNext(c, "rollback_failed")
    /\ UNCHANGED disk

Release(c) ==
    /\ phase[c] = "release"
    /\ PathLocks!Drop(c, held[c])
    /\ phase' = [phase EXCEPT ![c] = "done"]
    /\ UNCHANGED <<disk, op, i, keys, seen, temps, result, touched, raced>>

(* Another process writes or removes a file whenever it likes.              *)
ChangeOutside(p) ==
    /\ p \in OutsidePaths \ touched
    /\ \E entry \in {File({Outside}), Absent} \ {disk[p]} : disk' = [disk EXCEPT ![p] = entry]
    /\ touched' = touched \cup {p}
    /\ raced' = IF \E c \in Calls : phase[c] = "install" /\ Path(c) = p THEN raced \cup {p} ELSE raced
    /\ UNCHANGED <<held, phase, op, i, keys, seen, temps, result>>

CallStep(c) ==
    \/ Resolve(c) \/ LockNext(c) \/ Prepare(c) \/ Stage(c) \/ FailEarly(c)
    \/ Check(c) \/ Install(c) \/ FailCommit(c) \/ Restore(c) \/ RestoreFails(c) \/ Release(c)

CallsNext ==
    \/ \E c \in Calls : CallStep(c) \/ \E o \in Ops : Begin(c, o)
    \/ \E p \in Paths : ChangeOutside(p)

CallsSpec == CallsInit /\ [][CallsNext]_callVars

-----------------------------------------------------------------------------
(* Two calls never work on one destination between their reads and their    *)
(* last write: preparation and commit are serialized.                       *)
Working(c) == phase[c] \in {"prepare", "stage", "check", "install", "rollback"}
SamePathIsSerialized ==
    \A c, d \in Calls : c # d /\ Working(c) /\ Working(d) =>
        \A j \in 1 .. Count(c), m \in 1 .. Count(d) : op[c].paths[j] # op[d].paths[m]

(* A call that ends, before it lets its locks go, has changed all of its    *)
(* files or none, and has left no staged file: a failure reported as such   *)
(* was undone completely, unless another process took part or the failed    *)
(* rollback was reported.                                                   *)
Holds(c, want(_)) ==
    \A j \in 1 .. Len(seen[c]) :
        op[c].paths[j] \in touched \/ disk[op[c].paths[j]] = want(j)
AllOrNothing ==
    \A c \in Calls : phase[c] = "release" =>
        LET new(j) == New(c, j)
            old(j) == seen[c][j].entry
        IN  /\ result[c] = "ok" /\ ~op[c].dry => Holds(c, new)
            /\ result[c] = "failed" \/ op[c].dry => Holds(c, old)
            /\ temps[c] = {}

(* A patch that reported success is still in the file, unless a write       *)
(* replaced the file or another process did.                                *)
Succeeded(c) == phase[c] = "done" /\ result[c] = "ok" /\ ~op[c].dry
PatchesSurvive ==
    \A c \in Calls : Succeeded(c) /\ op[c].kind = "patch" =>
        \A j \in 1 .. Count(c) : LET p == op[c].paths[j] IN
            \/ c \in disk[p].edits
            \/ p \in touched
            \/ \E d \in Calls \ {c} : op[d].kind = "write" /\ op[d].paths[1] = p /\ result[d] = "ok"

(* What a replacement replaces is what its call read, and nothing at all    *)
(* for a call that only wanted to create the file or had found it missing;  *)
(* except in the window the code concedes: another process that comes       *)
(* between a replacing call's last check and its rename.                    *)
Acts(c) == phase'[c] # phase[c] \/ i'[c] # i[c]
ReplacesWhatItRead ==
    [][\A c \in Calls : phase[c] = "install" /\ Acts(c) /\ disk' # disk =>
         LET found == disk[Path(c)] IN
           /\ Path(c) \notin raced => found = Seen(c).entry
           /\ found.kind # "missing" => ~op[c].create /\ Seen(c).entry.kind # "missing"]_callVars

(***************************************************************************)
(* What makes the properties above inductive where there are no links: a   *)
(* call that has read a file holds the keys of all its files, no other     *)
(* call holds one of them, and each of its files is either what the call   *)
(* read or what it has put there, by how far the call has come.            *)
(***************************************************************************)
Plain == {Absent} \cup {File(E) : E \in SUBSET (Calls \cup {Outside})}

CallsTypeOK ==
    /\ disk \in [Paths -> Plain]
    /\ held \in [Calls -> SUBSET Paths]
    /\ phase \in [Calls -> {"new", "resolve", "lock", "prepare", "stage", "check", "install",
                            "rollback", "release", "done"}]
    /\ op \in [Calls -> Ops \cup {NoOp}]
    /\ i \in [Calls -> Nat]
    /\ keys \in [Calls -> Seq(Paths)]
    /\ seen \in [Calls -> Seq([entry : Plain, content : Plain])]
    /\ temps \in [Calls -> SUBSET Paths]
    /\ result \in [Calls -> {"none", "ok", "failed", "rollback_failed"}]
    /\ touched \subseteq Paths /\ raced \subseteq touched

OneHolderPerPath == \A c, d \in Calls : c # d => held[c] \cap held[d] = {}

\* The keys are the destinations, each once.
KeysInv(c) ==
    /\ Len(keys[c]) =< Count(c)
    /\ \A j \in 1 .. Len(keys[c]) : keys[c][j] = op[c].paths[j]
    /\ \A j, m \in 1 .. Len(keys[c]) : keys[c][j] = keys[c][m] => j = m
    /\ phase[c] = "resolve" => Len(keys[c]) = i[c] - 1
    /\ phase[c] = "lock" \/ Working(c) \/ (phase[c] = "release" /\ seen[c] # <<>>) => Len(keys[c]) = Count(c)
    /\ phase[c] = "lock" => held[c] \subseteq KeySet(c)
    /\ Working(c) \/ (phase[c] = "release" /\ seen[c] # <<>>) => held[c] = KeySet(c)
    /\ phase[c] \in {"new", "resolve"} => held[c] = {}

\* What it has read, what it has staged, and how it stands.
ProgressInv(c) ==
    /\ op[c] = NoOp <=> phase[c] = "new"
    /\ phase[c] = "new" => keys[c] = <<>>
    /\ phase[c] \in {"resolve", "lock"} \/ Working(c) => i[c] \in 1 .. Count(c)
    /\ phase[c] = "lock" => i[c] = 1
    /\ Len(seen[c]) =< Count(c)
    /\ \A j \in 1 .. Len(seen[c]) :
          /\ seen[c][j].entry = seen[c][j].content
          /\ op[c].kind = "patch" => seen[c][j].entry.kind = "file"
    /\ phase[c] \in {"new", "resolve", "lock"} => seen[c] = <<>>
    /\ phase[c] = "prepare" => Len(seen[c]) = i[c] - 1
    /\ phase[c] \in {"stage", "check", "install", "rollback"} => Len(seen[c]) = Count(c)
    /\ phase[c] = "rollback" => i[c] < Count(c)
    /\ \A p \in temps[c] : /\ phase[c] \in {"stage", "check", "install"}
                           /\ \E j \in 1 .. Count(c) :
                                  p = op[c].paths[j] /\ (phase[c] # "stage" => i[c] =< j)
    /\ ~Working(c) \/ phase[c] = "rollback" \/ result[c] = "none"
    /\ phase[c] \in {"new", "resolve", "lock"} => result[c] = "none"
    /\ phase[c] = "rollback" => result[c] # "ok"
    /\ phase[c] \in {"stage", "check", "install", "rollback"} \/ result[c] = "rollback_failed" => ~op[c].dry
    /\ phase[c] \in {"release", "done"} /\ result[c] = "ok" => Len(seen[c]) = Count(c)

\* The file a call may still install or restore, and those it will not touch again.
Expected(c, j) ==
    IF \/ phase[c] \in {"check", "install"} /\ j < i[c]
       \/ phase[c] = "rollback" /\ j =< i[c]
       \/ phase[c] = "release" /\ result[c] = "ok" /\ ~op[c].dry
      THEN New(c, j) ELSE seen[c][j].entry

DiskInv(c) ==
    /\ phase[c] # "done" =>
          \A j \in 1 .. Len(seen[c]) :
              \/ op[c].paths[j] \in touched \/ disk[op[c].paths[j]] = Expected(c, j)
              \/ result[c] = "rollback_failed" /\ (phase[c] = "rollback" => i[c] < j)
    /\ phase[c] = "install" => Path(c) \in raced \/ disk[Path(c)] = Seen(c).entry

CallInv(c) == KeysInv(c) /\ ProgressInv(c) /\ DiskInv(c)

CallsInv == CallsTypeOK /\ OneHolderPerPath /\ (\A c \in Calls : CallInv(c)) /\ PatchesSurvive
=============================================================================

--------------------------- MODULE MCFileMutation ---------------------------
(***************************************************************************)
(* Writes and patches for TLC, in two parts that share nothing: the mutexes*)
(* behind the key locks (MutationLocks) and the calls that use such locks  *)
(* (FileMutation).  A behaviour is one of a single part, which Init        *)
(* chooses, while the other stays in an initial state.                     *)
(***************************************************************************)
EXTENDS MutationLocks, FileMutation

CONSTANTS w1, w2, l1, l2, l3, l4, c1, c2, c3

VARIABLE part

\* Two workers with patches of two files of three that overlap in every way, and writes of one.
TwoWorkers == {w1, w2}
ThreeKeys == 1 .. 3
PatchesAndWrites == {{1, 2}, {1, 3}, {2, 3}, {2}}
FourLocks == {l1, l2, l3, l4}

TwoCalls == {c1, c2}
ThreeCalls == {c1, c2, c3}

Write(p, create, expects) ==
    [kind |-> "write", paths |-> <<p>>, create |-> create, expects |-> expects, dry |-> FALSE]
Patch(ps, dry) ==
    [kind |-> "patch", paths |-> ps, create |-> FALSE, expects |-> FALSE, dry |-> dry]

\* Patches of both files in either order, of one twice and of one, with and
\* without dry_run, and writes that replace, create or expect content.
MixedOps ==
    {Patch(<<1, 2>>, FALSE), Patch(<<2, 1>>, FALSE), Patch(<<1, 1>>, FALSE), Patch(<<1>>, TRUE),
     Write(2, FALSE, FALSE), Write(2, TRUE, FALSE), Write(1, FALSE, TRUE)}

NoLinks == [p \in {} |-> 0]

\* Every call writes through the one symbolic link, 1, which names file 2.
OneWrite == {Write(1, FALSE, FALSE)}
OneLink == [p \in {1} |-> 2]

partVars == <<part, vars, callVars>>

PartsInit ==
    /\ part \in {"locks", "calls"} /\ Init /\ CallsInit
    /\ part = "locks" => \A p \in Paths : disk[p].kind # "missing"

LocksPart == part = "locks" /\ Next /\ UNCHANGED <<part, callVars>>
CallsPart == part = "calls" /\ CallsNext /\ UNCHANGED <<part, vars>>

PartsNext == LocksPart \/ CallsPart

\* In its initial state a part has no step that fairness asks for.
PartsSpec == PartsInit /\ [][PartsNext]_partVars /\ Fairness
=============================================================================

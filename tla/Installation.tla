---------------------------- MODULE Installation ----------------------------
(***************************************************************************)
(* The installation of the pinned Obscura artifact: inspection, download,  *)
(* extraction of the verified archive into a staging directory, the check  *)
(* of the staged version, and the activation by two renames with a backup  *)
(* of what was there.  Several AETHER processes share the directory; each  *)
(* may be killed anywhere, and what it has left stays on disk.             *)
(*                                                                         *)
(* What a directory holds: "empty"; "pair", the two files of the artifact; *)
(* "other", two files of which the binary reports another version;         *)
(* "broken", two files of which the binary does not run; "half", one file. *)
(***************************************************************************)
EXTENDS Naturals, Sequences, FiniteSets

CONSTANTS
    Processes,      \* the AETHER processes
    Archives,       \* the archives that a manifest entry may pin
    Found,          \* what earlier builds may have left in the directory
    MaxMemberBytes,   \* MAX_EXTRACT_FILE_BYTES
    MaxTotalBytes,  \* MAX_EXTRACT_BYTES
    MaxAttempts,    \* bound: installations that are attempted
    MaxDeaths       \* bound: processes that are killed

ASSUME InstallationAssumption ==
    /\ IsFiniteSet(Processes) /\ Found \subseteq {"none", "empty", "pair", "other", "broken", "half"}
    /\ {MaxMemberBytes, MaxTotalBytes, MaxAttempts, MaxDeaths} \subseteq Nat
    /\ Archives \subseteq Seq([type : STRING, name : STRING, declared : Nat, actual : Nat, wrong : BOOLEAN])

VARIABLES
    archive,     \* the members of the archive that this build pins
    installDir,  \* what the fixed version directory holds; "none": it does not exist
    staging,     \* per process: its staging directory
    backup,      \* per process: its backup directory
    abandoned,   \* what killed processes have left in staging and backup directories
    installer,   \* per process: where its installation is
    lockedBy,    \* who holds install.lock, which is never removed
    attempts, deaths,
    outcome      \* per process: what the last installation returned

installVars == <<archive, installDir, staging, backup, abandoned, installer, lockedBy, attempts, deaths, outcome>>

NoOne == "no one"
ASSUME NoOneAssumption == NoOne \notin Processes

Step(p, from, to) == installer[p] = from /\ installer' = [installer EXCEPT ![p] = to]

-----------------------------------------------------------------------------
(* extract_tar_gz and extract_zip: members in the order of the archive.    *)

Names == <<"binary", "worker">>

\* The bytes that the members before m have declared.
Total(members, m) ==
    LET sum[i \in 0..m] == IF i = 0 THEN 0 ELSE sum[i - 1] + members[i].declared IN sum[m]

\* A member is taken when nothing is wrong with it.
Acceptable(members, m) ==
    /\ members[m].type = "file"
    /\ \E i \in 1..2 : members[m].name = Names[i]             \* member_index
    /\ \A k \in 1..(m - 1) : members[k].name # members[m].name
    /\ members[m].declared <= MaxMemberBytes
    /\ Total(members, m) <= MaxTotalBytes
    /\ members[m].actual = members[m].declared

\* Every member is acceptable, and both files were seen.
Extracts(members) ==
    /\ \A m \in 1..Len(members) : Acceptable(members, m)
    /\ \A i \in 1..2 : \E m \in 1..Len(members) : members[m].name = Names[i]

\* What the two files of an archive are: the binary reports a version, the worker none.
Extracted(members) ==
    IF \E m \in 1..Len(members) : members[m].name = "binary" /\ members[m].wrong THEN "other" ELSE "pair"

-----------------------------------------------------------------------------
(* inspect_installation.                                                   *)

\* The version that the two files in a directory report.
RunVersion(dir) == CASE dir = "pair" -> {"pinned"} [] dir = "other" -> {"other"} [] OTHER -> {}

\* find_other_version sees the directories of killed and of working installers.
OtherVersion ==
    \E d \in abandoned \cup { staging[p] : p \in Processes } \cup { backup[p] : p \in Processes } :
        d \in {"pair", "other", "broken"}

\* Nothing when the inspection fails: one file without the other, or a version
\* command that fails or takes too long.
Inspections ==
    IF installDir \in {"none", "empty"} THEN {[installed |-> FALSE, matches |-> FALSE, other |-> OtherVersion]}
    ELSE { [installed |-> TRUE, matches |-> v = "pinned", other |-> FALSE] : v \in RunVersion(installDir) }

-----------------------------------------------------------------------------
(* install_obscura.                                                        *)

Answer(p, what) ==
    /\ installer' = [installer EXCEPT ![p] = "idle"]
    /\ outcome' = [outcome EXCEPT ![p] = what]
    /\ lockedBy' = IF lockedBy = p THEN NoOne ELSE lockedBy

\* An error after the staging directory exists removes it.
Fails(p) ==
    /\ Answer(p, "failed")
    /\ staging' = [staging EXCEPT ![p] = "none"]
    /\ UNCHANGED <<archive, installDir, backup, abandoned, attempts, deaths>>

\* ensure_obscura and update_obscura inspect, ask the user, and begin with the layout,
\* before the lock is taken.
EnsureLayout(p) ==
    /\ attempts < MaxAttempts /\ attempts' = attempts + 1
    /\ Step(p, "idle", "lock")
    /\ \E seen \in Inspections : ~(seen.installed /\ seen.matches)
    /\ installDir' = IF installDir = "none" THEN "empty" ELSE installDir
    /\ UNCHANGED <<archive, staging, backup, abandoned, lockedBy, deaths, outcome>>

\* The shell refuses: the inspection fails, or ensure_obscura finds another version.
Refuse(p) ==
    /\ installer[p] = "idle" /\ outcome[p] # "refused"
    /\ \/ Inspections = {}
       \/ \E seen \in Inspections : (seen.installed \/ seen.other) /\ ~seen.matches
    /\ outcome' = [outcome EXCEPT ![p] = "refused"]
    /\ UNCHANGED <<archive, installDir, staging, backup, abandoned, installer, lockedBy, attempts, deaths>>

AcquireLock(p) ==
    /\ installer[p] = "lock"
    /\ \/ lockedBy # NoOne /\ Answer(p, "locked")
       \/ /\ lockedBy = NoOne /\ lockedBy' = p
          /\ Step(p, "lock", "inspect")
          /\ UNCHANGED outcome
    /\ UNCHANGED <<archive, installDir, staging, backup, abandoned, attempts, deaths>>

InspectNothing(p) ==
    /\ Step(p, "inspect", "download")
    /\ UNCHANGED <<archive, installDir, staging, backup, abandoned, lockedBy, attempts, deaths, outcome>>

InspectAgain(p) ==
    /\ installer[p] = "inspect"
    /\ \/ Inspections = {} /\ Answer(p, "failed")
       \/ \E seen \in Inspections :
              \/ seen.installed /\ seen.matches /\ Answer(p, "current")
              \/ ~(seen.installed /\ seen.matches) /\ Step(p, "inspect", "download") /\ UNCHANGED <<outcome, lockedBy>>
    /\ UNCHANGED <<archive, installDir, staging, backup, abandoned, attempts, deaths>>

\* download_archive compares size and hash with the manifest; then the staging directory.
DownloadArchive(p) ==
    /\ installer[p] = "download"
    /\ \/ Fails(p)
       \/ /\ Step(p, "download", "extract")
          /\ staging' = [staging EXCEPT ![p] = "empty"]
          /\ UNCHANGED <<archive, installDir, backup, abandoned, lockedBy, attempts, deaths, outcome>>

\* The files are written one after the other: a kill may leave one of them.
ExtractArchive(p) ==
    /\ installer[p] = "extract"
    /\ \/ Fails(p)
       \/ /\ Extracts(archive) /\ staging[p] = "empty"
          /\ staging' = [staging EXCEPT ![p] = "half"]
          /\ UNCHANGED <<archive, installDir, backup, abandoned, installer, lockedBy, attempts, deaths, outcome>>
       \/ /\ Extracts(archive) /\ staging[p] = "half"
          /\ staging' = [staging EXCEPT ![p] = Extracted(archive)]
          /\ Step(p, "extract", "validate")
          /\ UNCHANGED <<archive, installDir, backup, abandoned, lockedBy, attempts, deaths, outcome>>

\* run_version and validate_version_output on the staged binary, then the worker.
ValidateStaged(p) ==
    /\ installer[p] = "validate"
    /\ \/ Fails(p)
       \/ /\ "pinned" \in RunVersion(staging[p])
          /\ Step(p, "validate", "stage")
          /\ UNCHANGED <<archive, installDir, staging, backup, abandoned, lockedBy, attempts, deaths, outcome>>

\* activate_staging: the first rename makes the backup.
StagePrevious(p) ==
    /\ installer[p] = "stage"
    /\ \/ Fails(p)
       \/ /\ backup' = [backup EXCEPT ![p] = installDir]       \* "none": there is no previous one
          /\ installDir' = "none"
          /\ Step(p, "stage", "activate")
          /\ UNCHANGED <<archive, staging, abandoned, lockedBy, attempts, deaths, outcome>>

\* The second rename.  Another process may have made the directory again: an empty one is
\* replaced on Unix and refused on Windows.
Activate(p) ==
    /\ Step(p, "activate", "clean")
    /\ installDir \in {"none", "empty"}
    /\ installDir' = staging[p]
    /\ staging' = [staging EXCEPT ![p] = "none"]
    /\ UNCHANGED <<archive, backup, abandoned, lockedBy, attempts, deaths, outcome>>

\* It fails: the backup is renamed back, unless that fails too and leaves it where it is.
Reactivate(p) ==
    /\ installer[p] = "activate"
    /\ Answer(p, "failed")
    /\ staging' = [staging EXCEPT ![p] = "none"]
    /\ backup' = [backup EXCEPT ![p] = "none"]
    /\ \/ /\ installDir \in {"none", "empty"} /\ backup[p] # "none"
          /\ installDir' = backup[p] /\ UNCHANGED abandoned
       \/ /\ abandoned' = abandoned \cup ({backup[p]} \ {"none"})
          /\ UNCHANGED installDir
    /\ UNCHANGED <<archive, attempts, deaths>>

\* The backup is removed; a failure is reported although the artifact is installed.
CleanPrevious(p) ==
    /\ installer[p] = "clean"
    /\ backup' = [backup EXCEPT ![p] = "none"]
    /\ \/ Answer(p, "installed") /\ UNCHANGED abandoned
       \/ /\ backup[p] # "none"
          /\ Answer(p, "failed")
          /\ abandoned' = abandoned \cup {backup[p]}
    /\ UNCHANGED <<archive, installDir, staging, attempts, deaths>>

\* The process is killed: the system gives up its lock, its directories stay.
KillInstaller(p) ==
    /\ deaths < MaxDeaths /\ installer[p] # "idle"
    /\ deaths' = deaths + 1
    /\ Answer(p, "killed")
    /\ abandoned' = abandoned \cup ({staging[p], backup[p]} \ {"none"})
    /\ staging' = [staging EXCEPT ![p] = "none"]
    /\ backup' = [backup EXCEPT ![p] = "none"]
    /\ UNCHANGED <<archive, installDir, attempts>>

-----------------------------------------------------------------------------
InstallationInit ==
    /\ archive \in Archives /\ installDir \in Found
    /\ staging = [p \in Processes |-> "none"] /\ backup = [p \in Processes |-> "none"]
    /\ abandoned = {}
    /\ installer = [p \in Processes |-> "idle"] /\ lockedBy = NoOne
    /\ attempts = 0 /\ deaths = 0
    /\ outcome = [p \in Processes |-> "none"]

InstallStep(p) ==
    \/ AcquireLock(p) \/ InspectAgain(p) \/ DownloadArchive(p) \/ ExtractArchive(p) \/ ValidateStaged(p)
    \/ StagePrevious(p) \/ Activate(p) \/ Reactivate(p) \/ CleanPrevious(p)

InstallationNext == \E p \in Processes : EnsureLayout(p) \/ Refuse(p) \/ InstallStep(p) \/ KillInstaller(p)

InstallationSpec == InstallationInit /\ [][InstallationNext]_installVars

-----------------------------------------------------------------------------
(* Properties.                                                             *)

(* Whatever is killed in between, the directory holds what an earlier      *)
(* build left there, nothing, or exactly the two files of an archive with  *)
(* one regular member for each, within the limits, of the pinned version.  *)
(* Once an installation has been reported, that pair stays where it is: no *)
(* other process that asked for one at the same time, fails or is killed   *)
(* moves it away again.                                                    *)
WholePair ==
    /\ installDir = "pair"
    /\ Len(archive) = 2 /\ { archive[m].name : m \in 1..2 } = {"binary", "worker"}
    /\ \A m \in 1..2 : archive[m].type = "file" /\ ~(archive[m].name = "binary" /\ archive[m].wrong)
    /\ archive[1].actual + archive[2].actual <= MaxTotalBytes
InstalledStaysInstalled ==
    /\ WholePair \/ installDir \in Found \cup {"none", "empty"}
    /\ (\E p \in Processes : outcome[p] \in {"installed", "current"}) => installDir = "pair"

(* What makes it inductive.  The lock keeps every other process from its   *)
(* second inspection until the directory is replaced, so that what the     *)
(* second inspection found is still there when it is moved away.           *)
Contents == {"none", "empty", "half", "pair", "other", "broken"}
Unlocked == {"idle", "lock"}
Places == Unlocked \cup {"inspect", "download", "extract", "validate", "stage", "activate", "clean"}
Outcomes == {"none", "failed", "refused", "locked", "current", "installed", "killed"}

InstallTypeOK ==
    /\ archive \in Archives /\ installDir \in Contents
    /\ staging \in [Processes -> Contents] /\ backup \in [Processes -> Contents]
    /\ installer \in [Processes -> Places] /\ lockedBy \in Processes \cup {NoOne}
    /\ outcome \in [Processes -> Outcomes]

LockInv == \A p \in Processes : lockedBy = p <=> installer[p] \notin Unlocked

Previous(dir) == dir # "pair" /\ dir \in Found \cup {"none", "empty"}

ReplaceInv ==
    \A p \in Processes :
        /\ installer[p] = "validate" => Extracts(archive) /\ staging[p] = Extracted(archive)
        /\ installer[p] \in {"stage", "activate"} =>
               Extracts(archive) /\ Extracted(archive) = "pair" /\ staging[p] = "pair"
        /\ installer[p] \in {"download", "extract", "validate", "stage"} => Previous(installDir)
        /\ installer[p] = "activate" => Previous(installDir) /\ Previous(backup[p])
        /\ installer[p] \in {"download", "extract", "validate", "stage", "activate"} =>
               \A q \in Processes : outcome[q] \notin {"installed", "current"}
        /\ installer[p] = "clean" => installDir = "pair"

InstallInv == InstallTypeOK /\ LockInv /\ ReplaceInv /\ InstalledStaysInstalled
=============================================================================

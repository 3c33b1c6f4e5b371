------------------------------- MODULE Updater -------------------------------
(***************************************************************************)
(* `aether update': several updaters of one executable, each a process of  *)
(* its own, that share the executable's directory: the executable, the     *)
(* lock file and the temporary files.  An updater may be killed anywhere.  *)
(* On Windows the replacement is handed to a helper process, which takes   *)
(* the lock again when the updater has ended.                              *)
(*                                                                         *)
(* The content of a binary is the version it reports and whether it is the *)
(* published binary (good), other bytes (corrupt) or a part of it (part).  *)
(* Hashes are equal when contents are; lengths of different contents may   *)
(* be equal.  Versions are numbers in the order of SemVer precedence.      *)
(***************************************************************************)
EXTENDS Naturals, Sequences, FiniteSets

CONSTANTS
    Updaters,     \* the users or terminals that start updates, one at a time each
    Releases,     \* what is published on GitHub, in this order
    PerPage,      \* RELEASES_PER_PAGE
    MaxPages,     \* MAX_RELEASE_PAGES
    MaxStale,     \* MAX_STALE_TEMP_REMOVALS
    MaxStarts,    \* bound: updates that are started
    MaxKills      \* bound: updaters that are killed

\* The parts of an updater that take the lock and own a temporary file.
Updating == Updaters \X {"update"}
Helping  == Updaters \X {"help"}
Agents   == Updating \cup Helping
HelperOf(p) == <<p[1], "help">>
OwnerOf(h)  == <<h[1], "update">>

ASSUME UpdaterAssumption ==
    /\ IsFiniteSet(Updaters)
    /\ {PerPage, MaxPages, MaxStale} \subseteq Nat \ {0} /\ {MaxStarts, MaxKills} \subseteq Nat
    /\ Len(Releases) \in Nat \ {0}
    /\ \A r \in 1..Len(Releases) : Releases[r].tag \in Nat /\ Releases[r].draft \in BOOLEAN
    /\ \A r \in 1..Len(Releases) : Releases[r].reports \in Nat

VARIABLES
    windows,    \* the platform of the build
    published,  \* how many of the releases are published
    executable, \* the content of the installed executable
    temps,      \* per agent: the content of its temporary file
    lockPath,   \* the inode that the lock path names, 0 when there is none
    inodes,     \* inodes made so far
    up,         \* per agent: place, lock and what it has found out
    starts,     \* updates started so far
    kills,      \* updaters killed so far
    reported    \* per updater: what it told the user

updaterVars == <<windows, published, executable, temps, lockPath, inodes, up, starts, kills, reported>>

Absent == [ver |-> 0, is |-> "absent"]
Part   == [ver |-> 0, is |-> "part"]
Binary(v, is) == [ver |-> v, is |-> is]

NotStarted ==
    [pc |-> "none", inode |-> 0, holds |-> FALSE, retain |-> FALSE, version |-> 0,
     info |-> Absent, original |-> Absent, release |-> 0, staged |-> Absent]

Keep(p, fields) == up' = [up EXCEPT ![p] = fields]
GoTo(p, pc) == Keep(p, [up[p] EXCEPT !.pc = pc])
At(p, pc) == up[p].pc = pc

-----------------------------------------------------------------------------
(* The release that is wanted.                                             *)

\* parse_public_release: drafts and tags that are not versions (0) are left out.
Public == { r \in 1..published : ~Releases[r].draft /\ Releases[r].tag # 0 }

\* fetch_latest_release and select_latest_release: nothing when the history is too long.
Latest ==
    IF published >= PerPage * MaxPages THEN {}
    ELSE { r \in Public : \A q \in Public : Releases[q].tag <= Releases[r].tag }

\* unique_asset, validate_asset and validate_announced_size.
UniqueAsset(assets, name) ==
    LET found == SelectSeq(assets, LAMBDA a : a.name = name)
    IN  IF Len(found) = 1 THEN {found[1]} ELSE {}

Usable(assets, name) ==
    \E a \in UniqueAsset(assets, name) : a.state \in {"unknown", "uploaded"} /\ ~a.huge

\* checksum_for_asset: every line must be well formed, one names the binary.
ChecksumForAsset(sums) ==
    LET own == SelectSeq(sums, LAMBDA l : l.name = "binary")
    IN  IF (\A l \in 1..Len(sums) : sums[l].valid) /\ Len(own) = 1 THEN {own[1].hash} ELSE {}

\* What the updater trusts: a checksum file names the binary that was published.
ASSUME PublisherAssumption ==
    \A r \in 1..Len(Releases) : ChecksumForAsset(Releases[r].sums) \subseteq {"good"}

-----------------------------------------------------------------------------
(* The lock.                                                               *)

LeaveUpdateBehind(p) ==
    /\ UNCHANGED temps
    /\ GoTo(p, IF up[p].holds THEN "unlock" ELSE "ended")

\* The end of an agent: its temporary file goes, then the lock.
LeaveUpdate(p) ==
    /\ temps' = [temps EXCEPT ![p] = IF p \in Updating THEN Absent ELSE @]
    /\ GoTo(p, IF up[p].holds THEN "unlock" ELSE "ended")

FailUpdate(p) ==
    /\ LeaveUpdate(p)
    /\ UNCHANGED <<windows, published, executable, lockPath, inodes, starts, kills, reported>>

Locked(inode) == \E q \in Agents : up[q].holds /\ up[q].inode = inode

\* try_acquire, the open: the path is checked and the file made when it is missing.
OpenLock(p) ==
    /\ At(p, "open")
    /\ IF lockPath = 0
       THEN inodes' = inodes + 1 /\ lockPath' = inodes'
       ELSE UNCHANGED <<inodes, lockPath>>
    /\ Keep(p, [up[p] EXCEPT !.pc = "lock", !.inode = lockPath'])
    /\ UNCHANGED <<windows, published, executable, temps, starts, kills, reported>>

\* try_acquire, the lock: a second updater fails, a helper tries again until its deadline.
TryLock(p) ==
    /\ At(p, "lock")
    /\ \/ /\ ~Locked(up[p].inode)
          /\ Keep(p, [up[p] EXCEPT !.pc = IF p \in Helping THEN "inspect" ELSE "clean", !.holds = TRUE])
       \/ Locked(up[p].inode) /\ GoTo(p, "ended")
       \/ Locked(up[p].inode) /\ p \in Helping /\ GoTo(p, "open")
    /\ UNCHANGED <<windows, published, executable, temps, lockPath, inodes, starts, kills, reported>>

\* Drop of UpdateLock: the file is unlocked, then the path is removed.
Unlock(p) ==
    /\ At(p, "unlock")
    /\ Keep(p, [up[p] EXCEPT !.holds = FALSE, !.pc = IF up[p].retain THEN "ended" ELSE "remove"])
    /\ UNCHANGED <<windows, published, executable, temps, lockPath, inodes, starts, kills, reported>>

RemoveLock(p) ==
    /\ At(p, "remove")
    /\ lockPath' = 0
    /\ GoTo(p, "ended")
    /\ UNCHANGED <<windows, published, executable, temps, inodes, starts, kills, reported>>

-----------------------------------------------------------------------------
(* run.                                                                    *)

\* The process starts from the executable that is installed now.
StartUpdate(p) ==
    /\ p \in Updating /\ {up[p].pc, up[HelperOf(p)].pc} \subseteq {"none", "ended"}
    /\ starts < MaxStarts /\ executable.is = "good"
    /\ starts' = starts + 1
    /\ Keep(p, [NotStarted EXCEPT !.pc = "open", !.version = executable.ver, !.info = executable])
    /\ UNCHANGED <<windows, published, executable, temps, lockPath, inodes, kills, reported>>

\* Files of helpers that run cannot be removed.
RunningHelper(h) == windows /\ h \in Helping /\ up[h].pc \notin {"none", "ended"}
Stale == { t \in Agents : temps[t] # Absent }

CleanupStaleTemps(p) ==
    /\ At(p, "clean")
    /\ \E gone \in SUBSET { t \in Stale : ~RunningHelper(t) } :
           /\ Cardinality(gone) <= MaxStale
           /\ temps' = [t \in Agents |-> IF t \in gone THEN Absent ELSE temps[t]]
           /\ GoTo(p, IF gone = Stale THEN "identity" ELSE "unlock")
    /\ UNCHANGED <<windows, published, executable, lockPath, inodes, starts, kills, reported>>

\* file_identity of the executable; a length that changed since the inspection is seen.
OriginalIdentity(p) ==
    /\ At(p, "identity")
    /\ \/ Keep(p, [up[p] EXCEPT !.pc = "fetch", !.original = executable]) /\ UNCHANGED temps
       \/ executable # up[p].info /\ LeaveUpdate(p)
    /\ UNCHANGED <<windows, published, executable, lockPath, inodes, starts, kills, reported>>

\* The metadata and the checksums are fetched, each bounded and retried once.
FetchRelease(p) ==
    /\ At(p, "fetch")
    /\ \/ FailUpdate(p)                                      \* network, status, size
       \/ Latest = {} /\ FailUpdate(p)
       \/ \E r \in Latest : LET found == Releases[r] IN
              \/ /\ found.tag <= up[p].version                \* no update available
                 /\ LeaveUpdate(p)
                 /\ reported' = [reported EXCEPT ![p[1]] = "current"]
                 /\ UNCHANGED <<windows, published, executable, lockPath, inodes, starts, kills>>
              \/ /\ found.tag > up[p].version
                 /\ ~(Usable(found.assets, "binary") /\ Usable(found.assets, "sums")
                      /\ ChecksumForAsset(found.sums) # {})
                 /\ FailUpdate(p)
              \/ /\ found.tag > up[p].version
                 /\ Usable(found.assets, "binary") /\ Usable(found.assets, "sums")
                 /\ ChecksumForAsset(found.sums) # {}
                 /\ Keep(p, [up[p] EXCEPT !.pc = "create", !.release = r])
                 /\ UNCHANGED <<windows, published, executable, temps, lockPath, inodes, starts, kills, reported>>

\* download_binary: a new temporary file, then its bytes, then the checks of what came.
CreateTemporaryFile(p) ==
    /\ At(p, "create")
    /\ temps' = [temps EXCEPT ![p] = Part]
    /\ GoTo(p, "download")
    /\ UNCHANGED <<windows, published, executable, lockPath, inodes, starts, kills, reported>>

\* The bytes go to the open file, which another updater's cleanup may have unlinked.
TempHolding(p, content) == [temps EXCEPT ![p] = IF @ = Absent THEN Absent ELSE content]

Served(r) == Binary(Releases[r].reports, Releases[r].bytes)

VerifiedByLength(r, bytes) == bytes.is # "part"

\* The bytes have the length and the hash of the checksum file.
Verified(r, bytes) == bytes.is # "part" /\ ChecksumForAsset(Releases[r].sums) = {bytes.is}

DownloadBinary(p) ==
    /\ At(p, "download")
    /\ \/ FailUpdate(p)                                       \* network, disk
       \/ \E bytes \in {Part, Served(up[p].release)} :
              \/ Verified(up[p].release, bytes)
                 /\ temps' = TempHolding(p, bytes)
                 /\ Keep(p, [up[p] EXCEPT !.pc = "verify", !.staged = bytes])
                 /\ UNCHANGED <<windows, published, executable, lockPath, inodes, starts, kills, reported>>
              \/ ~Verified(up[p].release, bytes) /\ FailUpdate(p)

\* verify_staged_version runs the temporary file, which must still be there.
VerifyStagedVersion(p) ==
    /\ At(p, "verify")
    /\ \/ FailUpdate(p)                                       \* it fails, or takes too long
       \/ /\ temps[p] # Absent /\ temps[p].ver = Releases[up[p].release].tag
          /\ GoTo(p, "staged")
          /\ UNCHANGED <<windows, published, executable, temps, lockPath, inodes, starts, kills, reported>>

StagedIdentity(p) ==
    /\ At(p, "staged")
    /\ \/ temps[p] # up[p].staged /\ FailUpdate(p)
       \/ /\ temps[p] = up[p].staged
          /\ GoTo(p, "revalidate")
          /\ UNCHANGED <<windows, published, executable, temps, lockPath, inodes, starts, kills, reported>>

RevalidateOriginal(p) ==
    /\ At(p, "revalidate")
    /\ \/ executable # up[p].original /\ FailUpdate(p)
       \/ /\ executable = up[p].original
          /\ GoTo(p, IF windows THEN "handoff" ELSE "replace")
          /\ UNCHANGED <<windows, published, executable, temps, lockPath, inodes, starts, kills, reported>>

\* Unix: the temporary file is renamed to the executable.
ReplaceExistingFile(p) ==
    /\ At(p, "replace") /\ p \in Updating
    /\ \/ FailUpdate(p)
       \/ /\ temps[p] # Absent
          /\ executable' = temps[p]
          /\ LeaveUpdate(p)
          /\ reported' = [reported EXCEPT ![p[1]] = "updated"]
          /\ UNCHANGED <<windows, published, lockPath, inodes, starts, kills>>

\* Windows: a copy of the new binary is started as the helper; files and lock path stay.
HandoffWindows(p) ==
    /\ At(p, "handoff")
    /\ \/ FailUpdate(p)                                       \* the copy or the start fails
       \/ /\ temps[p] = up[p].staged
          /\ temps' = [temps EXCEPT ![HelperOf(p)] = temps[p]]
          /\ up' = [up EXCEPT ![p].retain = TRUE, ![p].pc = "unlock",
                              ![HelperOf(p)] = [up[p] EXCEPT !.pc = "open", !.holds = FALSE]]
          /\ reported' = [reported EXCEPT ![p[1]] = "updated"]
          /\ UNCHANGED <<windows, published, executable, lockPath, inodes, starts, kills>>

\* run_windows_helper, one round: both files are checked again, then replaced or tried again.
HelperChecks(h) ==
    /\ At(h, "inspect") /\ h \in Helping
    /\ \/ FailUpdate(h)                                       \* errors, or the deadline
       \/ executable # up[h].original /\ FailUpdate(h)
       \/ temps[OwnerOf(h)] # up[h].staged /\ FailUpdate(h)
       \/ /\ executable = up[h].original /\ temps[OwnerOf(h)] = up[h].staged
          /\ GoTo(h, "replace")
          /\ UNCHANGED <<windows, published, executable, temps, lockPath, inodes, starts, kills, reported>>

HelperReplaces(h) ==
    /\ At(h, "replace") /\ h \in Helping
    /\ \/ FailUpdate(h)
       \/ /\ GoTo(h, "inspect")                              \* the executable is still in use
          /\ UNCHANGED <<windows, published, executable, temps, lockPath, inodes, starts, kills, reported>>
       \/ /\ temps[OwnerOf(h)] # Absent
          /\ executable' = temps[OwnerOf(h)]
          /\ temps' = [temps EXCEPT ![OwnerOf(h)] = Absent]  \* its own file stays: it runs
          /\ GoTo(h, "unlock")
          /\ UNCHANGED <<windows, published, lockPath, inodes, starts, kills, reported>>

\* The process is killed: the system gives up its lock, its files stay.
KillUpdater(p) ==
    /\ kills < MaxKills /\ up[p].pc \notin {"none", "ended"}
    /\ kills' = kills + 1
    /\ Keep(p, [up[p] EXCEPT !.pc = "ended", !.holds = FALSE])
    /\ reported' = IF p \in Updating THEN [reported EXCEPT ![p[1]] = "killed"] ELSE reported
    /\ UNCHANGED <<windows, published, executable, temps, lockPath, inodes, starts>>

Publish ==
    /\ published < Len(Releases)
    /\ published' = published + 1
    /\ UNCHANGED <<windows, executable, temps, lockPath, inodes, up, starts, kills, reported>>

-----------------------------------------------------------------------------
UpdaterInit ==
    /\ windows \in BOOLEAN
    /\ published = 1
    /\ executable = Binary(1, "good")
    /\ temps = [a \in Agents |-> Absent]
    /\ lockPath = 0 /\ inodes = 0
    /\ up = [a \in Agents |-> NotStarted]
    /\ starts = 0 /\ kills = 0
    /\ reported = [u \in Updaters |-> "nothing"]

UpdateStep(p) ==
    \/ OpenLock(p) \/ TryLock(p) \/ Unlock(p) \/ RemoveLock(p)
    \/ CleanupStaleTemps(p) \/ OriginalIdentity(p) \/ FetchRelease(p) \/ CreateTemporaryFile(p)
    \/ DownloadBinary(p) \/ VerifyStagedVersion(p) \/ StagedIdentity(p) \/ RevalidateOriginal(p)
    \/ ReplaceExistingFile(p) \/ HandoffWindows(p) \/ HelperChecks(p) \/ HelperReplaces(p)

UpdaterNext ==
    \/ \E p \in Agents : StartUpdate(p) \/ UpdateStep(p) \/ KillUpdater(p)
    \/ Publish

UpdaterSpec == UpdaterInit /\ [][UpdaterNext]_updaterVars

-----------------------------------------------------------------------------
(* Properties.                                                             *)

(* Whatever is killed, whatever a server sends and however updaters        *)
(* overlap, the executable is a whole binary whose hash and version were   *)
(* those of a published release: a temporary that another updater removes, *)
(* replaces or leaves behind is never installed half or unchecked.         *)
InstalledIsVerified == executable.is = "good" /\ executable.ver \in {1} \cup { Releases[r].tag : r \in Public }

(* On Unix, when nothing is killed, a temporary file belongs to an updater *)
(* that is at work: every failure removes it, and nothing that was never   *)
(* verified stays beside the executable.                                   *)
NoTemporaryIsLeft ==
    ~windows /\ kills = 0 =>
        \A p \in Agents : temps[p] # Absent =>
            p \in Updating /\ up[p].pc \notin {"none", "open", "lock", "remove", "ended"}

(* What makes them inductive.  From its verification on, the temporary     *)
(* file is the verified binary or gone, for the helper as well, whose      *)
(* updater has done with it; and only then may it be installed.            *)
Inactive  == {"none", "ended"}
Verifying == {"staged", "revalidate", "replace", "handoff"}
Holding   == {"download", "verify"} \cup Verifying
UpdatePlaces ==
    {"none", "open", "lock", "clean", "identity", "fetch", "create", "unlock", "remove", "ended"} \cup Holding
HelpPlaces == {"none", "open", "lock", "inspect", "replace", "unlock", "remove", "ended"}

Bytes == [ver : Nat, is : {"absent", "part", "good"} \cup { Releases[r].bytes : r \in 1..Len(Releases) }]
UpStates ==
    [pc : UpdatePlaces \cup HelpPlaces, inode : Nat, holds : BOOLEAN, retain : BOOLEAN, version : Nat,
     info : Bytes, original : Bytes, release : Nat, staged : Bytes]

UpdaterTypeOK ==
    /\ windows \in BOOLEAN /\ published \in 1..Len(Releases) /\ executable \in Bytes
    /\ temps \in [Agents -> Bytes] /\ {lockPath, inodes, kills} \subseteq Nat /\ up \in [Agents -> UpStates]

\* What an updater in state x has made sure of, when its temporary file holds own.
UpdateOK(x, own) ==
    /\ x.pc \in UpdatePlaces
    /\ x.pc \in Holding \cup {"create"} => x.release \in Public
    /\ x.pc \in Verifying \cup {"verify"} => x.staged.is = "good" /\ own \in {Absent, x.staged}
    /\ x.pc \in Verifying => x.staged.ver = Releases[x.release].tag
    /\ x.pc = "handoff" => windows

\* ... and its helper, which works with the same file.
HelpOK(x, own) ==
    /\ x.pc \in HelpPlaces
    /\ x.pc \in {"open", "lock", "inspect", "replace"} =>
           /\ x.release \in Public
           /\ x.staged.is = "good" /\ own \in {Absent, x.staged} /\ x.staged.ver = Releases[x.release].tag
    /\ x.pc # "none" => windows

StagedInv ==
    \A p \in Updating :
        /\ UpdateOK(up[p], temps[p]) /\ HelpOK(up[HelperOf(p)], temps[p])
        /\ up[HelperOf(p)].pc \notin Inactive => up[p].pc \in {"unlock", "remove", "ended"}

TempInv ==
    ~windows /\ kills = 0 => \A p \in Agents : temps[p] # Absent => p \in Updating /\ up[p].pc \in Holding

UpdaterInv == UpdaterTypeOK /\ StagedInv /\ TempInv /\ InstalledIsVerified
=============================================================================

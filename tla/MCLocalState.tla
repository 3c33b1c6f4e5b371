---------------------------- MODULE MCLocalState ----------------------------
(***************************************************************************)
(* The parts of AETHER that keep state on disk outside the repository, for *)
(* TLC: the session journal, the updater's directory, the Obscura          *)
(* installation and the private files.  They share nothing: a behaviour of *)
(* the run is a behaviour of one of them, which Init chooses, while the    *)
(* others stay in an initial state.                                        *)
(***************************************************************************)
EXTENDS SessionJournal, Updater, Installation, PrivateFiles

VARIABLE part

partVars == <<part, vars, updaterVars, installVars, fileVars>>

\* Turns of sizes such that a few of them force compaction.
SmallTurnSizes == {2, 3}

Assets == << [name |-> "binary", state |-> "uploaded", huge |-> FALSE],
             [name |-> "sums", state |-> "unknown", huge |-> FALSE] >>

Release(tag, reports, bytes) ==
    [tag |-> tag, draft |-> FALSE, assets |-> Assets, reports |-> reports, bytes |-> bytes,
     sums |-> <<[name |-> "binary", valid |-> TRUE, hash |-> "good"]>>]

\* A good update, a draft, a wrong version, a corrupt download, a missing asset, a bad tag.
MCReleases ==
    << Release(2, 2, "good"), [Release(9, 9, "good") EXCEPT !.draft = TRUE], Release(3, 2, "good"),
       Release(4, 4, "corrupt"), [Release(5, 5, "good") EXCEPT !.assets = Tail(Assets)],
       Release(0, 6, "good") >>

Member(type, name, bytes, wrong) ==
    [type |-> type, name |-> name, declared |-> bytes, actual |-> bytes, wrong |-> wrong]
File(name, bytes) == Member("file", name, bytes, FALSE)
Wrong(name, bytes) == Member("file", name, bytes, TRUE)

\* Complete, of another version, one file, too large, a file twice, a link.
MCArchives ==
    { <<File("binary", 1), File("worker", 1)>>, <<File("worker", 2), Wrong("binary", 1)>>,
      <<File("binary", 1)>>, <<File("binary", 2), File("worker", 2)>>,
      <<File("binary", 1), File("worker", 1), Wrong("binary", 1)>>,
      <<File("binary", 1), Member("link", "worker", 1, FALSE)>> }

\* Three appointments, one that cannot be normalized, one that names a password.
Draft(n) == [n |-> n, title |-> "plain", shape |-> TRUE, instant |-> TRUE, offset |-> 60, minutes |-> 30,
             location |-> "none", notes |-> "lines", attendees |-> <<"plain">>, secret |-> FALSE]
MCDrafts == { Draft(1), Draft(2), Draft(3), [Draft(4) EXCEPT !.minutes = 1441],
              [Draft(5) EXCEPT !.secret = TRUE] }

\* The initial state of a part that stays idle.
NoUpdate == windows = FALSE
NoInstallation == installDir = "none" /\ archive = <<File("binary", 1)>>
NoFiles == indirect = {} /\ metadata = "absent"

PartsInit ==
    /\ Init /\ UpdaterInit /\ InstallationInit /\ FilesInit
    /\ \/ part = "journal" /\ NoUpdate /\ NoInstallation /\ NoFiles
       \/ part = "updater" /\ NoInstallation /\ NoFiles
       \/ part = "installation" /\ NoUpdate /\ NoFiles
       \/ part = "files" /\ NoUpdate /\ NoInstallation

JournalPart == part = "journal" /\ Next /\ UNCHANGED <<part, updaterVars, installVars, fileVars>>
UpdaterPart == part = "updater" /\ UpdaterNext /\ UNCHANGED <<part, vars, installVars, fileVars>>
InstallationPart == part = "installation" /\ InstallationNext /\ UNCHANGED <<part, vars, updaterVars, fileVars>>
FilesPart == part = "files" /\ FilesNext /\ UNCHANGED <<part, vars, updaterVars, installVars>>

PartsNext == JournalPart \/ UpdaterPart \/ InstallationPart \/ FilesPart

PartsSpec == PartsInit /\ [][PartsNext]_partVars
=============================================================================

---------------------------- MODULE PrivateFiles ----------------------------
(***************************************************************************)
(* The private state of AETHER outside the repository: the directories of  *)
(* the state root, the metadata file that ties a directory to its          *)
(* workspace, the appointments of the workspace and the configuration.     *)
(* Several AETHER processes use them without a lock; each may be killed    *)
(* anywhere and started again, with the process id it had before.          *)
(*                                                                         *)
(* A file is written beside its place and moved there, so what a process   *)
(* leaves when it is killed is a temporary file, named by the process id   *)
(* and a number that starts again with the process.                        *)
(***************************************************************************)
EXTENDS Integers, Sequences, FiniteSets, SequencesExt

CONSTANTS
    Shells,           \* the AETHER processes, named by their process id
    Drafts,           \* what users enter: fields as the classes of text and numbers they are in
    Models,           \* the models that users make the default
    MaxAppointments,  \* MAX_APPOINTMENTS
    MaxShells,        \* bound: processes that are started
    MaxOperations,    \* bound: operations that users begin
    MaxDirectories    \* root, workspaces, the workspace and sessions: 4

ASSUME PrivateFilesAssumption ==
    /\ IsFiniteSet(Shells) /\ IsFiniteSet(Drafts)
    /\ {MaxAppointments, MaxShells, MaxOperations, MaxDirectories} \subseteq Nat

VARIABLES
    indirect,      \* the places where a link or something else than a file or directory is
    directories,   \* how many directories of the chain exist
    metadata,      \* the metadata file: absent, own, foreign
    appointments,  \* the appointment file: its records, in order
    config,        \* the configuration file: default model and credential helper
    remains,       \* temporary files on disk: kind, process id, number
    sh,            \* per process: place, operation, counters and what it has read
    begun,         \* processes started so far
    operations,    \* operations begun so far
    confirmed,     \* history: the appointments that a card confirmed
    overlapped     \* history: a file was replaced that had changed since it was read

fileVars == <<indirect, directories, metadata, appointments, config, remains, sh, begun, operations, confirmed, overlapped>>

NoDraft == [n |-> 0]
Down == [pc |-> "down", op |-> "none", then |-> "none", resolved |-> 0, written |-> 0,
         draft |-> NoDraft, read |-> <<>>, cfg |-> [model |-> "none", helper |-> 0]]

Update(s, fields) == sh' = [sh EXCEPT ![s] = fields]
Go(s, pc) == Update(s, [sh[s] EXCEPT !.pc = pc])
In(s, pc) == sh[s].pc = pc

\* The operation ends with an error; the shell goes on.
Prompt(s) == [sh[s] EXCEPT !.pc = "prompt", !.op = "none", !.then = "none", !.draft = NoDraft, !.read = <<>>]
GiveUp(s) == Update(s, Prompt(s))
MetadataName(s) == <<"metadata", s, sh[s].resolved>>
ReplacementName(s) == <<"appointments", s, sh[s].written>>

-----------------------------------------------------------------------------
(* WorkspaceLayout::resolve, which every operation on a file begins with.  *)

\* prepare_directories: one after the other, each must be a real directory.
PrepareDirectories(s) ==
    /\ In(s, "directories")
    /\ \/ /\ directories < MaxDirectories /\ "directory" \notin indirect
          /\ directories' = directories + 1
          /\ UNCHANGED sh
       \/ /\ directories = MaxDirectories
          /\ Go(s, "metadata")
          /\ UNCHANGED directories
       \/ /\ "directory" \in indirect
          /\ GiveUp(s)
          /\ UNCHANGED directories
    /\ UNCHANGED <<indirect, metadata, appointments, config, remains, begun, operations, confirmed, overlapped>>

\* ensure_workspace_metadata, the temporary file: a name that exists is an error.
WriteMetadata(s) ==
    /\ In(s, "metadata")
    /\ LET name == MetadataName(s) IN
       IF name \in remains
       THEN /\ Update(s, [Prompt(s) EXCEPT !.resolved = @ + 1])
            /\ UNCHANGED remains
       ELSE remains' = remains \cup {name} /\ Go(s, "link")
    /\ UNCHANGED <<indirect, directories, metadata, appointments, config, begun, operations, confirmed, overlapped>>

\* validate_workspace_metadata: a regular file that names this workspace.
ValidMetadata(found) == found = "own" /\ "metadata" \notin indirect

\* The link: the first process installs the file, the others compare it with their workspace.
LinkMetadata(s) ==
    /\ In(s, "link")
    /\ metadata' = IF metadata = "absent" THEN "own" ELSE metadata
    /\ remains' = remains \ {MetadataName(s)}
    /\ IF ValidMetadata(metadata')
       THEN Update(s, [sh[s] EXCEPT !.pc = sh[s].then, !.resolved = @ + 1])
       ELSE Update(s, [Prompt(s) EXCEPT !.resolved = @ + 1])
    /\ UNCHANGED <<indirect, directories, appointments, config, begun, operations, confirmed, overlapped>>

-----------------------------------------------------------------------------
(* The appointment card.                                                   *)

\* required_text and validate_bounded: a text that is neither empty, too long nor with
\* control characters; notes may have lines.
RequiredText(text, lines) == text = "plain" \/ (lines /\ text = "lines")
OptionalText(text, lines) == text = "none" \/ RequiredText(text, lines)

\* parse_start: a date, a time and an offset of the right shape that name an instant
\* whose UTC form has a year of four digits.
ParsesStart(d) == d.shape /\ d.instant /\ d.offset \in -1439..1439

\* AppointmentDraft::normalize, with Appointment::validate on what it has made.
Normalizes(d) ==
    /\ RequiredText(d.title, FALSE)
    /\ ParsesStart(d)
    /\ d.minutes \in 1..1440
    /\ OptionalText(d.location, FALSE) /\ OptionalText(d.notes, TRUE)
    /\ Len(d.attendees) <= 16 /\ \A a \in 1..Len(d.attendees) : RequiredText(d.attendees[a], FALSE)

\* LocalCalendarAdapter::open: the directories are made before the draft is looked at.
Schedule(s, draft) ==
    /\ In(s, "prompt") /\ operations < MaxOperations /\ operations' = operations + 1
    /\ draft \notin confirmed /\ \A t \in Shells : sh[t].draft # draft
    /\ Update(s, [sh[s] EXCEPT !.op = "schedule", !.draft = draft, !.pc = "directories", !.then = "normalize"])
    /\ UNCHANGED <<indirect, directories, metadata, appointments, config, remains, begun, confirmed, overlapped>>

\* AppointmentStore::create up to the read, which resolves the directories again.
Normalize(s) ==
    /\ In(s, "normalize")
    /\ IF Normalizes(sh[s].draft)
       THEN Update(s, [sh[s] EXCEPT !.pc = "directories", !.then = "read"])
       ELSE GiveUp(s)
    /\ UNCHANGED <<indirect, directories, metadata, appointments, config, remains, begun, operations, confirmed, overlapped>>

\* read: the whole file; the new record is added in memory and looked through for secrets.
ReadAppointments(s) ==
    /\ In(s, "read")
    /\ IF "appointments" \in indirect \/ Len(appointments) >= MaxAppointments \/ sh[s].draft.secret
       THEN GiveUp(s)
       ELSE Update(s, [sh[s] EXCEPT !.read = appointments, !.pc = "directories", !.then = "create"])
    /\ UNCHANGED <<indirect, directories, metadata, appointments, config, remains, begun, operations, confirmed, overlapped>>

\* replace_atomically: the temporary file, its bytes, then the rename.
CreateReplacement(s) ==
    /\ In(s, "create")
    /\ LET name == ReplacementName(s) IN
       IF name \in remains
       THEN /\ Update(s, [Prompt(s) EXCEPT !.written = @ + 1])
            /\ UNCHANGED remains
       ELSE remains' = remains \cup {name} /\ Go(s, "install")
    /\ UNCHANGED <<indirect, directories, metadata, appointments, config, begun, operations, confirmed, overlapped>>

\* The file is opened for writing, which empties it, and then written.
InstallInPlace(s) ==
    /\ In(s, "install")
    /\ IF appointments # <<>> /\ sh[s].read # <<>> /\ appointments = sh[s].read
       THEN appointments' = <<>> /\ UNCHANGED <<remains, overlapped, confirmed, sh>>
       ELSE /\ appointments' = Append(sh[s].read, sh[s].draft)
            /\ remains' = remains \ {ReplacementName(s)}
            /\ confirmed' = confirmed \cup {sh[s].draft} /\ UNCHANGED overlapped
            /\ Update(s, [Prompt(s) EXCEPT !.written = @ + 1])
    /\ UNCHANGED <<indirect, directories, metadata, config, begun, operations>>

InstallReplacement(s) ==
    /\ In(s, "install")
    /\ remains' = remains \ {ReplacementName(s)}
    /\ \/ /\ appointments' = Append(sh[s].read, sh[s].draft)
          /\ overlapped' = (overlapped \/ appointments # sh[s].read)
          /\ confirmed' \in {confirmed, confirmed \cup {sh[s].draft}}   \* the sync may fail
       \/ UNCHANGED <<appointments, overlapped, confirmed>>     \* the disk is full
    /\ Update(s, [Prompt(s) EXCEPT !.written = @ + 1])
    /\ UNCHANGED <<indirect, directories, metadata, config, begun, operations>>

-----------------------------------------------------------------------------
(* The configuration: loaded when the shell starts or resumes a session;   *)
(* /config saves that copy with the current model as the default.          *)

SaveConfig(s, model) ==
    /\ In(s, "prompt") /\ operations < MaxOperations /\ operations' = operations + 1
    /\ "config" \notin indirect
    /\ Update(s, [sh[s] EXCEPT !.pc = "save", !.op = "config", !.cfg.model = model])
    /\ UNCHANGED <<indirect, directories, metadata, appointments, config, remains, begun, confirmed, overlapped>>

\* The temporary name has the time in it: it is always new.
InstallConfig(s) ==
    /\ In(s, "save")
    /\ \/ config' = sh[s].cfg /\ GiveUp(s)
       \/ UNCHANGED config /\ GiveUp(s)
    /\ UNCHANGED <<indirect, directories, metadata, appointments, remains, begun, operations, confirmed, overlapped>>

\* `aether config edit': the user's editor changes the credential helper.
EditConfig ==
    /\ config.helper = 0
    /\ config' = [config EXCEPT !.helper = 1]
    /\ UNCHANGED <<indirect, directories, metadata, appointments, remains, sh, begun, operations, confirmed, overlapped>>

-----------------------------------------------------------------------------
\* load: nothing when the path is a link or something else than a file.
LoadConfig == IF "config" \in indirect THEN {} ELSE {config}

\* A process starts, loads the configuration and counts its temporary files from zero.
StartShell(s) ==
    /\ In(s, "down") /\ begun < MaxShells
    /\ begun' = begun + 1
    /\ \/ LoadConfig = {} /\ UNCHANGED sh                         \* the shell ends with an error
       \/ \E loaded \in LoadConfig : Update(s, [Down EXCEPT !.pc = "prompt", !.cfg = loaded])
    /\ UNCHANGED <<indirect, directories, metadata, appointments, config, remains, operations, confirmed, overlapped>>

KillShell(s) ==
    /\ ~In(s, "down")
    /\ Update(s, Down)
    /\ UNCHANGED <<indirect, directories, metadata, appointments, config, remains, begun, operations, confirmed, overlapped>>

FilesInit ==
    /\ indirect \in {{}} \cup { {x} : x \in {"directory", "metadata", "appointments", "config"} }
    /\ directories = IF "directory" \in indirect THEN 1 ELSE 0
    /\ metadata \in {"absent", "foreign"} /\ appointments = <<>>
    /\ config = [model |-> "none", helper |-> 0]
    /\ remains = {} /\ sh = [s \in Shells |-> Down] /\ begun = 0 /\ operations = 0
    /\ confirmed = {} /\ overlapped = FALSE

FilesNext ==
    \/ \E s \in Shells :
          \/ StartShell(s) \/ KillShell(s)
          \/ PrepareDirectories(s) \/ WriteMetadata(s) \/ LinkMetadata(s)
          \/ \E d \in Drafts : Schedule(s, d)
          \/ Normalize(s) \/ ReadAppointments(s) \/ CreateReplacement(s) \/ InstallReplacement(s)
          \/ \E m \in Models : SaveConfig(s, m)
          \/ InstallConfig(s)
    \/ EditConfig

FilesSpec == FilesInit /\ [][FilesNext]_fileVars

-----------------------------------------------------------------------------
(* Properties.                                                             *)

(* An appointment that a card has confirmed is in the file, whatever is    *)
(* killed between the read and the rename, and the file stays within       *)
(* MAX_APPOINTMENTS, so that it can be read again; unless a process has    *)
(* put back a file that another process had changed since it was read: the *)
(* store has no lock.                                                      *)
NothingConfirmedIsLost ==
    /\ overlapped \/ confirmed \subseteq ToSet(appointments)
    /\ Len(appointments) <= MaxAppointments

(* What makes it inductive.  A record is added to what was read when there *)
(* was room for it, however many directories are made in between.          *)
Config == [model : Models \cup {"none"}, helper : {0, 1}]
ShellStates ==
    [pc : {"down", "prompt", "directories", "metadata", "link", "normalize", "read", "create", "install", "save"},
     op : {"none", "schedule", "config"}, then : {"none", "normalize", "read", "create"},
     resolved : Nat, written : Nat, draft : Drafts \cup {NoDraft}, read : Seq(Drafts), cfg : Config]

FilesTypeOK ==
    /\ appointments \in Seq(Drafts) /\ confirmed \subseteq Drafts /\ overlapped \in BOOLEAN
    /\ config \in Config /\ sh \in [Shells -> ShellStates]

ScheduleInv ==
    \A s \in Shells :
        /\ sh[s].pc \in {"directories", "metadata", "link"} => sh[s].then # "none"
        /\ sh[s].pc \in {"normalize", "read", "create"} => sh[s].then = sh[s].pc
        /\ sh[s].pc = "install" => sh[s].then = "create"
        /\ sh[s].then # "none" => sh[s].draft \in Drafts
        /\ sh[s].then = "create" => Len(sh[s].read) < MaxAppointments

(* A process that is alone installs the file that it has read.             *)
AloneInv ==
    (\A s, t \in Shells : s = t) =>
        /\ ~overlapped
        /\ \A s \in Shells : sh[s].then = "create" => sh[s].read = appointments

FilesInv == FilesTypeOK /\ ScheduleInv /\ AloneInv /\ NothingConfirmedIsLost
=============================================================================

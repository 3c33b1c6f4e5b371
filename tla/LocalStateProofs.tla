--------------------------- MODULE LocalStateProofs ---------------------------
(***************************************************************************)
(* For any number of processes and any limits: what AETHER keeps outside   *)
(* the repository is not lost, and what it installs there is what was      *)
(* published.  Three components that share nothing, and each is killed     *)
(* anywhere: the private files, the Obscura installation, the updater.     *)
(***************************************************************************)
EXTENDS Updater, Installation, PrivateFiles, TLAPS

-----------------------------------------------------------------------------
(* The private files.                                                      *)

(* What a process may know of the appointments while it goes on.           *)
ShellOK(x) ==
    /\ x \in ShellStates
    /\ x.pc \in {"directories", "metadata", "link"} => x.then # "none"
    /\ x.pc \in {"normalize", "read", "create"} => x.then = x.pc
    /\ x.pc = "install" => x.then = "create"
    /\ x.then # "none" => x.draft \in Drafts
    /\ x.then = "create" => Len(x.read) < MaxAppointments

(* A step of one process that leaves the appointments alone.               *)
LEMMA QuietShell ==
    ASSUME FilesInv, NEW s \in Shells, NEW x, ShellOK(x),
           sh' = [sh EXCEPT ![s] = x], config' \in Config,
           UNCHANGED <<appointments, confirmed, overlapped>>,
           x.then = "create" => x.read = appointments \/ (sh[s].then = "create" /\ x.read = sh[s].read)
    PROVE  FilesInv'
<1> USE DEF FilesInv
<1>1. sh'[s] = x /\ \A t \in Shells \ {s} : sh'[t] = sh[t]
  BY DEF FilesTypeOK
<1>2. FilesTypeOK'
  BY DEF FilesTypeOK, ShellOK
<1>3. ScheduleInv'
  BY <1>1 DEF ScheduleInv, ShellOK
<1>4. AloneInv'
  BY <1>1 DEF AloneInv
<1>5. NothingConfirmedIsLost'
  BY DEF NothingConfirmedIsLost
<1> QED
  BY <1>2, <1>3, <1>4, <1>5

LEMMA ShellIsOK ==
    ASSUME FilesInv, NEW s \in Shells
    PROVE  ShellOK(sh[s])
BY DEF FilesInv, FilesTypeOK, ScheduleInv, ShellOK

LEMMA DownIsOK == Down \in ShellStates /\ Down.then = "none" /\ Down.pc = "down"
<1>1. <<>> \in Seq(Drafts)
  OBVIOUS
<1> QED
  BY <1>1 DEF Down, ShellStates, Config, NoDraft

LEMMA PromptIsOK ==
    ASSUME FilesInv, NEW s \in Shells
    PROVE  /\ Prompt(s) \in ShellStates /\ Prompt(s).then = "none" /\ Prompt(s).pc = "prompt"
           /\ Prompt(s).resolved = sh[s].resolved /\ Prompt(s).written = sh[s].written
<1>1. <<>> \in Seq(Drafts)
  OBVIOUS
<1>2. sh[s] \in ShellStates
  BY DEF FilesInv, FilesTypeOK
<1> QED
  BY <1>1, <1>2 DEF Prompt, ShellStates

LEMMA PromptCounts ==
    ASSUME FilesInv, NEW s \in Shells, NEW x,
           \/ x = Prompt(s)
           \/ x = [Prompt(s) EXCEPT !.resolved = @ + 1]
           \/ x = [Prompt(s) EXCEPT !.written = @ + 1]
    PROVE  ShellOK(x) /\ x.then = "none"
<1> DEFINE y == Prompt(s)
<1>1. y \in ShellStates /\ y.then = "none" /\ y.pc = "prompt"
  BY PromptIsOK
<1> HIDE DEF y
<1>2. x = y \/ x = [y EXCEPT !.resolved = @ + 1] \/ x = [y EXCEPT !.written = @ + 1]
  BY DEF y
<1>3. x \in ShellStates /\ x.then = "none" /\ x.pc = "prompt"
  BY <1>1, <1>2 DEF ShellStates
<1> QED
  BY <1>3 DEF ShellOK

LEMMA FilesInitially == ASSUME FilesInit PROVE FilesInv
<1>1. <<>> \in Seq(Drafts) /\ Len(<<>>) = 0
  OBVIOUS
<1>2. \A s \in Shells : sh[s] = Down
  BY DEF FilesInit
<1> USE DEF FilesInit
<1>3. FilesTypeOK
  BY <1>1, DownIsOK DEF FilesTypeOK, Config
<1>4. ScheduleInv
  BY <1>2, DownIsOK DEF ScheduleInv
<1>5. AloneInv
  BY <1>2, DownIsOK DEF AloneInv
<1>6. NothingConfirmedIsLost
  BY <1>1, PrivateFilesAssumption DEF NothingConfirmedIsLost, PrivateFilesAssumption
<1> QED
  BY <1>3, <1>4, <1>5, <1>6 DEF FilesInv

(* The resolution of the layout: a process goes on with what it had.       *)
LEMMA ResolveStep ==
    ASSUME FilesInv, NEW s \in Shells, PrepareDirectories(s) \/ WriteMetadata(s) \/ LinkMetadata(s)
    PROVE  FilesInv'
<1> DEFINE y == sh[s]
<1>1. ShellOK(y)
  BY ShellIsOK
<1> HIDE DEF y
<1>2. /\ UNCHANGED <<appointments, confirmed, overlapped, config>>
      /\ \E x : /\ sh' = [sh EXCEPT ![s] = x]
                /\ \/ x = y
                   \/ y.pc = "directories" /\ x = [y EXCEPT !.pc = "metadata"]
                   \/ y.pc = "metadata" /\ x = [y EXCEPT !.pc = "link"]
                   \/ y.pc = "link" /\ x = [y EXCEPT !.pc = y.then, !.resolved = @ + 1]
                   \/ x = Prompt(s)
                   \/ x = [Prompt(s) EXCEPT !.resolved = @ + 1]
  <2>1. sh = [sh EXCEPT ![s] = y]
    BY DEF FilesInv, FilesTypeOK, y
  <2>2. CASE PrepareDirectories(s)
    BY <2>1, <2>2 DEF PrepareDirectories, Go, GiveUp, Update, In, y
  <2>3. CASE WriteMetadata(s)
    BY <2>3 DEF WriteMetadata, Go, Update, In, y
  <2>4. CASE LinkMetadata(s)
    BY <2>4 DEF LinkMetadata, Update, In, y
  <2> QED
    BY <2>2, <2>3, <2>4
<1>3. PICK x : /\ sh' = [sh EXCEPT ![s] = x]
               /\ \/ x = y
                  \/ y.pc = "directories" /\ x = [y EXCEPT !.pc = "metadata"]
                  \/ y.pc = "metadata" /\ x = [y EXCEPT !.pc = "link"]
                  \/ y.pc = "link" /\ x = [y EXCEPT !.pc = y.then, !.resolved = @ + 1]
                  \/ x = Prompt(s)
                  \/ x = [Prompt(s) EXCEPT !.resolved = @ + 1]
  BY <1>2
<1>4. ShellOK(x) /\ (x.then = "create" => y.then = "create" /\ x.read = y.read)
  <2>1. CASE x = Prompt(s) \/ x = [Prompt(s) EXCEPT !.resolved = @ + 1]
    BY <2>1, PromptCounts
  <2>2. CASE \/ x = y
             \/ y.pc = "directories" /\ x = [y EXCEPT !.pc = "metadata"]
             \/ y.pc = "metadata" /\ x = [y EXCEPT !.pc = "link"]
    BY <1>1, <2>2 DEF ShellOK, ShellStates
  <2>3. CASE y.pc = "link" /\ x = [y EXCEPT !.pc = y.then, !.resolved = @ + 1]
    <3>1. y \in ShellStates /\ y.then # "none"
      BY <1>1, <2>3 DEF ShellOK
    <3>2. x \in ShellStates
      <4>1. y.then \in {"down", "prompt", "directories", "metadata", "link", "normalize", "read", "create",
                       "install", "save"} /\ y.resolved + 1 \in Nat
        BY <3>1 DEF ShellStates
      <4> DEFINE n == y.resolved + 1
                 c == y.then
      <4>2. x = [y EXCEPT !.pc = c, !.resolved = n]
        BY <2>3, <3>1 DEF ShellStates
      <4> HIDE DEF n, c
      <4> QED
        BY <3>1, <4>1, <4>2 DEF ShellStates, n, c
    <3>3. x.pc = y.then /\ x.then = y.then /\ x.draft = y.draft /\ x.read = y.read
      BY <2>3, <3>1 DEF ShellStates
    <3>4. y.then \in {"none", "normalize", "read", "create"}
      BY <3>1 DEF ShellStates
    <3> QED
      BY <1>1, <3>1, <3>2, <3>3, <3>4 DEF ShellOK
  <2> QED
    BY <1>3, <2>1, <2>2, <2>3
<1>5. config' \in Config
  BY <1>2 DEF FilesInv, FilesTypeOK
<1> QED
  BY <1>2, <1>3, <1>4, <1>5, QuietShell DEF y

(* The card up to the temporary file: only the read looks at the file.     *)
LEMMA ScheduleStep ==
    ASSUME FilesInv, NEW s \in Shells,
           \/ \E d \in Drafts : Schedule(s, d)
           \/ Normalize(s) \/ ReadAppointments(s) \/ CreateReplacement(s)
    PROVE  FilesInv'
<1> DEFINE y == sh[s]
<1>1. ShellOK(y)
  BY ShellIsOK
<1> HIDE DEF y
<1>2. UNCHANGED <<appointments, confirmed, overlapped, config>>
  BY DEF Schedule, Normalize, ReadAppointments, CreateReplacement
<1>3. \E x : /\ sh' = [sh EXCEPT ![s] = x]
             /\ \/ \E d \in Drafts : x = [y EXCEPT !.op = "schedule", !.draft = d, !.pc = "directories",
                                                   !.then = "normalize"]
                \/ y.pc = "normalize" /\ x = [y EXCEPT !.pc = "directories", !.then = "read"]
                \/ /\ y.pc = "read" /\ ~(Len(appointments) >= MaxAppointments)
                   /\ x = [y EXCEPT !.read = appointments, !.pc = "directories", !.then = "create"]
                \/ y.pc = "create" /\ x = [y EXCEPT !.pc = "install"]
                \/ x = Prompt(s)
                \/ x = [Prompt(s) EXCEPT !.written = @ + 1]
  BY DEF Schedule, Normalize, ReadAppointments, CreateReplacement, Go, GiveUp, Update, In, y
<1>4. PICK x : /\ sh' = [sh EXCEPT ![s] = x]
               /\ \/ \E d \in Drafts : x = [y EXCEPT !.op = "schedule", !.draft = d, !.pc = "directories",
                                                     !.then = "normalize"]
                  \/ y.pc = "normalize" /\ x = [y EXCEPT !.pc = "directories", !.then = "read"]
                  \/ /\ y.pc = "read" /\ ~(Len(appointments) >= MaxAppointments)
                     /\ x = [y EXCEPT !.read = appointments, !.pc = "directories", !.then = "create"]
                  \/ y.pc = "create" /\ x = [y EXCEPT !.pc = "install"]
                  \/ x = Prompt(s)
                  \/ x = [Prompt(s) EXCEPT !.written = @ + 1]
  BY <1>3
<1>5. appointments \in Seq(Drafts) /\ Len(appointments) \in Nat /\ MaxAppointments \in Nat
  BY PrivateFilesAssumption DEF FilesInv, FilesTypeOK, PrivateFilesAssumption
<1>6. /\ ShellOK(x)
      /\ x.then = "create" => x.read = appointments \/ (y.then = "create" /\ x.read = y.read)
  <2>1. CASE x = Prompt(s) \/ x = [Prompt(s) EXCEPT !.written = @ + 1]
    BY <2>1, PromptCounts
  <2>2. CASE \E d \in Drafts : x = [y EXCEPT !.op = "schedule", !.draft = d, !.pc = "directories",
                                             !.then = "normalize"]
    BY <1>1, <2>2 DEF ShellOK, ShellStates
  <2>3. CASE y.pc = "normalize" /\ x = [y EXCEPT !.pc = "directories", !.then = "read"]
    BY <1>1, <2>3 DEF ShellOK, ShellStates
  <2>4. CASE /\ y.pc = "read" /\ ~(Len(appointments) >= MaxAppointments)
             /\ x = [y EXCEPT !.read = appointments, !.pc = "directories", !.then = "create"]
    <3>1. y \in ShellStates /\ y.draft \in Drafts
      BY <1>1, <2>4 DEF ShellOK
    <3>2. x \in ShellStates
      BY <1>5, <2>4, <3>1 DEF ShellStates
    <3>3. x.pc = "directories" /\ x.then = "create" /\ x.draft = y.draft /\ x.read = appointments
      BY <2>4, <3>1 DEF ShellStates
    <3> QED
      BY <1>5, <2>4, <3>1, <3>2, <3>3 DEF ShellOK
  <2>5. CASE y.pc = "create" /\ x = [y EXCEPT !.pc = "install"]
    BY <1>1, <2>5 DEF ShellOK, ShellStates
  <2> QED
    BY <1>4, <2>1, <2>2, <2>3, <2>4, <2>5
<1>7. config' \in Config
  BY <1>2 DEF FilesInv, FilesTypeOK
<1> QED
  BY <1>2, <1>4, <1>6, <1>7, QuietShell DEF y

(* The rename: the record is added to what was read, which was the file,   *)
(* unless the file has changed since.                                      *)
LEMMA ReplaceStep ==
    ASSUME FilesInv, NEW s \in Shells, InstallReplacement(s)
    PROVE  FilesInv'
<1> DEFINE y == sh[s]
           x == [Prompt(s) EXCEPT !.written = @ + 1]
           after == Append(y.read, y.draft)
<1>1. ShellOK(y) /\ y.pc = "install" /\ sh' = [sh EXCEPT ![s] = x] /\ UNCHANGED config
  BY ShellIsOK DEF InstallReplacement, In, Update
<1>2. ShellOK(x) /\ x.then = "none"
  BY PromptCounts
<1>3. CASE UNCHANGED <<appointments, overlapped, confirmed>>
  <2>1. config' \in Config
    BY <1>1 DEF FilesInv, FilesTypeOK
  <2> QED
    BY <1>1, <1>2, <1>3, <2>1, QuietShell
<1>4. CASE /\ appointments' = after
           /\ overlapped' = (overlapped \/ appointments # y.read)
           /\ confirmed' \in {confirmed, confirmed \cup {y.draft}}
  <2> HIDE DEF x, y
  <2> USE DEF FilesInv
  <2>1. y.draft \in Drafts /\ y.read \in Seq(Drafts) /\ Len(y.read) < MaxAppointments /\ y.then = "create"
    BY <1>1 DEF ShellOK, ShellStates
  <2>2. after \in Seq(Drafts) /\ Len(after) = Len(y.read) + 1 /\ Len(y.read) \in Nat /\ MaxAppointments \in Nat
    BY <2>1, PrivateFilesAssumption DEF PrivateFilesAssumption
  <2>3. sh'[s] = x /\ \A t \in Shells \ {s} : sh'[t] = sh[t]
    BY <1>1 DEF FilesTypeOK
  <2>4. FilesTypeOK'
    BY <1>1, <1>2, <1>4, <2>1, <2>2 DEF FilesTypeOK, ShellOK
  <2>5. ScheduleInv'
    BY <1>2, <2>3 DEF ScheduleInv, ShellOK
  <2>6. AloneInv'
    BY <1>2, <1>4, <2>1, <2>3 DEF AloneInv, y
  <2>7. ToSet(after) = ToSet(y.read) \cup {y.draft}
    <3>1. \A i \in 1..Len(y.read) : after[i] = y.read[i]
      BY <2>1
    <3>2. after[Len(y.read) + 1] = y.draft
      BY <2>1
    <3>3. 1..Len(after) = 1..Len(y.read) \cup {Len(y.read) + 1}
      BY <2>2
    <3> HIDE DEF after
    <3> QED
      BY <3>1, <3>2, <3>3 DEF ToSet
  <2>8. NothingConfirmedIsLost'
    <3>1. overlapped' \/ confirmed' \subseteq ToSet(appointments')
      BY <1>4, <2>7 DEF NothingConfirmedIsLost
    <3>2. Len(appointments') <= MaxAppointments
      BY <1>4, <2>1, <2>2
    <3> QED
      BY <3>1, <3>2 DEF NothingConfirmedIsLost
  <2> QED
    BY <2>4, <2>5, <2>6, <2>8
<1> QED
  BY <1>3, <1>4 DEF InstallReplacement

(* A process starts, is killed, or saves the configuration.                *)
LEMMA OtherShellStep ==
    ASSUME FilesInv, NEW s \in Shells,
           \/ StartShell(s) \/ KillShell(s) \/ InstallConfig(s)
           \/ \E m \in Models : SaveConfig(s, m)
    PROVE  FilesInv'
<1> DEFINE y == sh[s]
<1>1. ShellOK(y) /\ config \in Config
  BY ShellIsOK DEF FilesInv, FilesTypeOK
<1>2. y \in ShellStates
  BY <1>1 DEF ShellOK
<1>3. sh = [sh EXCEPT ![s] = y]
  BY DEF FilesInv, FilesTypeOK
<1> HIDE DEF y
<1>4. /\ UNCHANGED <<appointments, confirmed, overlapped>>
      /\ config' \in Config
      /\ \E x : /\ sh' = [sh EXCEPT ![s] = x]
                /\ \/ x = y
                   \/ x = [Down EXCEPT !.pc = "prompt", !.cfg = config]
                   \/ x = Down
                   \/ x = Prompt(s)
                   \/ \E m \in Models : y.pc = "prompt" /\ x = [y EXCEPT !.pc = "save", !.op = "config", !.cfg.model = m]
  <2>1. CASE StartShell(s)
    BY <1>1, <1>3, <2>1 DEF StartShell, LoadConfig, Update
  <2>2. CASE KillShell(s)
    BY <1>1, <2>2 DEF KillShell, Update
  <2>3. CASE InstallConfig(s)
    <3>1. y.cfg \in Config
      BY <1>2 DEF ShellStates
    <3>2. config' = y.cfg \/ config' = config
      BY <2>3 DEF InstallConfig, y
    <3> QED
      BY <1>1, <2>3, <3>1, <3>2 DEF InstallConfig, GiveUp, Update
  <2>4. CASE \E m \in Models : SaveConfig(s, m)
    BY <1>1, <2>4 DEF SaveConfig, Update, In, y
  <2> QED
    BY <2>1, <2>2, <2>3, <2>4
<1>5. PICK x : /\ sh' = [sh EXCEPT ![s] = x]
               /\ \/ x = y
                  \/ x = [Down EXCEPT !.pc = "prompt", !.cfg = config]
                  \/ x = Down
                  \/ x = Prompt(s)
                  \/ \E m \in Models : y.pc = "prompt" /\ x = [y EXCEPT !.pc = "save", !.op = "config", !.cfg.model = m]
  BY <1>4
<1>6. ShellOK(x) /\ (x.then = "create" => y.then = "create" /\ x.read = y.read)
  <2>1. CASE x = y
    BY <1>1, <2>1
  <2>2. CASE x = Down \/ x = [Down EXCEPT !.pc = "prompt", !.cfg = config]
    <3> DEFINE z == Down
    <3>1. z \in ShellStates /\ z.then = "none" /\ z.pc = "down"
      BY DownIsOK
    <3> HIDE DEF z
    <3>2. x = z \/ x = [z EXCEPT !.pc = "prompt", !.cfg = config]
      BY <2>2 DEF z
    <3> QED
      BY <1>1, <3>1, <3>2 DEF ShellOK, ShellStates
  <2>3. CASE x = Prompt(s)
    BY <2>3, PromptCounts
  <2>4. CASE \E m \in Models : y.pc = "prompt" /\ x = [y EXCEPT !.pc = "save", !.op = "config", !.cfg.model = m]
    <3>1. PICK m \in Models : y.pc = "prompt" /\ x = [y EXCEPT !.pc = "save", !.op = "config", !.cfg.model = m]
      BY <2>4
    <3>2. y.cfg \in Config
      BY <1>2 DEF ShellStates
    <3>3. [y.cfg EXCEPT !.model = m] \in Config
      BY <3>2 DEF Config
    <3>4. x = [y EXCEPT !.pc = "save", !.op = "config", !.cfg = [y.cfg EXCEPT !.model = m]]
      BY <3>1, <1>2 DEF ShellStates
    <3>5. x \in ShellStates /\ x.pc = "save" /\ x.then = y.then /\ x.draft = y.draft /\ x.read = y.read
      BY <1>2, <3>3, <3>4 DEF ShellStates
    <3> QED
      BY <1>1, <3>5 DEF ShellOK
  <2> QED
    BY <1>5, <2>1, <2>2, <2>3, <2>4
<1> QED
  BY <1>4, <1>5, <1>6, QuietShell DEF y

(* FilesInv is inductive.                                                  *)
THEOREM FilesInvHolds == FilesSpec => []FilesInv
<1>1. FilesInit => FilesInv
  BY FilesInitially
<1>2. FilesInv /\ [FilesNext]_fileVars => FilesInv'
  <2> SUFFICES ASSUME FilesInv, [FilesNext]_fileVars PROVE FilesInv'
    OBVIOUS
  <2>1. CASE EditConfig
    <3>1. config' \in Config
      BY <2>1 DEF EditConfig, FilesInv, FilesTypeOK, Config
    <3>2. UNCHANGED <<sh, appointments, confirmed, overlapped>>
      BY <2>1 DEF EditConfig
    <3> QED
      BY <3>1, <3>2
      DEF FilesInv, FilesTypeOK, ScheduleInv, AloneInv, NothingConfirmedIsLost
  <2>2. CASE UNCHANGED fileVars
    BY <2>2 DEF fileVars, FilesInv, FilesTypeOK, ScheduleInv, AloneInv, NothingConfirmedIsLost
  <2>3. ASSUME NEW s \in Shells,
               \/ StartShell(s) \/ KillShell(s)
               \/ PrepareDirectories(s) \/ WriteMetadata(s) \/ LinkMetadata(s)
               \/ \E d \in Drafts : Schedule(s, d)
               \/ Normalize(s) \/ ReadAppointments(s) \/ CreateReplacement(s) \/ InstallReplacement(s)
               \/ \E m \in Models : SaveConfig(s, m)
               \/ InstallConfig(s)
        PROVE  FilesInv'
    BY <2>3, ResolveStep, ScheduleStep, ReplaceStep, OtherShellStep
  <2> QED
    BY <2>1, <2>2, <2>3 DEF FilesNext
<1> QED
  BY <1>1, <1>2, PTL DEF FilesSpec

(* What a card has confirmed is in the file, and the file stays within     *)
(* MAX_APPOINTMENTS, unless one process has put back a file that another   *)
(* had changed (store.rs, create and replace_atomically).                  *)
THEOREM AppointmentsAreKept == FilesSpec => []NothingConfirmedIsLost
<1>1. FilesInv => NothingConfirmedIsLost
  BY DEF FilesInv
<1> QED
  BY <1>1, FilesInvHolds, PTL

(* One process alone, killed and started again at any point, loses nothing.*)
THEOREM OneShellLosesNothing ==
    FilesSpec => []((\A s, t \in Shells : s = t) => confirmed \subseteq ToSet(appointments))
<1>1. FilesInv => ((\A s, t \in Shells : s = t) => confirmed \subseteq ToSet(appointments))
  BY DEF FilesInv, AloneInv, NothingConfirmedIsLost
<1> QED
  BY <1>1, FilesInvHolds, PTL

-----------------------------------------------------------------------------
(* The Obscura installation.                                               *)

(* What the checks of the members come to: two regular files, one for each *)
(* name, of the declared bytes, and together within the limit.             *)
LEMMA TwoMembers ==
    ASSUME archive \in Archives, Extracts(archive), Extracted(archive) = "pair"
    PROVE  /\ Len(archive) = 2 /\ { archive[m].name : m \in 1..2 } = {"binary", "worker"}
           /\ \A m \in 1..2 : archive[m].type = "file" /\ ~(archive[m].name = "binary" /\ archive[m].wrong)
           /\ archive[1].actual + archive[2].actual <= MaxTotalBytes
<1>1. archive \in Seq([type : STRING, name : STRING, declared : Nat, actual : Nat, wrong : BOOLEAN])
  BY InstallationAssumption DEF InstallationAssumption
<1>2. Len(archive) \in Nat
  BY <1>1
<1>3. \A m \in 1..Len(archive) :
          /\ archive[m].type = "file" /\ archive[m].name \in {"binary", "worker"}
          /\ \A k \in 1..(m - 1) : archive[k].name # archive[m].name
          /\ archive[m].actual = archive[m].declared
          /\ Total(archive, m) <= MaxTotalBytes
  <2>1. Names[1] = "binary" /\ Names[2] = "worker"
    BY DEF Names
  <2> QED
    BY <2>1 DEF Extracts, Acceptable
<1>4. /\ \E m \in 1..Len(archive) : archive[m].name = "binary"
      /\ \E m \in 1..Len(archive) : archive[m].name = "worker"
  BY DEF Extracts, Names
<1>5. Len(archive) = 2
  <2>1. ~(Len(archive) >= 3)
    <3> SUFFICES ASSUME Len(archive) >= 3 PROVE FALSE
      OBVIOUS
    <3>1. archive[1].name # archive[2].name /\ archive[1].name # archive[3].name /\ archive[2].name # archive[3].name
      BY <1>2, <1>3
    <3>2. {archive[1].name, archive[2].name, archive[3].name} \subseteq {"binary", "worker"}
      BY <1>2, <1>3
    <3> QED
      BY <3>1, <3>2
  <2>2. Len(archive) >= 2
    <3>1. PICK m \in 1..Len(archive) : archive[m].name = "binary"
      BY <1>4
    <3>2. PICK k \in 1..Len(archive) : archive[k].name = "worker"
      BY <1>4
    <3>3. k # m
      BY <3>1, <3>2
    <3> QED
      BY <1>2, <3>3
  <2>3. \A n \in Nat : ~(n >= 3) /\ n >= 2 => n = 2
    OBVIOUS
  <2> QED
    BY <1>2, <2>1, <2>2, <2>3
<1>6. { archive[m].name : m \in 1..2 } = {"binary", "worker"}
  <2>1. archive[1].name # archive[2].name /\ {archive[1].name, archive[2].name} \subseteq {"binary", "worker"}
    BY <1>3, <1>5
  <2>2. { archive[m].name : m \in 1..2 } = {archive[1].name, archive[2].name}
    OBVIOUS
  <2> QED
    BY <2>1, <2>2
<1>7. \A m \in 1..2 : ~(archive[m].name = "binary" /\ archive[m].wrong)
  BY <1>5 DEF Extracted
<1>8. Total(archive, 2) = archive[1].declared + archive[2].declared
  <2> DEFINE Sums(sum) == sum = [i \in 0..2 |-> IF i = 0 THEN 0 ELSE sum[i - 1] + archive[i].declared]
             sum == CHOOSE f : Sums(f)
             d1 == archive[1].declared
             d2 == archive[2].declared
             witness == [i \in 0..2 |-> IF i = 0 THEN 0 ELSE IF i = 1 THEN d1 ELSE d1 + d2]
  <2>1. d1 \in Nat /\ d2 \in Nat
    <3> DEFINE Members == [type : STRING, name : STRING, declared : Nat, actual : Nat, wrong : BOOLEAN]
    <3>1. \A m \in 1..Len(archive) : archive[m] \in Members
      <4>1. archive \in Seq(Members)
        BY <1>1
      <4> HIDE DEF Members
      <4> QED
        BY <4>1
    <3>2. 1 \in 1..Len(archive) /\ 2 \in 1..Len(archive)
      BY <1>5
    <3> QED
      BY <3>1, <3>2
  <2>2. Sums(witness)
    <3>1. 0..2 = {0, 1, 2}
      OBVIOUS
    <3>2. witness[0] = 0 /\ witness[1] = d1 /\ witness[2] = d1 + d2
      BY <3>1
    <3>3. \A i \in 0..2 : witness[i] = IF i = 0 THEN 0 ELSE witness[i - 1] + archive[i].declared
      BY <2>1, <3>1, <3>2
    <3>4. witness = [i \in 0..2 |-> witness[i]]
      OBVIOUS
    <3> HIDE DEF witness
    <3> QED
      BY <3>3, <3>4
  <2>3. Sums(sum)
    BY <2>2
  <2>4. sum[0] = 0 /\ sum[1] = sum[0] + d1 /\ sum[2] = sum[1] + d2
    <3> HIDE DEF sum
    <3> QED
      BY <2>3
  <2>5. Total(archive, 2) = sum[2]
    BY DEF Total
  <2> HIDE DEF sum
  <2> QED
    BY <2>1, <2>4, <2>5
<1> QED
  BY <1>3, <1>5, <1>6, <1>7, <1>8

Replacing == {"download", "extract", "validate", "stage", "activate"}

(* What ReplaceInv says of one process at place c, with what it has staged *)
(* and backed up and what the directory holds.                             *)
PlaceOK(c, staged, kept, dir) ==
    /\ c = "validate" => Extracts(archive) /\ staged = Extracted(archive)
    /\ c \in {"stage", "activate"} => Extracts(archive) /\ Extracted(archive) = "pair" /\ staged = "pair"
    /\ c \in {"download", "extract", "validate", "stage"} => Previous(dir)
    /\ c = "activate" => Previous(dir) /\ Previous(kept)
    /\ c = "clean" => dir = "pair"

(* A step of one process: only the holder of the lock may change more of   *)
(* the directory than to make it.                                          *)
LEMMA InstallerStep ==
    ASSUME InstallInv, NEW p \in Processes,
           NEW c \in Places, NEW staged \in Contents, NEW kept \in Contents, NEW o \in Outcomes, NEW dir \in Contents,
           installer' = [installer EXCEPT ![p] = c], staging' = [staging EXCEPT ![p] = staged],
           backup' = [backup EXCEPT ![p] = kept], outcome' = [outcome EXCEPT ![p] = o],
           installDir' = dir, archive' = archive,
           c \in Unlocked => lockedBy' = IF lockedBy = p THEN NoOne ELSE lockedBy,
           c \notin Unlocked => lockedBy' = p /\ lockedBy \in {p, NoOne},
           dir = installDir \/ (installDir = "none" /\ dir = "empty") \/ installer[p] \notin Unlocked,
           WholePair' \/ dir \in Found \cup {"none", "empty"},
           o \in {"installed", "current"} =>
               o = outcome[p] \/ (installer[p] \notin Unlocked /\ installDir = "pair" /\ dir = "pair"),
           installDir = "pair" => dir = "pair" \/ \A q \in Processes : outcome[q] \notin {"installed", "current"},
           PlaceOK(c, staged, kept, dir),
           c \in Replacing => /\ o = outcome[p]
                              /\ \A q \in Processes : outcome[q] \notin {"installed", "current"}
    PROVE  InstallInv'
<1> USE DEF InstallInv
<1>1. /\ installer'[p] = c /\ \A q \in Processes \ {p} : installer'[q] = installer[q]
      /\ staging'[p] = staged /\ \A q \in Processes \ {p} : staging'[q] = staging[q]
      /\ backup'[p] = kept /\ \A q \in Processes \ {p} : backup'[q] = backup[q]
      /\ outcome'[p] = o /\ \A q \in Processes \ {p} : outcome'[q] = outcome[q]
  BY DEF InstallTypeOK
<1>2. InstallTypeOK'
  BY NoOneAssumption DEF InstallTypeOK
<1>3. LockInv'
  <2>1. c \in Unlocked => lockedBy' # p /\ \A q \in Processes \ {p} : lockedBy' = q <=> lockedBy = q
    BY NoOneAssumption DEF NoOneAssumption
  <2>2. c \notin Unlocked => lockedBy' = p /\ \A q \in Processes \ {p} : lockedBy # q
    BY NoOneAssumption DEF NoOneAssumption
  <2> QED
    BY <1>1, <2>1, <2>2 DEF LockInv
<1>4. ReplaceInv'
  <2>1. ASSUME NEW q \in Processes, q # p, installer[q] \notin Unlocked
        PROVE  /\ dir = installDir \/ (installDir = "none" /\ dir = "empty")
               /\ o \in {"installed", "current"} => o = outcome[p]
    BY <2>1 DEF LockInv
  <2>2. ASSUME NEW q \in Processes, q # p
        PROVE  /\ PlaceOK(installer'[q], staging'[q], backup'[q], dir)
               /\ installer'[q] \in Replacing => \A r \in Processes : outcome'[r] \notin {"installed", "current"}
    <3>1. CASE installer[q] \in Unlocked
      BY <1>1, <2>2, <3>1 DEF Unlocked, PlaceOK, Replacing
    <3>2. CASE installer[q] \notin Unlocked
      <4>1. PlaceOK(installer[q], staging[q], backup[q], installDir)
        BY DEF ReplaceInv, PlaceOK
      <4>2. Previous(installDir) => Previous(dir)
        BY <2>1, <2>2, <3>2 DEF Previous
      <4>3. installDir = "pair" => dir = "pair"
        BY <2>1, <2>2, <3>2
      <4>4. PlaceOK(installer'[q], staging'[q], backup'[q], dir)
        BY <1>1, <2>2, <4>1, <4>2, <4>3 DEF PlaceOK
      <4>5. installer'[q] \in Replacing => \A r \in Processes : outcome'[r] \notin {"installed", "current"}
        BY <1>1, <2>1, <2>2, <3>2 DEF ReplaceInv, Replacing
      <4> QED
        BY <4>4, <4>5
    <3> QED
      BY <3>1, <3>2
  <2>3. /\ PlaceOK(installer'[p], staging'[p], backup'[p], dir)
        /\ installer'[p] \in Replacing => \A r \in Processes : outcome'[r] \notin {"installed", "current"}
    BY <1>1
  <2>4. \A q \in Processes :
            /\ PlaceOK(installer'[q], staging'[q], backup'[q], dir)
            /\ installer'[q] \in Replacing => \A r \in Processes : outcome'[r] \notin {"installed", "current"}
    BY <2>2, <2>3
  <2>5. installDir' = dir /\ archive' = archive
    OBVIOUS
  <2> QED
    BY <2>4, <2>5 DEF ReplaceInv, PlaceOK, Replacing
<1>5. InstalledStaysInstalled'
  <2>1. (\E q \in Processes : outcome'[q] \in {"installed", "current"}) => dir = "pair"
    BY <1>1 DEF InstalledStaysInstalled
  <2> QED
    BY <2>1 DEF InstalledStaysInstalled
<1> QED
  BY <1>2, <1>3, <1>4, <1>5

(* A step that leaves the directory alone.                                 *)
LEMMA InstallerStays ==
    ASSUME InstallInv, NEW p \in Processes,
           NEW c \in Places, NEW staged \in Contents, NEW kept \in Contents, NEW o \in Outcomes,
           installer' = [installer EXCEPT ![p] = c], staging' = [staging EXCEPT ![p] = staged],
           backup' = [backup EXCEPT ![p] = kept], outcome' = [outcome EXCEPT ![p] = o],
           UNCHANGED <<installDir, archive>>,
           c \in Unlocked => lockedBy' = IF lockedBy = p THEN NoOne ELSE lockedBy,
           c \notin Unlocked => lockedBy' = p /\ lockedBy \in {p, NoOne},
           o \in {"installed", "current"} =>
               o = outcome[p] \/ (installer[p] \notin Unlocked /\ installDir = "pair"),
           PlaceOK(c, staged, kept, installDir),
           c \in Replacing => /\ o = outcome[p]
                              /\ \A q \in Processes : outcome[q] \notin {"installed", "current"}
    PROVE  InstallInv'
<1>1. installDir \in Contents
  BY DEF InstallInv, InstallTypeOK
<1>2. WholePair' \/ installDir \in Found \cup {"none", "empty"}
  BY DEF InstallInv, InstalledStaysInstalled, WholePair
<1> QED
  BY <1>1, <1>2, InstallerStep

(* The parts of the state that belong to a process, as they are.           *)
LEMMA InstallerIsOK ==
    ASSUME InstallInv, NEW p \in Processes
    PROVE  /\ installer[p] \in Places /\ staging[p] \in Contents /\ backup[p] \in Contents
           /\ outcome[p] \in Outcomes /\ installDir \in Contents
           /\ staging = [staging EXCEPT ![p] = staging[p]] /\ backup = [backup EXCEPT ![p] = backup[p]]
           /\ outcome = [outcome EXCEPT ![p] = outcome[p]] /\ installer = [installer EXCEPT ![p] = installer[p]]
           /\ installer[p] \notin Unlocked <=> lockedBy = p
           /\ PlaceOK(installer[p], staging[p], backup[p], installDir)
           /\ installer[p] \in Replacing => \A q \in Processes : outcome[q] \notin {"installed", "current"}
<1> USE DEF InstallInv
<1>1. /\ installer[p] \in Places /\ staging[p] \in Contents /\ backup[p] \in Contents
      /\ outcome[p] \in Outcomes /\ installDir \in Contents
      /\ staging = [staging EXCEPT ![p] = staging[p]] /\ backup = [backup EXCEPT ![p] = backup[p]]
      /\ outcome = [outcome EXCEPT ![p] = outcome[p]] /\ installer = [installer EXCEPT ![p] = installer[p]]
  BY DEF InstallTypeOK
<1>2. installer[p] \notin Unlocked <=> lockedBy = p
  BY DEF LockInv
<1>3. PlaceOK(installer[p], staging[p], backup[p], installDir)
  BY DEF ReplaceInv, PlaceOK
<1>4. installer[p] \in Replacing => \A q \in Processes : outcome[q] \notin {"installed", "current"}
  BY DEF ReplaceInv, Replacing
<1> QED
  BY <1>1, <1>2, <1>3, <1>4

(* Every step that ends an installation and removes what was staged.       *)
LEMMA InstallerAnswers ==
    ASSUME InstallInv, NEW p \in Processes, NEW o \in Outcomes, Answer(p, o), NEW staged \in Contents,
           staging' = [staging EXCEPT ![p] = staged], NEW kept \in Contents, backup' = [backup EXCEPT ![p] = kept],
           UNCHANGED <<installDir, archive>>,
           o \in {"installed", "current"} => installer[p] \notin Unlocked /\ installDir = "pair"
    PROVE  InstallInv'
<1>1. "idle" \in Places /\ "idle" \in Unlocked /\ PlaceOK("idle", staged, kept, installDir) /\ "idle" \notin Replacing
  BY DEF Places, Unlocked, PlaceOK, Replacing
<1>2. /\ installer' = [installer EXCEPT ![p] = "idle"] /\ outcome' = [outcome EXCEPT ![p] = o]
      /\ lockedBy' = IF lockedBy = p THEN NoOne ELSE lockedBy
  BY DEF Answer
<1> QED
  BY <1>1, <1>2, InstallerStays

LEMMA InstallInitially == ASSUME InstallationInit PROVE InstallInv
<1> USE DEF InstallationInit
<1>1. Found \subseteq Contents
  BY InstallationAssumption DEF InstallationAssumption, Contents
<1>2. InstallTypeOK
  BY <1>1 DEF InstallTypeOK, Contents, Places, Unlocked, Outcomes
<1>3. \A p \in Processes : installer[p] = "idle" /\ outcome[p] = "none"
  OBVIOUS
<1>4. LockInv
  BY <1>3, NoOneAssumption DEF LockInv, NoOneAssumption, Unlocked
<1>5. ReplaceInv
  BY <1>3 DEF ReplaceInv
<1>6. InstalledStaysInstalled
  BY <1>3 DEF InstalledStaysInstalled
<1> QED
  BY <1>2, <1>4, <1>5, <1>6 DEF InstallInv

USE DEF Step

(* Before the lock.                                                        *)
LEMMA LayoutStep ==
    ASSUME InstallInv, NEW p \in Processes, EnsureLayout(p)
    PROVE  InstallInv'
<1> DEFINE dir == IF installDir = "none" THEN "empty" ELSE installDir
<1>1. /\ installer[p] = "idle" /\ installer' = [installer EXCEPT ![p] = "lock"] /\ installDir' = dir
      /\ UNCHANGED <<archive, staging, backup, lockedBy, outcome>>
  BY DEF EnsureLayout
<1>2. "lock" \in Places /\ "lock" \in Unlocked /\ "lock" \notin Replacing /\ "idle" \in Unlocked
  BY DEF Places, Unlocked, Replacing
<1>3. dir \in Contents /\ PlaceOK("lock", staging[p], backup[p], dir)
  BY InstallerIsOK DEF Contents, PlaceOK
<1>4. lockedBy # p
  BY <1>1, <1>2, InstallerIsOK
<1>5. WholePair' \/ dir \in Found \cup {"none", "empty"}
  BY <1>1 DEF InstallInv, InstalledStaysInstalled, WholePair
<1>6. dir = installDir \/ (installDir = "none" /\ dir = "empty")
  OBVIOUS
<1>7. installDir = "pair" => dir = "pair"
  OBVIOUS
<1> HIDE DEF dir
<1>8. /\ staging' = [staging EXCEPT ![p] = staging[p]] /\ backup' = [backup EXCEPT ![p] = backup[p]]
      /\ outcome' = [outcome EXCEPT ![p] = outcome[p]]
      /\ staging[p] \in Contents /\ backup[p] \in Contents /\ outcome[p] \in Outcomes
  BY <1>1, InstallerIsOK
<1>9. lockedBy' = IF lockedBy = p THEN NoOne ELSE lockedBy
  BY <1>1, <1>4
<1>10. archive' = archive /\ installDir' = dir /\ installer' = [installer EXCEPT ![p] = "lock"]
  BY <1>1
<1> QED
  BY <1>2, <1>3, <1>5, <1>6, <1>7, <1>8, <1>9, <1>10, InstallerStep

LEMMA RefuseStep ==
    ASSUME InstallInv, NEW p \in Processes, Refuse(p)
    PROVE  InstallInv'
<1>1. /\ outcome' = [outcome EXCEPT ![p] = "refused"]
      /\ UNCHANGED <<archive, installDir, staging, backup, installer, lockedBy>> /\ installer[p] = "idle"
  BY DEF Refuse
<1>2. "idle" \in Unlocked /\ "refused" \in Outcomes /\ "idle" \notin Replacing
  BY DEF Unlocked, Outcomes, Replacing
<1>3. lockedBy # p
  BY <1>1, <1>2, InstallerIsOK
<1>4. /\ staging' = [staging EXCEPT ![p] = staging[p]] /\ backup' = [backup EXCEPT ![p] = backup[p]]
      /\ installer' = [installer EXCEPT ![p] = installer[p]]
      /\ staging[p] \in Contents /\ backup[p] \in Contents /\ installer[p] \in Places
      /\ PlaceOK(installer[p], staging[p], backup[p], installDir)
  BY <1>1, InstallerIsOK
<1>5. lockedBy' = IF lockedBy = p THEN NoOne ELSE lockedBy
  BY <1>1, <1>3
<1>6. installer[p] \in Unlocked /\ installer[p] \notin Replacing /\ UNCHANGED <<installDir, archive>>
  BY <1>1, <1>2
<1>7. outcome' = [outcome EXCEPT ![p] = "refused"] /\ "refused" \notin {"installed", "current"}
  BY <1>1
<1> QED
  BY <1>2, <1>4, <1>5, <1>6, <1>7, InstallerStays

(* The lock, and what is found with it: the directory is not the pair, or  *)
(* nothing is replaced.                                                    *)
LEMMA AcquireStep ==
    ASSUME InstallInv, NEW p \in Processes, AcquireLock(p)
    PROVE  InstallInv'
<1>1. installer[p] = "lock" /\ UNCHANGED <<archive, installDir, staging, backup>>
  BY DEF AcquireLock
<1>2. CASE Answer(p, "locked")
  <2>1. "locked" \in Outcomes
    BY DEF Outcomes
  <2> QED
    BY <1>1, <1>2, <2>1, InstallerIsOK, InstallerAnswers
<1>3. CASE /\ lockedBy = NoOne /\ lockedBy' = p /\ UNCHANGED outcome
           /\ installer' = [installer EXCEPT ![p] = "inspect"]
  <2>1. /\ "inspect" \in Places /\ "inspect" \notin Unlocked /\ "inspect" \notin Replacing
        /\ PlaceOK("inspect", staging[p], backup[p], installDir)
    BY DEF Places, Unlocked, Replacing, PlaceOK
  <2> QED
    BY <1>1, <1>3, <2>1, InstallerIsOK, InstallerStays
<1> QED
  BY <1>2, <1>3 DEF AcquireLock

LEMMA WhatInspectionsFind ==
    ASSUME InstallInv, NEW seen \in Inspections
    PROVE  IF seen.installed /\ seen.matches THEN installDir = "pair" ELSE Previous(installDir)
<1>1. CASE installDir \in {"none", "empty"}
  BY <1>1 DEF Inspections, Previous
<1>2. CASE installDir \notin {"none", "empty"}
  <2>1. PICK v \in RunVersion(installDir) : seen = [installed |-> TRUE, matches |-> v = "pinned", other |-> FALSE]
    BY <1>2 DEF Inspections
  <2>2. seen.installed /\ (seen.matches <=> v = "pinned")
    BY <2>1
  <2>3. CASE installDir = "pair"
    BY <2>1, <2>2, <2>3 DEF RunVersion
  <2>4. CASE installDir = "other"
    <3>1. RunVersion(installDir) = {"other"}
      BY <2>4 DEF RunVersion
    <3>2. installDir \in Found
      BY <1>2, <2>4 DEF InstallInv, InstalledStaysInstalled, WholePair
    <3> QED
      BY <2>1, <2>2, <2>4, <3>1, <3>2 DEF Previous
  <2>5. CASE installDir \notin {"pair", "other"}
    BY <2>1, <2>5 DEF RunVersion
  <2> QED
    BY <2>3, <2>4, <2>5
<1> QED
  BY <1>1, <1>2

LEMMA InspectStep ==
    ASSUME InstallInv, NEW p \in Processes, InspectAgain(p)
    PROVE  InstallInv'
<1>1. /\ installer[p] = "inspect" /\ UNCHANGED <<archive, installDir, staging, backup>>
      /\ installer[p] \notin Unlocked
  BY DEF InspectAgain, Unlocked
<1>2. "failed" \in Outcomes /\ "current" \in Outcomes
  BY DEF Outcomes
<1>3. CASE Answer(p, "failed")
  BY <1>1, <1>2, <1>3, InstallerIsOK, InstallerAnswers
<1>4. CASE \E seen \in Inspections : seen.installed /\ seen.matches /\ Answer(p, "current")
  BY <1>1, <1>2, <1>4, WhatInspectionsFind, InstallerIsOK, InstallerAnswers
<1>5. CASE \E seen \in Inspections :
              /\ ~(seen.installed /\ seen.matches) /\ installer' = [installer EXCEPT ![p] = "download"]
              /\ UNCHANGED <<outcome, lockedBy>>
  <2>1. Previous(installDir)
    BY <1>5, WhatInspectionsFind
  <2>2. \A q \in Processes : outcome[q] \notin {"installed", "current"}
    BY <2>1 DEF InstallInv, InstalledStaysInstalled, Previous
  <2>3. /\ "download" \in Places /\ "download" \notin Unlocked
        /\ PlaceOK("download", staging[p], backup[p], installDir)
    BY <2>1 DEF Places, Unlocked, PlaceOK
  <2>4. lockedBy = p /\ installer' = [installer EXCEPT ![p] = "download"] /\ UNCHANGED <<outcome, lockedBy>>
    BY <1>1, <1>5, InstallerIsOK
  <2>5. outcome[p] \notin {"installed", "current"}
    BY <2>2
  <2>6. /\ staging' = [staging EXCEPT ![p] = staging[p]] /\ backup' = [backup EXCEPT ![p] = backup[p]]
        /\ outcome' = [outcome EXCEPT ![p] = outcome[p]]
        /\ staging[p] \in Contents /\ backup[p] \in Contents /\ outcome[p] \in Outcomes
    BY <1>1, <2>4, InstallerIsOK
  <2>7. UNCHANGED <<installDir, archive>> /\ lockedBy' = p
    BY <1>1, <2>4
  <2> QED
    BY <2>2, <2>3, <2>4, <2>5, <2>6, <2>7, InstallerStays
<1> QED
  BY <1>1, <1>3, <1>4, <1>5 DEF InspectAgain

LEMMA FailStep ==
    ASSUME InstallInv, NEW p \in Processes, Fails(p)
    PROVE  InstallInv'
<1>1. Answer(p, "failed") /\ staging' = [staging EXCEPT ![p] = "none"] /\ UNCHANGED <<archive, installDir, backup>>
  BY DEF Fails
<1>2. "failed" \in Outcomes /\ "none" \in Contents
  BY DEF Outcomes, Contents
<1>3. backup' = [backup EXCEPT ![p] = backup[p]] /\ backup[p] \in Contents
  BY <1>1, InstallerIsOK
<1> QED
  BY <1>1, <1>2, <1>3, InstallerAnswers

(* From the download to the check of the staged version.                   *)
LEMMA StagingStep ==
    ASSUME InstallInv, NEW p \in Processes, DownloadArchive(p) \/ ExtractArchive(p) \/ ValidateStaged(p)
    PROVE  InstallInv'
<1> USE InstallerIsOK
<1>1. CASE Fails(p)
  BY <1>1, FailStep
<1>2. CASE ~Fails(p)
  <2>1. /\ installer[p] \in Replacing /\ installer[p] \notin Unlocked /\ lockedBy = p /\ Previous(installDir)
        /\ UNCHANGED <<archive, installDir, backup, lockedBy, outcome>>
    BY <1>2 DEF DownloadArchive, ExtractArchive, ValidateStaged, Replacing, Unlocked, PlaceOK
  <2>2. \E c \in Places : \E staged \in Contents :
            /\ c \in {"extract", "validate", "stage"}
            /\ installer' = [installer EXCEPT ![p] = c] /\ staging' = [staging EXCEPT ![p] = staged]
            /\ c = "validate" => Extracts(archive) /\ staged = Extracted(archive)
            /\ c = "stage" => Extracts(archive) /\ Extracted(archive) = "pair" /\ staged = "pair"
    <3>1. {"extract", "validate", "stage"} \subseteq Places
      BY DEF Places
    <3>2. CASE DownloadArchive(p)
      <4>1. "empty" \in Contents
        BY DEF Contents
      <4> QED
        BY <1>2, <3>1, <3>2, <4>1 DEF DownloadArchive
    <3>3. CASE ExtractArchive(p)
      <4>1. "half" \in Contents /\ Extracted(archive) \in Contents
        BY DEF Contents, Extracted
      <4>2. CASE staging[p] = "empty" /\ staging' = [staging EXCEPT ![p] = "half"] /\ UNCHANGED installer
        <5>1. installer' = [installer EXCEPT ![p] = "extract"]
          BY <3>3, <4>2 DEF ExtractArchive
        <5> QED
          BY <3>1, <4>1, <4>2, <5>1
      <4>3. CASE /\ Extracts(archive) /\ staging' = [staging EXCEPT ![p] = Extracted(archive)]
                 /\ installer' = [installer EXCEPT ![p] = "validate"]
        BY <3>1, <4>1, <4>3
      <4> QED
        BY <1>2, <3>3, <4>2, <4>3 DEF ExtractArchive
    <3>4. CASE ValidateStaged(p)
      <4>1. installer[p] = "validate" /\ "pinned" \in RunVersion(staging[p])
            /\ installer' = [installer EXCEPT ![p] = "stage"] /\ UNCHANGED staging
        BY <1>2, <3>4 DEF ValidateStaged
      <4>2. Extracts(archive) /\ staging[p] = Extracted(archive)
        BY <4>1 DEF PlaceOK
      <4>3. staging[p] = "pair"
        BY <4>1, <4>2 DEF RunVersion, Extracted
      <4> QED
        BY <3>1, <4>1, <4>2, <4>3
    <3> QED
      BY <3>2, <3>3, <3>4
  <2>3. PICK c \in Places, staged \in Contents :
            /\ c \in {"extract", "validate", "stage"}
            /\ installer' = [installer EXCEPT ![p] = c] /\ staging' = [staging EXCEPT ![p] = staged]
            /\ c = "validate" => Extracts(archive) /\ staged = Extracted(archive)
            /\ c = "stage" => Extracts(archive) /\ Extracted(archive) = "pair" /\ staged = "pair"
    BY <2>2
  <2>4. c \notin Unlocked /\ PlaceOK(c, staged, backup[p], installDir)
    BY <2>1, <2>3 DEF Unlocked, PlaceOK
  <2>5. \A q \in Processes : outcome[q] \notin {"installed", "current"}
    BY <2>1
  <2> QED
    BY <2>1, <2>3, <2>4, <2>5, InstallerStays
<1> QED
  BY <1>1, <1>2

(* The two renames.                                                        *)
LEMMA StagePreviousStep ==
    ASSUME InstallInv, NEW p \in Processes, StagePrevious(p)
    PROVE  InstallInv'
<1> USE InstallerIsOK
<1>1. CASE Fails(p)
  BY <1>1, FailStep
<1>2. CASE ~Fails(p)
  <2>1. /\ installer[p] = "stage" /\ installer' = [installer EXCEPT ![p] = "activate"]
        /\ backup' = [backup EXCEPT ![p] = installDir] /\ installDir' = "none"
        /\ UNCHANGED <<archive, staging, lockedBy, outcome>>
    BY <1>2 DEF StagePrevious
  <2>2. installer[p] \notin Unlocked /\ installer[p] \in Replacing /\ "activate" \in Places /\ "activate" \notin Unlocked
        /\ "none" \in Contents
    BY <2>1 DEF Unlocked, Replacing, Places, Contents
  <2>3. PlaceOK("activate", staging[p], installDir, "none")
    BY <2>1 DEF PlaceOK, Previous
  <2>4. \A q \in Processes : outcome[q] \notin {"installed", "current"}
    BY <2>2
  <2> QED
    BY <2>1, <2>2, <2>3, <2>4, InstallerStep
<1> QED
  BY <1>1, <1>2

LEMMA ActivateStep ==
    ASSUME InstallInv, NEW p \in Processes, Activate(p)
    PROVE  InstallInv'
<1> USE InstallerIsOK
<1>1. /\ installer[p] = "activate" /\ installer' = [installer EXCEPT ![p] = "clean"]
      /\ installDir' = staging[p] /\ staging' = [staging EXCEPT ![p] = "none"]
      /\ UNCHANGED <<archive, backup, lockedBy, outcome>>
  BY DEF Activate
<1>2. /\ installer[p] \notin Unlocked /\ installer[p] \in Replacing /\ "clean" \in Places /\ "clean" \notin Unlocked
      /\ "none" \in Contents /\ "clean" \notin Replacing
  BY <1>1 DEF Unlocked, Replacing, Places, Contents
<1>3. Extracts(archive) /\ Extracted(archive) = "pair" /\ staging[p] = "pair"
  BY <1>1 DEF PlaceOK
<1>4. PlaceOK("clean", "none", backup[p], "pair")
  BY DEF PlaceOK
<1>5. WholePair'
  <2>1. archive \in Archives
    BY DEF InstallInv, InstallTypeOK
  <2> QED
    BY <1>1, <1>3, <2>1, TwoMembers DEF WholePair
<1>6. "pair" \in Contents
  BY <1>3
<1>7. \A q \in Processes : outcome[q] \notin {"installed", "current"}
  BY <1>2
<1>8. outcome[p] \notin {"installed", "current"}
  BY <1>7
<1> QED
  BY <1>1, <1>2, <1>3, <1>4, <1>5, <1>6, <1>8, InstallerStep

LEMMA ReactivateStep ==
    ASSUME InstallInv, NEW p \in Processes, Reactivate(p)
    PROVE  InstallInv'
<1> USE InstallerIsOK
<1>1. /\ installer[p] = "activate" /\ Answer(p, "failed")
      /\ staging' = [staging EXCEPT ![p] = "none"] /\ backup' = [backup EXCEPT ![p] = "none"] /\ archive' = archive
      /\ installDir' = installDir \/ (installDir \in {"none", "empty"} /\ installDir' = backup[p])
  BY DEF Reactivate
<1>2. /\ installer[p] \notin Unlocked /\ "failed" \in Outcomes /\ "none" \in Contents /\ "idle" \in Places
      /\ "idle" \in Unlocked /\ "idle" \notin Replacing /\ PlaceOK("idle", "none", "none", installDir')
  BY <1>1 DEF Unlocked, Outcomes, Contents, Places, Replacing, PlaceOK
<1>3. CASE installDir' = installDir
  BY <1>1, <1>2, <1>3, InstallerAnswers
<1>4. CASE installDir \in {"none", "empty"} /\ installDir' = backup[p]
  <2>1. Previous(backup[p])
    BY <1>1 DEF PlaceOK
  <2>2. WholePair' \/ backup[p] \in Found \cup {"none", "empty"}
    BY <2>1 DEF Previous
  <2>3. installDir # "pair"
    BY <1>4
  <2>4. /\ installer' = [installer EXCEPT ![p] = "idle"] /\ outcome' = [outcome EXCEPT ![p] = "failed"]
        /\ lockedBy' = IF lockedBy = p THEN NoOne ELSE lockedBy
    BY <1>1 DEF Answer
  <2> QED
    BY <1>1, <1>2, <1>4, <2>2, <2>3, <2>4, InstallerStep
<1> QED
  BY <1>1, <1>3, <1>4

LEMMA CleanStep ==
    ASSUME InstallInv, NEW p \in Processes, CleanPrevious(p)
    PROVE  InstallInv'
<1> USE InstallerIsOK
<1>1. /\ installer[p] = "clean" /\ backup' = [backup EXCEPT ![p] = "none"] /\ UNCHANGED <<archive, installDir, staging>>
      /\ Answer(p, "installed") \/ Answer(p, "failed")
  BY DEF CleanPrevious
<1>2. {"installed", "failed"} \subseteq Outcomes /\ "none" \in Contents /\ installer[p] \notin Unlocked
  BY <1>1 DEF Outcomes, Contents, Unlocked
<1>3. installDir = "pair"
  BY <1>1 DEF PlaceOK
<1> QED
  BY <1>1, <1>2, <1>3, InstallerAnswers

LEMMA KillInstallerStep ==
    ASSUME InstallInv, NEW p \in Processes, KillInstaller(p)
    PROVE  InstallInv'
<1>1. /\ Answer(p, "killed") /\ staging' = [staging EXCEPT ![p] = "none"] /\ backup' = [backup EXCEPT ![p] = "none"]
      /\ UNCHANGED <<archive, installDir>>
  BY DEF KillInstaller
<1>2. "killed" \in Outcomes /\ "none" \in Contents
  BY DEF Outcomes, Contents
<1> QED
  BY <1>1, <1>2, InstallerAnswers

(* InstallInv is inductive.                                                *)
THEOREM InstallInvHolds == InstallationSpec => []InstallInv
<1>1. InstallationInit => InstallInv
  BY InstallInitially
<1>2. InstallInv /\ [InstallationNext]_installVars => InstallInv'
  <2> SUFFICES ASSUME InstallInv, [InstallationNext]_installVars PROVE InstallInv'
    OBVIOUS
  <2>1. CASE UNCHANGED installVars
    <3>1. InstalledStaysInstalled'
      BY <2>1 DEF installVars, InstallInv, InstalledStaysInstalled, WholePair
    <3>2. InstallTypeOK' /\ LockInv'
      BY <2>1 DEF installVars, InstallInv, InstallTypeOK, LockInv
    <3>3. ReplaceInv'
      BY <2>1 DEF installVars, InstallInv, ReplaceInv
    <3> QED
      BY <3>1, <3>2, <3>3 DEF InstallInv
  <2>2. CASE InstallationNext
    BY <2>2, LayoutStep, RefuseStep, AcquireStep, InspectStep, StagingStep, StagePreviousStep, ActivateStep,
       ReactivateStep, CleanStep, KillInstallerStep
    DEF InstallationNext, InstallStep
  <2> QED
    BY <2>1, <2>2
<1> QED
  BY <1>1, <1>2, PTL DEF InstallationSpec

(* The directory holds what it held, nothing, or exactly the verified      *)
(* files, and what was reported as installed stays (install.rs,            *)
(* install_obscura and activate_staging).                                  *)
THEOREM InstallationStays == InstallationSpec => []InstalledStaysInstalled
<1>1. InstallInv => InstalledStaysInstalled
  BY DEF InstallInv
<1> QED
  BY <1>1, InstallInvHolds, PTL

-----------------------------------------------------------------------------
(* The updater.                                                            *)

LEMMA AgentsPair ==
    /\ \A p \in Updating : HelperOf(p) \in Helping /\ OwnerOf(HelperOf(p)) = p /\ p \notin Helping /\ p \in Agents
    /\ \A h \in Helping : OwnerOf(h) \in Updating /\ HelperOf(OwnerOf(h)) = h /\ h \notin Updating /\ h \in Agents
    /\ Agents = Updating \cup Helping
BY DEF Updating, Helping, Agents, HelperOf, OwnerOf

\* The updater to which an agent belongs.
Owner(p) == IF p \in Updating THEN p ELSE OwnerOf(p)

LEMMA AbsentIsNothing == Absent \in Bytes /\ Absent.is # "good" /\ Part \in Bytes
BY DEF Absent, Part, Bytes

(* What StagedInv says of an agent, whichever part it has.                 *)
AgentOK(p, x, own) == IF p \in Updating THEN UpdateOK(x, own) ELSE HelpOK(x, own)

LEMMA AgentIsOK ==
    ASSUME UpdaterInv, NEW p \in Agents
    PROVE  /\ AgentOK(p, up[p], temps[Owner(p)]) /\ up[p] \in UpStates /\ temps[p] \in Bytes
           /\ Owner(p) \in Updating /\ temps[Owner(p)] \in Bytes
BY AgentsPair DEF UpdaterInv, UpdaterTypeOK, StagedInv, AgentOK, Owner

(* Less in the owner's file does no harm.                                  *)
LEMMA LessIsOK ==
    ASSUME NEW p, NEW x, NEW own, NEW less \in {Absent, own}, AgentOK(p, x, own)
    PROVE  AgentOK(p, x, less)
BY DEF AgentOK, UpdateOK, HelpOK

(* A step of one agent: of the other files it only takes away.             *)
LEMMA UpdaterStep ==
    ASSUME UpdaterInv, NEW p \in Agents, NEW x \in UpStates, NEW files \in [Agents -> Bytes],
           up' = [up EXCEPT ![p] = x], temps' = files,
           \A t \in Agents \ {p} : files[t] \in {Absent, temps[t]},
           UNCHANGED <<windows, published>>, {lockPath', inodes', kills'} \subseteq Nat, kills' >= kills,
           executable' \in Bytes, InstalledIsVerified',
           AgentOK(p, x, files[Owner(p)]),
           p \in Updating => \/ up[HelperOf(p)].pc \in Inactive
                             \/ x.pc \in {"unlock", "remove", "ended"} /\ files[p] \in {Absent, temps[p]},
           p \in Helping /\ x.pc \notin Inactive => up[p].pc \notin Inactive,
           ~windows /\ kills' = 0 /\ files[p] # Absent => p \in Updating /\ x.pc \in Holding
    PROVE  UpdaterInv'
<1> USE DEF UpdaterInv
<1>1. up'[p] = x /\ \A q \in Agents \ {p} : up'[q] = up[q]
  BY DEF UpdaterTypeOK
<1>2. UpdaterTypeOK'
  BY DEF UpdaterTypeOK
<1>4. StagedInv'
  <2> SUFFICES ASSUME NEW q \in Updating
               PROVE  /\ UpdateOK(up'[q], files[q]) /\ HelpOK(up'[HelperOf(q)], files[q])
                      /\ up'[HelperOf(q)].pc \notin Inactive => up'[q].pc \in {"unlock", "remove", "ended"}
    BY DEF StagedInv, UpdateOK, HelpOK, Public
  <2>1. /\ UpdateOK(up[q], temps[q]) /\ HelpOK(up[HelperOf(q)], temps[q])
        /\ up[HelperOf(q)].pc \notin Inactive => up[q].pc \in {"unlock", "remove", "ended"}
    BY DEF StagedInv
  <2>2. q \in Agents /\ HelperOf(q) \in Agents /\ q # HelperOf(q) /\ HelperOf(q) \notin Updating
    BY AgentsPair
  <2>3. CASE p = q
    <3>1. UpdateOK(x, files[q])
      BY <2>3 DEF AgentOK, Owner
    <3>2. HelpOK(up[HelperOf(q)], files[q])
      <4>1. CASE up[HelperOf(q)].pc \in Inactive
        BY <2>1, <4>1 DEF HelpOK, Inactive
      <4>2. CASE files[p] \in {Absent, temps[p]}
        BY <2>1, <2>3, <4>2 DEF HelpOK
      <4> QED
        BY <2>3, <4>1, <4>2
    <3> QED
      BY <1>1, <2>2, <2>3, <3>1, <3>2
  <2>4. CASE p = HelperOf(q)
    <3>1. Owner(p) = q /\ p \in Helping
      BY <2>2, <2>4, AgentsPair DEF Owner
    <3>2. HelpOK(x, files[q])
      BY <2>2, <2>4, <3>1 DEF AgentOK
    <3>3. files[q] \in {Absent, temps[q]}
      BY <2>2, <2>4
    <3>4. UpdateOK(up[q], files[q])
      BY <2>1, <3>3 DEF UpdateOK
    <3> QED
      BY <1>1, <2>1, <2>2, <2>4, <3>1, <3>2, <3>4
  <2>5. CASE p # q /\ p # HelperOf(q)
    <3>1. files[q] \in {Absent, temps[q]}
      BY <2>2, <2>5
    <3>2. UpdateOK(up[q], files[q]) /\ HelpOK(up[HelperOf(q)], files[q])
      BY <2>1, <3>1 DEF UpdateOK, HelpOK
    <3> QED
      BY <1>1, <2>1, <2>2, <2>5, <3>2
  <2> QED
    BY <2>3, <2>4, <2>5
<1>5. TempInv'
  <2>1. kills' = 0 => kills = 0
    BY DEF UpdaterTypeOK
  <2> SUFFICES ASSUME ~windows, kills' = 0, NEW t \in Agents, files[t] # Absent
               PROVE  t \in Updating /\ up'[t].pc \in Holding
    BY DEF TempInv
  <2>2. CASE t = p
    BY <1>1, <2>2
  <2>3. CASE t # p
    BY <1>1, <2>1, <2>3 DEF TempInv
  <2> QED
    BY <2>2, <2>3
<1> QED
  BY <1>2, <1>4, <1>5

LEMMA NotStartedIsOK == NotStarted \in UpStates /\ NotStarted.pc = "none"
BY AbsentIsNothing DEF NotStarted, UpStates, HelpPlaces

LEMMA UpdaterInitially == ASSUME UpdaterInit PROVE UpdaterInv
<1> USE DEF UpdaterInit
<1>1. NotStarted \in UpStates /\ NotStarted.pc = "none" /\ executable \in Bytes
  BY NotStartedIsOK DEF Bytes, Binary
<1>2. published \in 1..Len(Releases)
  BY UpdaterAssumption DEF UpdaterAssumption
<1>3. UpdaterTypeOK
  BY <1>1, <1>2, AbsentIsNothing DEF UpdaterTypeOK
<1>4. \A p \in Agents : up[p].pc = "none" /\ temps[p] = Absent
  BY <1>1
<1>5. StagedInv
  <2>1. \A p \in Updating : p \in Agents /\ HelperOf(p) \in Agents
    BY AgentsPair
  <2> QED
    BY <1>4, <2>1 DEF StagedInv, UpdateOK, HelpOK, Inactive, UpdatePlaces, HelpPlaces, Holding, Verifying
<1>6. TempInv
  BY <1>4 DEF TempInv
<1>7. InstalledIsVerified
  BY DEF InstalledIsVerified, Binary
<1> QED
  BY <1>3, <1>5, <1>6, <1>7 DEF UpdaterInv

(* A step that leaves every file and the executable alone.                 *)
LEMMA UpdaterMoves ==
    ASSUME UpdaterInv, NEW p \in Agents, NEW x \in UpStates,
           up' = [up EXCEPT ![p] = x], UNCHANGED <<windows, published, executable, temps, kills>>,
           {lockPath', inodes'} \subseteq Nat,
           AgentOK(p, x, temps[Owner(p)]),
           p \in Updating => up[HelperOf(p)].pc \in Inactive \/ x.pc \in {"unlock", "remove", "ended"},
           p \in Helping /\ x.pc \notin Inactive => up[p].pc \notin Inactive,
           p \in Updating /\ up[p].pc \in Holding => x.pc \in Holding
    PROVE  UpdaterInv'
<1> DEFINE files == temps
<1>1. files \in [Agents -> Bytes] /\ temps' = files /\ \A t \in Agents \ {p} : files[t] \in {Absent, temps[t]}
  BY DEF UpdaterInv, UpdaterTypeOK
<1>2. executable' \in Bytes /\ {lockPath', inodes', kills'} \subseteq Nat /\ kills' >= kills
  BY DEF UpdaterInv, UpdaterTypeOK
<1>3. InstalledIsVerified'
  BY DEF UpdaterInv, InstalledIsVerified, Public
<1>4. ~windows /\ kills' = 0 /\ files[p] # Absent => p \in Updating /\ x.pc \in Holding
  BY DEF UpdaterInv, TempInv
<1>5. AgentOK(p, x, files[Owner(p)]) /\ files[p] \in {Absent, temps[p]}
  OBVIOUS
<1> HIDE DEF files
<1> QED
  BY <1>1, <1>2, <1>3, <1>4, <1>5, UpdaterStep

(* What p and its helper are to each other while p is at work.             *)
LEMMA AtWork ==
    ASSUME UpdaterInv, NEW p \in Updating, up[p].pc \notin {"unlock", "remove", "ended"}
    PROVE  up[HelperOf(p)].pc \in Inactive
BY DEF UpdaterInv, StagedInv

LEMMA AnyPlace == \A x \in UpStates : \A c \in UpdatePlaces \cup HelpPlaces :
                      /\ [x EXCEPT !.pc = c] \in UpStates /\ [x EXCEPT !.pc = c].pc = c
                      /\ [x EXCEPT !.pc = c].release = x.release /\ [x EXCEPT !.pc = c].staged = x.staged
                      /\ [x EXCEPT !.pc = c].holds = x.holds
BY DEF UpStates

(* The end of an agent: its file goes first.                               *)
LEMMA LeaveStep ==
    ASSUME UpdaterInv, NEW p \in Agents, LeaveUpdate(p), up[p].pc \notin {"none", "unlock", "remove", "ended"},
           UNCHANGED <<windows, published, lockPath, inodes, kills>>,
           executable' \in Bytes, InstalledIsVerified'
    PROVE  UpdaterInv'
<1> DEFINE c == IF up[p].holds THEN "unlock" ELSE "ended"
           x == [up[p] EXCEPT !.pc = c]
           files == [temps EXCEPT ![p] = IF p \in Updating THEN Absent ELSE @]
<1>1. up' = [up EXCEPT ![p] = x] /\ temps' = files
  BY DEF LeaveUpdate, GoTo, Keep
<1>2. c \in {"unlock", "ended"} /\ c \in UpdatePlaces /\ c \in HelpPlaces
  BY DEF UpdatePlaces, HelpPlaces
<1>3. x \in UpStates /\ x.pc = c
  BY <1>2, AgentIsOK, AnyPlace
<1>4. /\ files \in [Agents -> Bytes] /\ \A t \in Agents \ {p} : files[t] \in {Absent, temps[t]}
      /\ p \in Updating => files[p] = Absent
      /\ p \notin Updating => files[p] = temps[p]
  BY AbsentIsNothing DEF UpdaterInv, UpdaterTypeOK
<1>5. AgentOK(p, up[p], temps[Owner(p)])
  BY AgentIsOK
<1> HIDE DEF x, files, c
<1>6. AgentOK(p, x, files[Owner(p)])
  BY <1>2, <1>3, <1>5 DEF AgentOK, UpdateOK, HelpOK, Holding, Verifying
<1>7. p \in Updating => up[HelperOf(p)].pc \in Inactive
  BY AtWork
<1>8. {lockPath', inodes', kills'} \subseteq Nat /\ kills' >= kills
  BY DEF UpdaterInv, UpdaterTypeOK
<1>9. ~windows /\ kills' = 0 => files[p] = Absent
  BY <1>4, AgentsPair DEF UpdaterInv, TempInv
<1>10. p \in Helping /\ x.pc \notin Inactive => up[p].pc \notin Inactive
  BY DEF Inactive
<1> QED
  BY <1>1, <1>3, <1>4, <1>6, <1>7, <1>8, <1>9, <1>10, UpdaterStep

LEMMA FailUpdateStep ==
    ASSUME UpdaterInv, NEW p \in Agents, LeaveUpdate(p), up[p].pc \notin {"none", "unlock", "remove", "ended"},
           UNCHANGED <<windows, published, executable, lockPath, inodes, kills>>
    PROVE  UpdaterInv'
<1>1. executable' \in Bytes /\ InstalledIsVerified'
  BY DEF UpdaterInv, UpdaterTypeOK, InstalledIsVerified, Public
<1> QED
  BY <1>1, LeaveStep

(* The lock, taken and given back.                                         *)
LEMMA LockFileStep ==
    ASSUME UpdaterInv, NEW p \in Agents, OpenLock(p) \/ TryLock(p) \/ Unlock(p) \/ RemoveLock(p)
    PROVE  UpdaterInv'
<1> DEFINE y == up[p]
<1>1. y \in UpStates /\ AgentOK(p, y, temps[Owner(p)])
  BY AgentIsOK
<1>2. /\ UNCHANGED <<windows, published, executable, temps, kills>>
      /\ {lockPath', inodes'} \subseteq Nat
  BY DEF OpenLock, TryLock, Unlock, RemoveLock, UpdaterInv, UpdaterTypeOK
<1>3. \E x \in UpStates :
          /\ up' = [up EXCEPT ![p] = x] /\ x.release = y.release /\ x.staged = y.staged
          /\ \/ y.pc = "open" /\ x.pc = "lock"
             \/ y.pc = "lock" /\ x.pc = IF p \in Helping THEN "inspect" ELSE "clean"
             \/ y.pc = "lock" /\ x.pc = "open" /\ p \in Helping
             \/ y.pc = "lock" /\ x.pc = "ended"
             \/ y.pc = "unlock" /\ x.pc \in {"remove", "ended"}
             \/ y.pc = "remove" /\ x.pc = "ended"
  <2> HIDE DEF y
  <2>1. {"open", "lock", "inspect", "clean", "remove", "ended"} \subseteq UpdatePlaces \cup HelpPlaces
    BY DEF UpdatePlaces, HelpPlaces
  <2>2. CASE OpenLock(p)
    <3> DEFINE x == [y EXCEPT !.pc = "lock", !.inode = lockPath']
    <3>1. up' = [up EXCEPT ![p] = x] /\ y.pc = "open"
      BY <2>2 DEF OpenLock, Keep, At, y
    <3>2. x \in UpStates /\ x.pc = "lock" /\ x.release = y.release /\ x.staged = y.staged
      BY <1>1, <1>2, <2>1 DEF UpStates
    <3> QED
      BY <3>1, <3>2
  <2>3. CASE TryLock(p)
    <3>1. y.pc = "lock"
      BY <2>3 DEF TryLock, At, y
    <3>2. CASE Keep(p, [up[p] EXCEPT !.pc = IF p \in Helping THEN "inspect" ELSE "clean", !.holds = TRUE])
      <4> DEFINE c == IF p \in Helping THEN "inspect" ELSE "clean"
                 x == [y EXCEPT !.pc = c, !.holds = TRUE]
      <4>1. up' = [up EXCEPT ![p] = x]
        BY <3>2 DEF Keep, y
      <4>2. c \in UpdatePlaces \cup HelpPlaces
        BY <2>1
      <4> HIDE DEF c
      <4>3. x \in UpStates /\ x.pc = c /\ x.release = y.release /\ x.staged = y.staged
        BY <1>1, <4>2 DEF UpStates
      <4> QED
        BY <3>1, <4>1, <4>3 DEF c
    <3>3. CASE GoTo(p, "ended")
      BY <1>1, <2>1, <3>1, <3>3, AnyPlace DEF GoTo, Keep, y
    <3>4. CASE p \in Helping /\ GoTo(p, "open")
      BY <1>1, <2>1, <3>1, <3>4, AnyPlace DEF GoTo, Keep, y
    <3> QED
      BY <2>3, <3>2, <3>3, <3>4 DEF TryLock
  <2>4. CASE Unlock(p)
    <3> DEFINE c == IF y.retain THEN "ended" ELSE "remove"
               x == [y EXCEPT !.holds = FALSE, !.pc = c]
    <3>1. up' = [up EXCEPT ![p] = x] /\ y.pc = "unlock"
      BY <2>4 DEF Unlock, Keep, At, y
    <3>2. c \in UpdatePlaces \cup HelpPlaces /\ c \in {"remove", "ended"}
      BY <2>1
    <3> HIDE DEF c
    <3>3. x \in UpStates /\ x.pc = c /\ x.release = y.release /\ x.staged = y.staged
      BY <1>1, <3>2 DEF UpStates
    <3> QED
      BY <3>1, <3>2, <3>3
  <2>5. CASE RemoveLock(p)
    BY <1>1, <2>1, <2>5, AnyPlace DEF RemoveLock, GoTo, Keep, At, y
  <2> QED
    BY <2>2, <2>3, <2>4, <2>5
<1>4. PICK x \in UpStates :
          /\ up' = [up EXCEPT ![p] = x] /\ x.release = y.release /\ x.staged = y.staged
          /\ \/ y.pc = "open" /\ x.pc = "lock"
             \/ y.pc = "lock" /\ x.pc = IF p \in Helping THEN "inspect" ELSE "clean"
             \/ y.pc = "lock" /\ x.pc = "open" /\ p \in Helping
             \/ y.pc = "lock" /\ x.pc = "ended"
             \/ y.pc = "unlock" /\ x.pc \in {"remove", "ended"}
             \/ y.pc = "remove" /\ x.pc = "ended"
  BY <1>3
<1>5. AgentOK(p, x, temps[Owner(p)])
  <2>1. CASE p \in Updating
    <3>1. p \notin Helping /\ UpdateOK(y, temps[Owner(p)])
      BY <1>1, <2>1, AgentsPair DEF AgentOK
    <3> HIDE DEF y
    <3> QED
      BY <1>4, <2>1, <3>1 DEF AgentOK, UpdateOK, UpdatePlaces, Holding, Verifying
  <2>2. CASE p \notin Updating
    <3>1. p \in Helping /\ HelpOK(y, temps[Owner(p)])
      BY <1>1, <2>2, AgentsPair DEF AgentOK
    <3> HIDE DEF y
    <3> QED
      BY <1>4, <2>2, <3>1 DEF AgentOK, HelpOK, HelpPlaces
  <2> QED
    BY <2>1, <2>2
<1>6. p \in Updating => up[HelperOf(p)].pc \in Inactive \/ x.pc \in {"unlock", "remove", "ended"}
  BY <1>4, AtWork
<1>7. y.pc \notin Inactive /\ y.pc \notin Holding
  BY <1>4 DEF Inactive, Holding, Verifying
<1> QED
  BY <1>2, <1>4, <1>5, <1>6, <1>7, UpdaterMoves

(* A new update: the helper of the last one has ended.                     *)
LEMMA StartStep ==
    ASSUME UpdaterInv, NEW p \in Agents, StartUpdate(p)
    PROVE  UpdaterInv'
<1> DEFINE x == [NotStarted EXCEPT !.pc = "open", !.version = executable.ver, !.info = executable]
<1>1. /\ p \in Updating /\ {up[p].pc, up[HelperOf(p)].pc} \subseteq Inactive
      /\ up' = [up EXCEPT ![p] = x]
      /\ UNCHANGED <<windows, published, executable, temps, lockPath, inodes, kills>>
  BY DEF StartUpdate, Keep, Inactive
<1>2. x \in UpStates /\ x.pc = "open"
  <2>1. executable \in Bytes /\ executable.ver \in Nat
    BY DEF UpdaterInv, UpdaterTypeOK, Bytes
  <2>2. "open" \in UpdatePlaces
    BY DEF UpdatePlaces
  <2> QED
    BY <2>1, <2>2, NotStartedIsOK DEF UpStates
<1> HIDE DEF x
<1>3. AgentOK(p, x, temps[Owner(p)])
  BY <1>1, <1>2 DEF AgentOK, UpdateOK, UpdatePlaces, Holding, Verifying
<1>4. p \notin Helping /\ up[p].pc \notin Holding
  BY <1>1, AgentsPair DEF Inactive, Holding, Verifying
<1>5. {lockPath', inodes'} \subseteq Nat
  BY <1>1 DEF UpdaterInv, UpdaterTypeOK
<1> QED
  BY <1>1, <1>2, <1>3, <1>4, <1>5, UpdaterMoves

(* The places at which only an updater is, not its helper.                 *)
LEMMA OnlyUpdating ==
    ASSUME UpdaterInv, NEW p \in Agents, up[p].pc \notin HelpPlaces \/ (up[p].pc = "replace" /\ p \notin Helping)
    PROVE  /\ p \in Updating /\ p \notin Helping /\ Owner(p) = p
           /\ UpdateOK(up[p], temps[p]) /\ up[HelperOf(p)].pc \in Inactive
<1>1. p \in Updating
  BY AgentsPair, AgentIsOK DEF AgentOK, HelpOK
<1>2. p \notin Helping /\ Owner(p) = p
  BY <1>1, AgentsPair DEF Owner
<1>3. UpdateOK(up[p], temps[p])
  BY <1>1, <1>2, AgentIsOK DEF AgentOK
<1>4. up[p].pc \notin {"unlock", "remove", "ended"}
  BY DEF HelpPlaces
<1> QED
  BY <1>1, <1>2, <1>3, <1>4, AtWork

LEMMA CleanupStep ==
    ASSUME UpdaterInv, NEW p \in Agents, CleanupStaleTemps(p)
    PROVE  UpdaterInv'
<1>1. up[p].pc = "clean" /\ UNCHANGED <<windows, published, executable, lockPath, inodes, kills>>
  BY DEF CleanupStaleTemps, At
<1>2. p \in Updating /\ p \notin Helping /\ Owner(p) = p /\ up[HelperOf(p)].pc \in Inactive
  BY <1>1, OnlyUpdating DEF HelpPlaces
<1>3. PICK gone \in SUBSET Agents :
          /\ temps' = [t \in Agents |-> IF t \in gone THEN Absent ELSE temps[t]]
          /\ GoTo(p, IF gone = Stale THEN "identity" ELSE "unlock")
  BY DEF CleanupStaleTemps, Stale
<1> DEFINE c == IF gone = Stale THEN "identity" ELSE "unlock"
           x == [up[p] EXCEPT !.pc = c]
           files == [t \in Agents |-> IF t \in gone THEN Absent ELSE temps[t]]
<1>4. up' = [up EXCEPT ![p] = x] /\ temps' = files
  BY <1>3 DEF GoTo, Keep
<1>5. c \in {"identity", "unlock"} /\ c \in UpdatePlaces
  BY DEF UpdatePlaces
<1>6. x \in UpStates /\ x.pc = c
  BY <1>5, AgentIsOK, AnyPlace
<1>7. files \in [Agents -> Bytes] /\ \A t \in Agents : files[t] \in {Absent, temps[t]}
  BY AbsentIsNothing DEF UpdaterInv, UpdaterTypeOK
<1> HIDE DEF x, files, c
<1>8. AgentOK(p, x, files[Owner(p)])
  BY <1>2, <1>5, <1>6 DEF AgentOK, UpdateOK, Holding, Verifying
<1>9. ~windows /\ kills' = 0 => files[p] = Absent
  BY <1>1, <1>7 DEF UpdaterInv, TempInv, Holding, Verifying
<1>10. executable' \in Bytes /\ {lockPath', inodes', kills'} \subseteq Nat /\ kills' >= kills /\ InstalledIsVerified'
  BY <1>1 DEF UpdaterInv, UpdaterTypeOK, InstalledIsVerified, Public
<1> QED
  BY <1>1, <1>2, <1>4, <1>6, <1>7, <1>8, <1>9, <1>10, UpdaterStep

(* Steps to the next place that change nothing else that matters.          *)
LEMMA AdvanceStep ==
    ASSUME UpdaterInv, NEW p \in Updating, NEW x \in UpStates, up' = [up EXCEPT ![p] = x],
           up[p].pc \notin HelpPlaces, UNCHANGED <<windows, published, executable, temps, lockPath, inodes, kills>>,
           UpdateOK(x, temps[p]), up[p].pc \in Holding => x.pc \in Holding
    PROVE  UpdaterInv'
<1>1. p \in Agents
  BY AgentsPair
<1>2. p \notin Helping /\ Owner(p) = p /\ up[HelperOf(p)].pc \in Inactive
  BY <1>1, OnlyUpdating
<1>3. AgentOK(p, x, temps[Owner(p)])
  BY <1>2 DEF AgentOK
<1>4. {lockPath', inodes'} \subseteq Nat
  BY DEF UpdaterInv, UpdaterTypeOK
<1> QED
  BY <1>1, <1>2, <1>3, <1>4, UpdaterMoves

LEMMA IdentityStep ==
    ASSUME UpdaterInv, NEW p \in Agents, OriginalIdentity(p)
    PROVE  UpdaterInv'
<1>1. up[p].pc = "identity" /\ UNCHANGED <<windows, published, executable, lockPath, inodes, kills>>
  BY DEF OriginalIdentity, At
<1>2. up[p].pc \notin HelpPlaces
  BY <1>1 DEF HelpPlaces
<1>3. CASE LeaveUpdate(p)
  BY <1>1, <1>3, FailUpdateStep
<1>4. CASE Keep(p, [up[p] EXCEPT !.pc = "fetch", !.original = executable]) /\ UNCHANGED temps
  <2> DEFINE x == [up[p] EXCEPT !.pc = "fetch", !.original = executable]
  <2>1. executable \in Bytes /\ up[p] \in UpStates /\ "fetch" \in UpdatePlaces
    BY AgentIsOK DEF UpdaterInv, UpdaterTypeOK, UpdatePlaces
  <2>2. x \in UpStates /\ x.pc = "fetch"
    BY <2>1 DEF UpStates
  <2>3. up' = [up EXCEPT ![p] = x]
    BY <1>4 DEF Keep
  <2> HIDE DEF x
  <2>4. UpdateOK(x, temps[p])
    BY <2>1, <2>2 DEF UpdateOK, Holding, Verifying
  <2>5. up[p].pc \notin Holding /\ p \in Updating
    BY <1>1, <1>2, OnlyUpdating DEF Holding, Verifying
  <2> QED
    BY <1>1, <1>2, <1>4, <2>2, <2>3, <2>4, <2>5, AdvanceStep
<1> QED
  BY <1>3, <1>4 DEF OriginalIdentity

(* The release that is taken is public.                                    *)
LEMMA FetchStep ==
    ASSUME UpdaterInv, NEW p \in Agents, FetchRelease(p)
    PROVE  UpdaterInv'
<1>1. up[p].pc = "fetch" /\ UNCHANGED <<windows, published, executable, lockPath, inodes, kills>>
  BY DEF FetchRelease, FailUpdate, At
<1>2. up[p].pc \notin HelpPlaces
  BY <1>1 DEF HelpPlaces
<1>3. CASE LeaveUpdate(p)
  BY <1>1, <1>3, FailUpdateStep
<1>4. CASE ~LeaveUpdate(p)
  <2>1. PICK r \in Latest : Keep(p, [up[p] EXCEPT !.pc = "create", !.release = r]) /\ UNCHANGED temps
    BY <1>4 DEF FetchRelease, FailUpdate
  <2> DEFINE x == [up[p] EXCEPT !.pc = "create", !.release = r]
  <2>2. r \in Public
    BY DEF Latest
  <2>3. r \in Nat /\ up[p] \in UpStates /\ "create" \in UpdatePlaces
    BY <2>2, AgentIsOK DEF Public, UpdatePlaces
  <2>4. x \in UpStates /\ x.pc = "create" /\ x.release = r
    BY <2>3 DEF UpStates
  <2>5. up' = [up EXCEPT ![p] = x]
    BY <2>1 DEF Keep
  <2> HIDE DEF x
  <2>6. UpdateOK(x, temps[p])
    BY <2>2, <2>3, <2>4 DEF UpdateOK, Holding, Verifying
  <2>7. up[p].pc \notin Holding /\ p \in Updating
    BY <1>1, <1>2, OnlyUpdating DEF Holding, Verifying
  <2> QED
    BY <1>1, <1>2, <2>1, <2>4, <2>5, <2>6, <2>7, AdvanceStep
<1> QED
  BY <1>3, <1>4

(* The updater's own file changes.                                         *)
LEMMA OwnFileStep ==
    ASSUME UpdaterInv, NEW p \in Updating, NEW x \in UpStates, up' = [up EXCEPT ![p] = x],
           up[p].pc \notin HelpPlaces, UNCHANGED <<windows, published, executable, lockPath, inodes, kills>>,
           NEW own \in Bytes, temps' = [temps EXCEPT ![p] = own],
           UpdateOK(x, own), x.pc \in Holding
    PROVE  UpdaterInv'
<1> DEFINE files == [temps EXCEPT ![p] = own]
<1>1. p \in Agents
  BY AgentsPair
<1>2. p \notin Helping /\ Owner(p) = p /\ up[HelperOf(p)].pc \in Inactive
  BY <1>1, OnlyUpdating
<1>3. files \in [Agents -> Bytes] /\ files[p] = own /\ \A t \in Agents \ {p} : files[t] \in {Absent, temps[t]}
  BY <1>1 DEF UpdaterInv, UpdaterTypeOK
<1>4. temps' = files
  OBVIOUS
<1> HIDE DEF files
<1>5. AgentOK(p, x, files[Owner(p)])
  BY <1>2, <1>3 DEF AgentOK
<1>6. executable' \in Bytes /\ {lockPath', inodes', kills'} \subseteq Nat /\ kills' >= kills /\ InstalledIsVerified'
  BY DEF UpdaterInv, UpdaterTypeOK, InstalledIsVerified, Public
<1> QED
  BY <1>1, <1>2, <1>3, <1>4, <1>5, <1>6, UpdaterStep

LEMMA CreateStep ==
    ASSUME UpdaterInv, NEW p \in Agents, CreateTemporaryFile(p)
    PROVE  UpdaterInv'
<1> DEFINE x == [up[p] EXCEPT !.pc = "download"]
<1>1. /\ up[p].pc = "create" /\ UNCHANGED <<windows, published, executable, lockPath, inodes, kills>>
      /\ temps' = [temps EXCEPT ![p] = Part] /\ up' = [up EXCEPT ![p] = x]
  BY DEF CreateTemporaryFile, At, GoTo, Keep
<1>2. up[p].pc \notin HelpPlaces
  BY <1>1 DEF HelpPlaces
<1>3. p \in Updating /\ UpdateOK(up[p], temps[p])
  BY <1>2, OnlyUpdating
<1>4. "download" \in UpdatePlaces /\ "download" \in Holding
  BY DEF UpdatePlaces, Holding
<1>5. x \in UpStates /\ x.pc = "download" /\ x.release = up[p].release
  BY <1>4, AgentIsOK, AnyPlace
<1> HIDE DEF x
<1>6. UpdateOK(x, Part)
  BY <1>1, <1>3, <1>4, <1>5 DEF UpdateOK, Verifying
<1> QED
  BY <1>1, <1>2, <1>3, <1>4, <1>5, <1>6, AbsentIsNothing, OwnFileStep

(* Bytes with the published hash are the published binary.                 *)
LEMMA VerifiedIsGood ==
    ASSUME UpdaterInv, NEW r \in Public, NEW bytes \in {Part, Served(r)}, Verified(r, bytes)
    PROVE  bytes \in Bytes /\ bytes.is = "good"
<1>1. r \in 1..Len(Releases)
  BY UpdaterAssumption DEF Public, UpdaterInv, UpdaterTypeOK, UpdaterAssumption
<1>2. bytes.is = "good"
  BY <1>1, PublisherAssumption DEF PublisherAssumption, Verified
<1>3. Served(r) \in Bytes
  BY <1>1, UpdaterAssumption DEF UpdaterAssumption, Served, Binary, Bytes
<1> QED
  BY <1>2, <1>3, AbsentIsNothing

LEMMA DownloadStep ==
    ASSUME UpdaterInv, NEW p \in Agents, DownloadBinary(p)
    PROVE  UpdaterInv'
<1>1. up[p].pc = "download"
  BY DEF DownloadBinary, At
<1>2. up[p].pc \notin HelpPlaces
  BY <1>1 DEF HelpPlaces
<1>3. p \in Updating /\ UpdateOK(up[p], temps[p])
  BY <1>2, OnlyUpdating
<1>4. CASE FailUpdate(p)
  BY <1>1, <1>4, FailUpdateStep DEF FailUpdate
<1>5. CASE ~FailUpdate(p)
  <2>1. PICK bytes \in {Part, Served(up[p].release)} :
            /\ Verified(up[p].release, bytes)
            /\ temps' = TempHolding(p, bytes)
            /\ Keep(p, [up[p] EXCEPT !.pc = "verify", !.staged = bytes])
            /\ UNCHANGED <<windows, published, executable, lockPath, inodes, kills>>
    BY <1>5 DEF DownloadBinary
  <2> DEFINE x == [up[p] EXCEPT !.pc = "verify", !.staged = bytes]
             own == IF temps[p] = Absent THEN Absent ELSE bytes
  <2>2. up[p].release \in Public
    BY <1>1, <1>3 DEF UpdateOK, Holding
  <2>3. bytes \in Bytes /\ bytes.is = "good"
    BY <2>1, <2>2, VerifiedIsGood
  <2>4. "verify" \in UpdatePlaces /\ "verify" \in Holding
    BY DEF UpdatePlaces, Holding
  <2>5. x \in UpStates /\ x.pc = "verify" /\ x.staged = bytes /\ x.release = up[p].release
    BY <2>3, <2>4, AgentIsOK DEF UpStates
  <2>6. own \in Bytes /\ own \in {Absent, bytes}
    BY <2>3, AbsentIsNothing
  <2>7. up' = [up EXCEPT ![p] = x] /\ temps' = [temps EXCEPT ![p] = own]
    BY <2>1 DEF Keep, TempHolding
  <2> HIDE DEF x, own
  <2>8. UpdateOK(x, own)
    BY <2>2, <2>3, <2>4, <2>5, <2>6 DEF UpdateOK, Verifying
  <2> QED
    BY <1>2, <1>3, <2>1, <2>4, <2>5, <2>6, <2>7, <2>8, OwnFileStep
<1> QED
  BY <1>4, <1>5

(* The checks of what was staged.                                          *)
LEMMA VerifyStep ==
    ASSUME UpdaterInv, NEW p \in Agents, VerifyStagedVersion(p) \/ StagedIdentity(p) \/ RevalidateOriginal(p)
    PROVE  UpdaterInv'
<1> DEFINE c == IF up[p].pc = "verify" THEN "staged"
                ELSE IF up[p].pc = "staged" THEN "revalidate"
                ELSE IF windows THEN "handoff" ELSE "replace"
           x == [up[p] EXCEPT !.pc = c]
<1>1. up[p].pc \in {"verify", "staged", "revalidate"}
  BY DEF VerifyStagedVersion, StagedIdentity, RevalidateOriginal, At
<1>2. up[p].pc \notin HelpPlaces
  BY <1>1 DEF HelpPlaces
<1>3. p \in Updating /\ UpdateOK(up[p], temps[p])
  BY <1>2, OnlyUpdating
<1>4. CASE FailUpdate(p)
  BY <1>1, <1>4, FailUpdateStep DEF FailUpdate
<1>5. CASE ~FailUpdate(p)
  <2>1. /\ up' = [up EXCEPT ![p] = x]
        /\ UNCHANGED <<windows, published, executable, temps, lockPath, inodes, kills>>
        /\ up[p].pc = "verify" => temps[p] # Absent /\ temps[p].ver = Releases[up[p].release].tag
    BY <1>5 DEF VerifyStagedVersion, StagedIdentity, RevalidateOriginal, At, GoTo, Keep
  <2>2. c \in Verifying /\ c \in UpdatePlaces /\ c \in Holding /\ (c = "handoff" => windows)
    BY <1>1 DEF Verifying, UpdatePlaces, Holding
  <2>3. x \in UpStates /\ x.pc = c /\ x.release = up[p].release /\ x.staged = up[p].staged
    BY <2>2, AgentIsOK, AnyPlace
  <2> HIDE DEF x, c
  <2>4. up[p].staged.is = "good" /\ temps[p] \in {Absent, up[p].staged} /\ up[p].release \in Public
    BY <1>1, <1>3 DEF UpdateOK, Holding, Verifying
  <2>5. up[p].staged.ver = Releases[up[p].release].tag
    <3>1. CASE up[p].pc = "verify"
      BY <2>1, <2>4, <3>1
    <3>2. CASE up[p].pc # "verify"
      BY <1>1, <1>3, <3>2 DEF UpdateOK, Verifying
    <3> QED
      BY <3>1, <3>2
  <2>6. UpdateOK(x, temps[p])
    BY <2>2, <2>3, <2>4, <2>5 DEF UpdateOK
  <2> QED
    BY <1>2, <1>3, <2>1, <2>2, <2>3, <2>6, AdvanceStep
<1> QED
  BY <1>4, <1>5

(* A binary that may be installed.                                         *)
LEMMA CheckedMayBeInstalled ==
    ASSUME UpdaterInv, published' = published, NEW r \in Public, NEW bytes \in Bytes,
           bytes.is = "good", bytes.ver = Releases[r].tag, executable' = bytes
    PROVE  executable' \in Bytes /\ InstalledIsVerified'
BY DEF InstalledIsVerified, Public

LEMMA UpdaterReplaceStep ==
    ASSUME UpdaterInv, NEW p \in Agents, ReplaceExistingFile(p)
    PROVE  UpdaterInv'
<1>1. up[p].pc = "replace" /\ p \in Updating
  BY DEF ReplaceExistingFile, At
<1>2. UpdateOK(up[p], temps[p]) /\ temps[p] \in Bytes
  BY <1>1, AgentsPair, OnlyUpdating, AgentIsOK
<1>3. CASE FailUpdate(p)
  BY <1>1, <1>3, FailUpdateStep DEF FailUpdate
<1>4. CASE ~FailUpdate(p)
  <2>1. /\ temps[p] # Absent /\ executable' = temps[p] /\ LeaveUpdate(p)
        /\ UNCHANGED <<windows, published, lockPath, inodes, kills>>
    BY <1>4 DEF ReplaceExistingFile
  <2>2. /\ temps[p] = up[p].staged /\ up[p].staged.is = "good" /\ up[p].release \in Public
        /\ up[p].staged.ver = Releases[up[p].release].tag
    BY <1>1, <1>2, <2>1 DEF UpdateOK, Holding, Verifying
  <2>3. executable' \in Bytes /\ InstalledIsVerified'
    BY <1>2, <2>1, <2>2, CheckedMayBeInstalled
  <2> QED
    BY <1>1, <2>1, <2>3, LeaveStep
<1> QED
  BY <1>3, <1>4

(* The helper gets what the updater has checked, and the updater leaves.   *)
LEMMA HandoffStep ==
    ASSUME UpdaterInv, NEW p \in Agents, HandoffWindows(p)
    PROVE  UpdaterInv'
<1> DEFINE h == HelperOf(p)
<1>1. up[p].pc = "handoff"
  BY DEF HandoffWindows, At
<1>2. p \in Updating /\ UpdateOK(up[p], temps[p]) /\ windows
  BY <1>1, OnlyUpdating DEF HelpPlaces, UpdateOK
<1>3. h \in Agents /\ h \in Helping /\ h # p /\ h \notin Updating
  BY <1>2, AgentsPair
<1>4. CASE FailUpdate(p)
  BY <1>1, <1>4, FailUpdateStep DEF FailUpdate
<1>5. CASE ~FailUpdate(p)
  <2> DEFINE x == [up[p] EXCEPT !.retain = TRUE, !.pc = "unlock"]
             z == [up[p] EXCEPT !.pc = "open", !.holds = FALSE]
  <2>1. /\ temps[p] = up[p].staged /\ temps' = [temps EXCEPT ![h] = temps[p]]
        /\ up' = [up EXCEPT ![p].retain = TRUE, ![p].pc = "unlock", ![h] = z]
        /\ UNCHANGED <<windows, published, executable, lockPath, inodes, kills>>
    BY <1>5 DEF HandoffWindows
  <2>2. up[p] \in UpStates /\ temps[p] \in Bytes /\ up \in [Agents -> UpStates] /\ temps \in [Agents -> Bytes]
    BY DEF UpdaterInv, UpdaterTypeOK
  <2>3. "unlock" \in UpdatePlaces /\ "open" \in HelpPlaces
    BY DEF UpdatePlaces, HelpPlaces
  <2>4. x \in UpStates /\ x.pc = "unlock"
    BY <2>2, <2>3 DEF UpStates
  <2>5. z \in UpStates /\ z.pc = "open" /\ z.release = up[p].release /\ z.staged = up[p].staged
    BY <2>2, <2>3 DEF UpStates
  <2>6. up' = [up EXCEPT ![p] = x, ![h] = z]
    BY <1>3, <2>1, <2>2 DEF UpStates
  <2> HIDE DEF x, z, h
  <2>7. up'[p] = x /\ up'[h] = z /\ \A q \in Agents \ {p, h} : up'[q] = up[q]
    BY <1>3, <2>2, <2>6
  <2>8. temps'[h] = temps[p] /\ \A q \in Agents \ {h} : temps'[q] = temps[q]
    BY <1>3, <2>1, <2>2
  <2>9. UpdaterTypeOK'
    BY <1>3, <2>1, <2>2, <2>4, <2>5, <2>6 DEF UpdaterInv, UpdaterTypeOK
  <2>10. StagedInv'
    <3> SUFFICES ASSUME NEW q \in Updating
                 PROVE  /\ UpdateOK(up'[q], temps'[q]) /\ HelpOK(up'[HelperOf(q)], temps'[q])
                        /\ up'[HelperOf(q)].pc \notin Inactive => up'[q].pc \in {"unlock", "remove", "ended"}
      BY <2>1 DEF StagedInv, UpdateOK, HelpOK, Public
    <3>1. q \in Agents /\ HelperOf(q) \in Agents /\ HelperOf(q) # p /\ q # h
      BY <1>2, <1>3, AgentsPair
    <3>2. CASE q = p
      <4>1. UpdateOK(x, temps[p])
        BY <2>3, <2>4 DEF UpdateOK, Holding, Verifying
      <4>2. /\ up[p].release \in Public /\ up[p].staged.is = "good"
            /\ up[p].staged.ver = Releases[up[p].release].tag
        BY <1>1, <1>2 DEF UpdateOK, Holding, Verifying
      <4>3. HelpOK(z, temps[p])
        BY <1>2, <2>1, <2>3, <2>5, <4>2 DEF HelpOK
      <4> QED
        BY <2>4, <2>7, <2>8, <3>1, <3>2, <4>1, <4>3 DEF h
    <3>3. CASE q # p
      <4>1. HelperOf(q) # h
        BY <1>2, <3>3, AgentsPair DEF h
      <4> QED
        BY <2>7, <2>8, <3>1, <3>3, <4>1 DEF UpdaterInv, StagedInv
    <3> QED
      BY <3>2, <3>3
  <2>11. TempInv'
    BY <1>2, <2>1 DEF TempInv
  <2>12. InstalledIsVerified'
    BY <2>1 DEF UpdaterInv, InstalledIsVerified, Public
  <2> QED
    BY <2>9, <2>10, <2>11, <2>12 DEF UpdaterInv
<1> QED
  BY <1>4, <1>5

(* The helper: it checks, tries again, and replaces with its updater's file*)
LEMMA HelperStep ==
    ASSUME UpdaterInv, NEW p \in Agents, HelperChecks(p) \/ HelperReplaces(p)
    PROVE  UpdaterInv'
<1> DEFINE o == OwnerOf(p)
<1>1. p \in Helping /\ up[p].pc \in {"inspect", "replace"}
  BY DEF HelperChecks, HelperReplaces, At
<1>2. p \notin Updating /\ o \in Updating /\ o \in Agents /\ o # p /\ Owner(p) = o /\ HelperOf(o) = p
  BY <1>1, AgentsPair DEF Owner
<1>3. HelpOK(up[p], temps[o]) /\ up[p] \in UpStates /\ temps[o] \in Bytes /\ temps[p] \in Bytes
  BY <1>2, AgentIsOK DEF AgentOK
<1>4. /\ up[p].release \in Public /\ up[p].staged.is = "good" /\ temps[o] \in {Absent, up[p].staged}
      /\ up[p].staged.ver = Releases[up[p].release].tag /\ windows
  BY <1>1, <1>3 DEF HelpOK
<1>5. CASE FailUpdate(p)
  BY <1>1, <1>5, FailUpdateStep DEF FailUpdate
<1>6. CASE \E c \in {"inspect", "replace"} :
              /\ up' = [up EXCEPT ![p] = [up[p] EXCEPT !.pc = c]]
              /\ UNCHANGED <<windows, published, executable, temps, lockPath, inodes, kills>>
  <2>1. PICK c \in {"inspect", "replace"} : up' = [up EXCEPT ![p] = [up[p] EXCEPT !.pc = c]]
    BY <1>6
  <2> DEFINE x == [up[p] EXCEPT !.pc = c]
  <2>2. c \in HelpPlaces
    BY DEF HelpPlaces
  <2>3. x \in UpStates /\ x.pc = c /\ x.release = up[p].release /\ x.staged = up[p].staged
    BY <1>3, <2>2, AnyPlace
  <2> HIDE DEF x
  <2>4. AgentOK(p, x, temps[Owner(p)])
    BY <1>2, <1>4, <2>2, <2>3 DEF AgentOK, HelpOK
  <2>5. {lockPath', inodes'} \subseteq Nat /\ up[p].pc \notin Inactive /\ up' = [up EXCEPT ![p] = x]
    BY <1>1, <1>6, <2>1 DEF UpdaterInv, UpdaterTypeOK, Inactive, x
  <2> QED
    BY <1>2, <1>6, <2>3, <2>4, <2>5, UpdaterMoves
<1>7. CASE /\ temps[o] # Absent /\ executable' = temps[o] /\ temps' = [temps EXCEPT ![o] = Absent]
           /\ GoTo(p, "unlock") /\ UNCHANGED <<windows, published, lockPath, inodes, kills>>
  <2> DEFINE x == [up[p] EXCEPT !.pc = "unlock"]
             files == [temps EXCEPT ![o] = Absent]
  <2>1. up' = [up EXCEPT ![p] = x] /\ temps' = files
    BY <1>7 DEF GoTo, Keep
  <2>2. x \in UpStates /\ x.pc = "unlock" /\ "unlock" \in HelpPlaces
    BY <1>3, AnyPlace DEF HelpPlaces
  <2>3. /\ files \in [Agents -> Bytes] /\ files[o] = Absent
        /\ \A t \in Agents \ {p} : files[t] \in {Absent, temps[t]}
    BY <1>2, AbsentIsNothing DEF UpdaterInv, UpdaterTypeOK
  <2>4. executable' \in Bytes /\ InstalledIsVerified'
    BY <1>3, <1>4, <1>7, CheckedMayBeInstalled
  <2>5. {lockPath', inodes', kills'} \subseteq Nat /\ kills' >= kills
    BY <1>7 DEF UpdaterInv, UpdaterTypeOK
  <2> HIDE DEF x, files
  <2>6. AgentOK(p, x, files[Owner(p)])
    BY <1>2, <1>4, <2>2 DEF AgentOK, HelpOK
  <2>7. up[p].pc \notin Inactive
    BY <1>1 DEF Inactive
  <2> QED
    BY <1>2, <1>4, <1>7, <2>1, <2>2, <2>3, <2>4, <2>5, <2>6, <2>7, UpdaterStep
<1> QED
  <2>1. CASE HelperChecks(p)
    BY <1>5, <1>6, <2>1 DEF HelperChecks, GoTo, Keep
  <2>2. CASE HelperReplaces(p)
    BY <1>5, <1>6, <1>7, <2>2 DEF HelperReplaces, GoTo, Keep
  <2> QED
    BY <2>1, <2>2

LEMMA KillUpdaterStep ==
    ASSUME UpdaterInv, NEW p \in Agents, KillUpdater(p)
    PROVE  UpdaterInv'
<1> DEFINE x == [up[p] EXCEPT !.pc = "ended", !.holds = FALSE]
           files == temps
<1>1. /\ up[p].pc \notin {"none", "ended"} /\ kills' = kills + 1 /\ up' = [up EXCEPT ![p] = x] /\ temps' = files
      /\ UNCHANGED <<windows, published, executable, lockPath, inodes>>
  BY DEF KillUpdater, Keep
<1>2. "ended" \in UpdatePlaces /\ "ended" \in HelpPlaces
  BY DEF UpdatePlaces, HelpPlaces
<1>3. x \in UpStates /\ x.pc = "ended"
  BY <1>2, AgentIsOK DEF UpStates
<1>4. files \in [Agents -> Bytes] /\ \A t \in Agents : files[t] \in {Absent, temps[t]}
  BY DEF UpdaterInv, UpdaterTypeOK
<1>5. kills \in Nat /\ kills' # 0 /\ {lockPath', inodes', kills'} \subseteq Nat /\ kills' >= kills
  BY <1>1 DEF UpdaterInv, UpdaterTypeOK
<1>6. executable' \in Bytes /\ InstalledIsVerified'
  BY <1>1 DEF UpdaterInv, UpdaterTypeOK, InstalledIsVerified, Public
<1>7. AgentOK(p, up[p], temps[Owner(p)])
  BY AgentIsOK
<1> HIDE DEF x, files
<1>8. AgentOK(p, x, files[Owner(p)])
  BY <1>1, <1>2, <1>3, <1>7 DEF AgentOK, UpdateOK, HelpOK, Holding, Verifying
<1>9. x.pc \in Inactive
  BY <1>3 DEF Inactive
<1> QED
  BY <1>1, <1>3, <1>4, <1>5, <1>6, <1>8, <1>9, UpdaterStep

(* A release that is public stays public.                                  *)
LEMMA PublishStep ==
    ASSUME UpdaterInv, Publish
    PROVE  UpdaterInv'
<1>1. /\ published' = published + 1 /\ published < Len(Releases)
      /\ UNCHANGED <<windows, executable, temps, lockPath, inodes, up, kills>>
  BY DEF Publish
<1>2. published \in Nat /\ Len(Releases) \in Nat
  BY UpdaterAssumption DEF UpdaterAssumption, UpdaterInv, UpdaterTypeOK
<1>3. UpdaterTypeOK'
  BY <1>1, <1>2 DEF UpdaterInv, UpdaterTypeOK
<1>4. \A r : r \in Public => r \in Public'
  BY <1>1, <1>2 DEF Public
<1>5. StagedInv'
  BY <1>1, <1>4 DEF UpdaterInv, StagedInv, UpdateOK, HelpOK
<1>6. TempInv'
  BY <1>1 DEF UpdaterInv, TempInv
<1>7. InstalledIsVerified'
  BY <1>1, <1>4 DEF UpdaterInv, InstalledIsVerified
<1> QED
  BY <1>3, <1>5, <1>6, <1>7 DEF UpdaterInv

(* UpdaterInv is inductive.                                                *)
THEOREM UpdaterInvHolds == UpdaterSpec => []UpdaterInv
<1>1. UpdaterInit => UpdaterInv
  BY UpdaterInitially
<1>2. UpdaterInv /\ [UpdaterNext]_updaterVars => UpdaterInv'
  <2> SUFFICES ASSUME UpdaterInv, [UpdaterNext]_updaterVars PROVE UpdaterInv'
    OBVIOUS
  <2>1. CASE UNCHANGED updaterVars
    BY <2>1 DEF updaterVars, UpdaterInv, UpdaterTypeOK, StagedInv, TempInv, InstalledIsVerified, UpdateOK, HelpOK,
                Public
  <2>2. CASE Publish
    BY <2>2, PublishStep
  <2>3. ASSUME NEW p \in Agents, StartUpdate(p) \/ UpdateStep(p) \/ KillUpdater(p) PROVE UpdaterInv'
    BY <2>3, StartStep, KillUpdaterStep, LockFileStep, CleanupStep, IdentityStep, FetchStep, CreateStep,
       DownloadStep, VerifyStep, UpdaterReplaceStep, HandoffStep, HelperStep
    DEF UpdateStep
  <2> QED
    BY <2>1, <2>2, <2>3 DEF UpdaterNext
<1> QED
  BY <1>1, <1>2, PTL DEF UpdaterSpec

(* The executable is always a published, verified binary (updater.rs,      *)
(* download_binary to replace_existing_file, and the Windows helper).      *)
THEOREM ExecutableIsVerified == UpdaterSpec => []InstalledIsVerified
<1>1. UpdaterInv => InstalledIsVerified
  BY DEF UpdaterInv
<1> QED
  BY <1>1, UpdaterInvHolds, PTL

(* On Unix no temporary file outlives its updater, unless one is killed.   *)
THEOREM TemporariesAreRemoved == UpdaterSpec => []NoTemporaryIsLeft
<1>1. UpdaterInv => NoTemporaryIsLeft
  BY DEF UpdaterInv, TempInv, NoTemporaryIsLeft, Holding, Verifying
<1> QED
  BY <1>1, UpdaterInvHolds, PTL
=============================================================================

-------------------------- MODULE CredentialHelper --------------------------
(***************************************************************************)
(* helper_key of the configuration: the user's command that prints an API  *)
(* key, the thread that reads its output, and the loop that polls both     *)
(* until the deadline.  The command may leave a process of its own behind  *)
(* that keeps the pipe open.                                               *)
(***************************************************************************)
EXTENDS Integers

CONSTANTS
    MaxKey,     \* MAX_HELPER_OUTPUT_BYTES
    MaxPrinted  \* bound: bytes that the command and its children print

ASSUME CredentialHelperAssumption == MaxKey \in Nat \ {0} /\ MaxPrinted \in Nat

VARIABLES
    helper,   \* the command: not started, running, ended well, ended badly, killed
    orphan,   \* whether a process of the command still has the pipe
    printed,  \* bytes that were printed
    reader,   \* what the reading thread has sent: a length, Unread or Broken
    asker,    \* helper_key: place, what it has received, whether the deadline is over
    key       \* the length of the key that was returned, if one was

helperVars == <<helper, orphan, printed, reader, asker, key>>

Unread == -1
Broken == -2
Asleep == [pc |-> "idle", read |-> Unread, status |-> "none", late |-> FALSE, killed |-> FALSE]

Gone == helper \in {"well", "badly", "killed"}
Closed == Gone /\ ~orphan

-----------------------------------------------------------------------------
(* The command and the thread.                                             *)

HelperPrints ==
    /\ (helper = "running" \/ (Gone /\ orphan)) /\ printed < MaxPrinted
    /\ printed' = printed + 1
    /\ UNCHANGED <<helper, orphan, reader, asker, key>>

HelperForks ==
    /\ helper = "running" /\ ~orphan
    /\ orphan' = TRUE
    /\ UNCHANGED <<helper, printed, reader, asker, key>>

OrphanEnds ==
    /\ orphan
    /\ orphan' = FALSE
    /\ UNCHANGED <<helper, printed, reader, asker, key>>

HelperEnds ==
    /\ helper = "running"
    /\ helper' \in {"well", "badly"}
    /\ UNCHANGED <<orphan, printed, reader, asker, key>>

\* The thread reads to the end of the pipe, or one byte more than the limit.
ReaderSends ==
    /\ helper # "none" /\ reader = Unread
    /\ \/ printed > MaxKey /\ reader' = MaxKey + 1
       \/ Closed /\ printed <= MaxKey /\ reader' = printed
       \/ reader' = Broken
    /\ UNCHANGED <<helper, orphan, printed, asker, key>>

-----------------------------------------------------------------------------
(* helper_key.                                                             *)

Kill == helper' = IF helper = "running" THEN "killed" ELSE helper

AskHelper ==
    /\ asker.pc = "idle" /\ helper = "none"
    /\ helper' = "running"
    /\ asker' = [Asleep EXCEPT !.pc = "receive"]
    /\ UNCHANGED <<orphan, printed, reader, key>>

\* try_recv
ReceiveOutput ==
    /\ asker.pc = "receive"
    /\ asker' = [asker EXCEPT !.pc = "look", !.read = IF @ = Unread THEN reader ELSE @]
    /\ UNCHANGED <<helper, orphan, printed, reader, key>>

\* The loop ends when there is an output and a status.
CollectedAtExit(a) == a.status # "none"
Collected(a) == a.status # "none" /\ a.read # Unread

\* try_wait, the kill of a command that prints too much, and the deadline, when the
\* command is killed and waited for.
LookAtHelper ==
    /\ asker.pc = "look"
    /\ LET status == IF asker.status = "none" /\ Gone THEN helper ELSE asker.status
           kill == asker.read > MaxKey \/ asker.read = Broken
           killed == asker.killed \/ kill
           next == [asker EXCEPT !.status = status, !.killed = killed]
       IN  IF Collected(next)
           THEN /\ asker' = [next EXCEPT !.pc = "judge"]
                /\ IF kill /\ ~asker.killed THEN Kill ELSE UNCHANGED helper
           ELSE IF asker.late THEN Kill /\ asker' = [next EXCEPT !.pc = "done"]
           ELSE /\ asker' = [next EXCEPT !.pc = "receive"]
                /\ IF kill /\ ~asker.killed THEN Kill ELSE UNCHANGED helper
    /\ UNCHANGED <<orphan, printed, reader, key>>

\* try_wait fails: the command is killed and waited for.
LoseHelper ==
    /\ asker.pc = "look" /\ asker.status = "none"
    /\ Kill
    /\ asker' = [asker EXCEPT !.pc = "done"]
    /\ UNCHANGED <<orphan, printed, reader, key>>

HelperDeadline ==
    /\ asker.pc \in {"receive", "look"} /\ ~asker.late
    /\ asker' = [asker EXCEPT !.late = TRUE]
    /\ UNCHANGED <<helper, orphan, printed, reader, key>>

\* What was read is a key when it fits, the command ended well, and it is a clean text.
JudgeKey ==
    /\ asker.pc = "judge"
    /\ asker' = [asker EXCEPT !.pc = "done"]
    /\ \/ asker.read # Broken /\ asker.read <= MaxKey /\ asker.status = "well" /\ asker.read # 0 /\ key' = {asker.read}
       \/ UNCHANGED key                                  \* also: not UTF-8, or with controls
    /\ UNCHANGED <<helper, orphan, printed, reader>>

HelperInit ==
    /\ helper = "none" /\ orphan = FALSE /\ printed = 0 /\ reader = Unread
    /\ asker = Asleep /\ key = {}

HelperNext ==
    \/ HelperPrints \/ HelperForks \/ OrphanEnds \/ HelperEnds \/ ReaderSends
    \/ AskHelper \/ ReceiveOutput \/ LookAtHelper \/ LoseHelper \/ HelperDeadline \/ JudgeKey

HelperSpec == HelperInit /\ [][HelperNext]_helperVars

-----------------------------------------------------------------------------
(* Properties.                                                             *)

(* helper_key returns a key only when the command has ended well, nobody   *)
(* can print any more, and the key is all that was printed: never a part   *)
(* of what a slow command or a child of it was still writing.              *)
KeyIsTheWholeAnswer == \A k \in key : helper = "well" /\ ~orphan /\ k = printed

-----------------------------------------------------------------------------
(* The inductive invariant behind it.                                      *)

Reports == {Unread, Broken} \cup 0..(MaxKey + 1)

Askers == [pc : {"idle", "receive", "look", "judge", "done"}, read : Reports,
           status : {"none", "well", "badly", "killed"}, late : BOOLEAN, killed : BOOLEAN]

HelperTypeOK ==
    /\ helper \in {"none", "running", "well", "badly", "killed"} /\ orphan \in BOOLEAN
    /\ printed \in Nat /\ reader \in Reports /\ key \subseteq Nat
    /\ asker \in Askers

(* A reader that reached the end of the pipe has everything, for good.     *)
ReaderInv == reader \in 0..MaxKey => Closed /\ reader = printed

(* What helper_key holds is what the thread has sent and how the command   *)
(* ended, and it judges only when it has both.                             *)
AskerInv ==
    /\ asker.read # Unread => asker.read = reader
    /\ asker.status # "none" => asker.status = helper
    /\ asker.pc = "judge" => Collected(asker)

HelperInv == HelperTypeOK /\ ReaderInv /\ AskerInv /\ KeyIsTheWholeAnswer
=============================================================================

--------------------------- MODULE SessionJournal ---------------------------
(***************************************************************************)
(* The JSONL session store of aether-agent (session.rs, session_fs.rs) and  *)
(* the order in which the shell (aether/src/main.rs) opens, appends to,     *)
(* closes and resumes one session file.                                     *)
(*                                                                         *)
(* One process at a time owns the store.  An append is three steps of one  *)
(* thread: the line is encoded and its size checked (Encode), the file     *)
(* is compacted when the line does not fit (Compact), the bytes are        *)
(* written, terminated and synced (WriteLine), and the whole file is       *)
(* replayed (Verify).  A write may fail, and the process or the machine    *)
(* may stop, at any of them; what then is in the file is a prefix of the   *)
(* bytes of that line, or all of them.                                     *)
(*                                                                         *)
(* A record is its kind, its turn, its line number and its encoded length. *)
(* Replay, restore and compaction never look at the order of turn records  *)
(* relative to the Started and Finished markers, so the file keeps the two *)
(* sorts in two sequences; TurnSnapshot and Checkpoint are treated alike   *)
(* by all of them and are one kind here.                                   *)
(***************************************************************************)
EXTENDS Integers, Sequences, FiniteSets

CONSTANTS
    MaxFileBytes,    \* MAX_SESSION_FILE_BYTES
    MaxLineBytes,    \* MAX_SESSION_LINE_BYTES
    MaxLines,        \* MAX_SESSION_LINES
    MaxStoredTurns,  \* MAX_STORED_TURNS
    MarkSize,        \* encoded length of a Started or Finished record
    TurnSizes,       \* encoded lengths a turn record can have
    MaxTurns,        \* bound: turns taken in one behaviour
    MaxSequence      \* bound: the largest line number given out

ASSUME LimitsAssumption ==
    /\ MaxFileBytes \in Nat /\ MaxLineBytes \in Nat /\ MaxLines \in Nat
    /\ MaxStoredTurns \in Nat \ {0}
    /\ MarkSize \in Nat /\ 1 < MarkSize /\ MarkSize < MaxLineBytes
    /\ TurnSizes \subseteq Nat \ {0, 1}
    /\ MaxTurns \in Nat /\ MaxSequence \in Nat

VARIABLES
    file,      \* the contents of <session-id>.jsonl
    proc,      \* the shell: "down", "up", or "closing" (only Finished is left)
    started,   \* SessionRuntime.session_started
    next,      \* SessionStore.next_sequence
    pc,        \* where the append in progress is: "idle", "compact", "write", "verify"
    rec,       \* the record being appended (NoRecord when pc = "idle")
    turnNo,    \* turns taken so far: every turn has a fresh identity
    acked      \* the turns whose append returned Ok

vars == <<file, proc, started, next, pc, rec, turnNo, acked>>

-----------------------------------------------------------------------------
(* Records and files                                                       *)

TurnRecords == [kind : {"turn"}, turn : 1 .. MaxTurns, seq : Nat, size : Nat]
Markers == [kind : {"started", "finished"}, turn : {0}, seq : Nat, size : {MarkSize}]

NoRecord == [kind |-> "none", turn |-> 0, seq |-> 0, size |-> 0]

(* What follows the last newline: nothing, a piece that is not JSON, or a   *)
(* complete record that lacks only its newline.                             *)
Torn(n) == [kind |-> "torn", turn |-> 0, seq |-> 0, size |-> n]
TornTails == [kind : {"torn"}, turn : {0}, seq : {0}, size : Nat]
Tails == {NoRecord} \cup TornTails \cup TurnRecords \cup Markers

(* bytes is the file's length; garbage says that some terminated line is    *)
(* not a record.                                                            *)
Empty == [turns |-> <<>>, marks |-> <<>>, tail |-> NoRecord,
          garbage |-> FALSE, bytes |-> 0]

(* The complete records replay returns: an unterminated one counts.         *)
IsTurn(r) == r.kind = "turn"
IsMark(r) == r.kind \in {"started", "finished"}
Turns(f) == IF IsTurn(f.tail) THEN Append(f.turns, f.tail) ELSE f.turns
Marks(f) == IF IsMark(f.tail) THEN Append(f.marks, f.tail) ELSE f.marks

LineCount(f) == Len(Turns(f)) + Len(Marks(f))

(* replay_reader and parse_lines succeed.  The length of a terminated line  *)
(* is compared with its newline included.                                   *)
Readable(f) ==
    /\ f.bytes <= MaxFileBytes
    /\ ~f.garbage
    /\ \A i \in DOMAIN f.turns : f.turns[i].size + 1 <= MaxLineBytes
    /\ \A i \in DOMAIN f.marks : f.marks[i].size + 1 <= MaxLineBytes
    /\ f.tail.size <= MaxLineBytes
    /\ LineCount(f) <= MaxLines

(* restore: a readable file with a Started record and at least one turn.    *)
Restorable(f) ==
    /\ Readable(f)
    /\ \E i \in DOMAIN Marks(f) : Marks(f)[i].kind = "started"
    /\ Turns(f) # <<>>

(* The turn whose snapshot restore returns: the last one in the file.       *)
LastTurn(f) == IF Turns(f) = <<>> THEN 0 ELSE Turns(f)[Len(Turns(f))].turn

(* open: one more than the largest line number, and 1 for an empty file.    *)
NextSequence(f) ==
    LET seqs == {Turns(f)[i].seq : i \in DOMAIN Turns(f)}
                  \cup {Marks(f)[i].seq : i \in DOMAIN Marks(f)}
    IN IF seqs = {} THEN 1
       ELSE 1 + CHOOSE n \in seqs : \A m \in seqs : m <= n

-----------------------------------------------------------------------------
(* What the store does to a file                                           *)

(* How far the bytes of one line get: nothing, a piece, all but the newline, *)
(* or all of it.                                                           *)
Extents == {"none", "piece", "body", "line"}

Written(r, extent) ==
    IF extent = "none" THEN 0
    ELSE IF extent = "piece" THEN 1
    ELSE IF extent = "body" THEN r.size
    ELSE r.size + 1

(* Bytes go after whatever the file ends with: a line that starts behind an  *)
(* unterminated tail is one text with it and is not JSON.                   *)
Put(f, r, extent) ==
    LET clean == f.tail = NoRecord
        whole == extent = "line" /\ clean
    IN [turns   |-> IF whole /\ IsTurn(r) THEN Append(f.turns, r) ELSE f.turns,
        marks   |-> IF whole /\ IsMark(r) THEN Append(f.marks, r) ELSE f.marks,
        tail    |-> IF extent = "line" THEN NoRecord
                    ELSE IF extent = "none" THEN f.tail
                    ELSE IF extent = "body" /\ clean THEN r
                    ELSE Torn(f.tail.size + Written(r, extent)),
        garbage |-> f.garbage \/ (extent = "line" /\ ~clean),
        bytes   |-> f.bytes + Written(r, extent)]

(* Mutants: compaction keeps one turn too few; it keeps the oldest ones.     *)
NewestButOne(s, n) == SubSeq(s, IF Len(s) > n THEN Len(s) - n + 2 ELSE 1, Len(s))

Oldest(s, n) == SubSeq(s, 1, IF Len(s) > n THEN n ELSE Len(s))

(* compact: the last Started record and the last MaxStoredTurns turns, with  *)
(* new line numbers; Finished records and unterminated pieces go.           *)
Newest(s, n) == SubSeq(s, IF Len(s) > n THEN Len(s) - n + 1 ELSE 1, Len(s))

LastStarted(s) ==
    LET at == {i \in DOMAIN s : s[i].kind = "started"}
    IN IF at = {} THEN <<>>
       ELSE << [s[CHOOSE i \in at : \A j \in at : j <= i] EXCEPT !.seq = 1] >>

SumLines(s) ==
    LET sum[n \in 0 .. Len(s)] == IF n = 0 THEN 0 ELSE sum[n - 1] + s[n].size + 1
    IN  sum[Len(s)]

Compacted(f) ==
    LET head == LastStarted(Marks(f))
        last == Newest(Turns(f), MaxStoredTurns)
        kept == [i \in 1 .. Len(last) |-> [last[i] EXCEPT !.seq = Len(head) + i]]
    IN [turns |-> kept, marks |-> head, tail |-> NoRecord, garbage |-> FALSE,
        bytes |-> SumLines(head) + SumLines(kept)]

KeptCount(f) == Len(f.marks) + Len(f.turns)

-----------------------------------------------------------------------------
(* The shell                                                               *)

Init ==
    /\ file = Empty
    /\ proc = "down"
    /\ started = FALSE
    /\ next = 1
    /\ pc = "idle"
    /\ rec = NoRecord
    /\ turnNo = 0
    /\ acked = {}

(* ensure_agent with a new session identity: open finds no file.            *)
Start ==
    /\ proc = "down"
    /\ file = Empty
    /\ proc' = "up"
    /\ started' = FALSE
    /\ next' = NextSequence(file)
    /\ UNCHANGED <<file, pc, rec, turnNo, acked>>

(* aether resume, or the session picker: restore, then open.                *)
Resume ==
    /\ proc = "down"
    /\ Restorable(file)
    /\ proc' = "up"
    /\ started' = TRUE
    /\ next' = NextSequence(file)
    /\ UNCHANGED <<file, pc, rec, turnNo, acked>>

(* A model or browser switch drops the agent; ensure_agent opens the store  *)
(* again under the same identity and numbers on from the file.              *)
Reopen ==
    /\ proc = "up" /\ started /\ pc = "idle"
    /\ Readable(file)
    /\ next' = NextSequence(file)
    /\ UNCHANGED <<file, proc, started, pc, rec, turnNo, acked>>

(* Mutant: the compaction test forgets the newline.                         *)
EncodeForgetsNewline(kind, turn, size) ==
    /\ pc = "idle"
    /\ next <= MaxSequence
    /\ size <= MaxLineBytes
    /\ rec' = [kind |-> kind, turn |-> turn, seq |-> next, size |-> size]
    /\ pc' = IF file.bytes + size > MaxFileBytes THEN "compact" ELSE "write"
    /\ UNCHANGED <<file, next, acked>>

(* append up to the compaction test: the line is built with the sequence    *)
(* number of this moment, and refused when it is too long.                  *)
Encode(kind, turn, size) ==
    /\ pc = "idle"
    /\ next <= MaxSequence
    /\ size <= MaxLineBytes
    /\ rec' = [kind |-> kind, turn |-> turn, seq |-> next, size |-> size]
    /\ pc' = IF file.bytes + size + 1 > MaxFileBytes THEN "compact" ELSE "write"
    /\ UNCHANGED <<file, next, acked>>

(* What an append that returns Err leaves the shell with: no session, a     *)
(* shell that closes, or a closed one.                                      *)
AfterError(kind) == IF kind = "turn" THEN "closing" ELSE "down"

AppendStarted ==
    /\ proc = "up" /\ ~started
    /\ Encode("started", 0, MarkSize)
    /\ UNCHANGED <<proc, started, turnNo>>

AppendTurn(size) ==
    /\ proc = "up" /\ started
    /\ turnNo < MaxTurns
    /\ turnNo' = turnNo + 1
    /\ Encode("turn", turnNo + 1, size)
    /\ UNCHANGED <<proc, started>>

(* The record is longer than a line may be (or holds a secret): Err before  *)
(* anything is written.                                                     *)
RefuseTurn ==
    /\ proc = "up" /\ started /\ pc = "idle"
    /\ turnNo < MaxTurns
    /\ turnNo' = turnNo + 1
    /\ proc' = AfterError("turn")
    /\ UNCHANGED <<file, started, next, pc, rec, acked>>

(* close_current: /exit, /clear, another session, or a turn that could not  *)
(* be persisted.                                                            *)
AppendFinished ==
    /\ proc \in {"up", "closing"} /\ started
    /\ Encode("finished", 0, MarkSize)
    /\ proc' = "closing"
    /\ UNCHANGED <<started, turnNo>>

FailAppend ==
    /\ pc' = "idle"
    /\ rec' = NoRecord
    /\ proc' = AfterError(rec.kind)
    /\ UNCHANGED <<started, turnNo, acked>>

(* compact replays first and writes nothing when the replay or the size of   *)
(* the result is refused; the new file replaces the old one by a rename.     *)
Compact ==
    /\ pc = "compact"
    /\ Readable(file)
    /\ Compacted(file).bytes \in 0 .. MaxFileBytes
    /\ file' = Compacted(file)
    /\ next' = KeptCount(Compacted(file)) + 1
    /\ pc' = "write"
    /\ UNCHANGED <<proc, started, rec, turnNo, acked>>

(* The replay or the result is refused, or the temporary file cannot be      *)
(* written or renamed.                                                       *)
CompactFails ==
    /\ pc = "compact"
    /\ FailAppend
    /\ UNCHANGED <<file, next>>

WriteLine ==
    /\ pc = "write"
    /\ file' = Put(file, rec, "line")
    /\ next' = next + 1
    /\ pc' = "verify"
    /\ UNCHANGED <<proc, started, rec, turnNo, acked>>

(* open, write_all, the newline, flush or sync_all returns an error.         *)
WriteFails(extent) ==
    /\ pc = "write"
    /\ file' = Put(file, rec, extent)
    /\ FailAppend
    /\ UNCHANGED next

(* The replay that ends append.  It refuses a file of more than MaxLines     *)
(* lines itself, so the compaction that follows it in the code never runs.   *)
Verify ==
    /\ pc = "verify"
    /\ Readable(file)
    /\ pc' = "idle"
    /\ rec' = NoRecord
    /\ started' = (started \/ rec.kind = "started")
    /\ proc' = IF rec.kind = "finished" THEN "down" ELSE proc
    /\ acked' = IF rec.kind = "turn" THEN acked \cup {rec.turn} ELSE acked
    /\ UNCHANGED <<file, next, turnNo>>

VerifyFails ==
    /\ pc = "verify"
    /\ ~Readable(file)
    /\ FailAppend
    /\ UNCHANGED <<file, next>>

(* The process or the machine stops.  Bytes of the line being written that   *)
(* were not synced may be lost from the end.                                 *)
Crash(extent) ==
    /\ proc # "down"
    /\ extent # "none" => pc = "write"
    /\ file' = Put(file, rec, extent)
    /\ proc' = "down"
    /\ started' = FALSE
    /\ pc' = "idle"
    /\ rec' = NoRecord
    /\ next' = 1
    /\ UNCHANGED <<turnNo, acked>>

Next ==
    \/ Start
    \/ Resume
    \/ Reopen
    \/ AppendStarted
    \/ \E size \in TurnSizes : AppendTurn(size)
    \/ RefuseTurn
    \/ AppendFinished
    \/ Compact
    \/ CompactFails
    \/ WriteLine
    \/ \E extent \in Extents : WriteFails(extent)
    \/ Verify
    \/ VerifyFails
    \/ \E extent \in Extents : Crash(extent)

Spec == Init /\ [][Next]_vars

-----------------------------------------------------------------------------
(* Properties                                                              *)

TypeOK ==
    /\ file \in [turns : Seq(TurnRecords), marks : Seq(Markers), tail : Tails,
                 garbage : BOOLEAN, bytes : Nat]
    /\ proc \in {"down", "up", "closing"}
    /\ started \in BOOLEAN
    /\ next \in Nat
    /\ pc \in {"idle", "compact", "write", "verify"}
    /\ rec \in {NoRecord} \cup TurnRecords \cup Markers
    /\ turnNo \in 0 .. MaxTurns
    /\ acked \subseteq 1 .. turnNo

(* A turn whose append returned Ok stays in the file until MaxStoredTurns     *)
(* newer turns have been taken, through every compaction, failed write,       *)
(* crash and resume, and even when the file cannot be replayed any more.      *)
KeepsNewestTurns ==
    \A t \in acked : turnNo - t < MaxStoredTurns =>
        \E i \in DOMAIN file.turns : file.turns[i].turn = t

(* A resume restores the newest acknowledged turn or one taken after it.      *)
ResumeNeverRollsBack ==
    Restorable(file) => \A t \in acked : t <= LastTurn(file)

(* When the newest turns fit in the file beside one more record, neither the  *)
(* file limit nor the line limit makes the file unreadable: append compacts   *)
(* in time.  (The line count is not looked at before it is too large.)        *)
HasRoom ==
    \A size \in TurnSizes \cup {MarkSize} :
        /\ size + 1 <= MaxLineBytes
        /\ MarkSize + 1 + (MaxStoredTurns + 1) * (size + 1) <= MaxFileBytes

Damaged == file.garbage \/ file.tail.kind = "torn"

RoomMeansReadable ==
    HasRoom => Readable(file) \/ Damaged \/ LineCount(file) > MaxLines

(* A file that replay refuses is never compacted: every turn record in it     *)
(* stays where it is.                                                         *)
UnreadableIsLeftAlone ==
    [][~Readable(file) => \A i \in DOMAIN file.turns :
                            /\ i \in DOMAIN file'.turns
                            /\ file'.turns[i] = file.turns[i]]_vars

(* The store implements the promise SessionLog states.                        *)
Log == INSTANCE SessionLog WITH
    promised <- acked,
    recovers <- IF Readable(file) THEN LastTurn(file) ELSE 0,
    readable <- Readable(file)

ImplementsSessionLog == Log!LogSpec

(* The inductive invariant behind the safety properties above.  Turn         *)
(* identities grow with their position by at least one a line, so that the    *)
(* newest MaxStoredTurns lines hold the newest MaxStoredTurns turns.          *)
TurnsInOrder ==
    \A i, j \in DOMAIN Turns(file) :
        i <= j => Turns(file)[j].turn - Turns(file)[i].turn >= j - i

TurnsWereTaken ==
    \A i \in DOMAIN Turns(file) :
        /\ Turns(file)[i].turn <= turnNo
        /\ pc \in {"compact", "write"} /\ rec.kind = "turn" => Turns(file)[i].turn < turnNo

AppendInProgress ==
    /\ pc = "idle" <=> rec = NoRecord
    /\ pc # "idle" => proc # "down"
    /\ rec.kind = "turn" => rec.turn = turnNo /\ turnNo \notin acked
    /\ pc = "verify" /\ rec.kind = "turn" /\ ~file.garbage =>
         /\ file.tail = NoRecord
         /\ file.turns # <<>>
         /\ file.turns[Len(file.turns)].turn = turnNo

AckedTurnsAreCovered ==
    \A t \in acked : file.turns # <<>> /\ t <= file.turns[Len(file.turns)].turn

IndInv ==
    /\ TypeOK
    /\ KeepsNewestTurns
    /\ TurnsInOrder
    /\ TurnsWereTaken
    /\ AppendInProgress
    /\ AckedTurnsAreCovered

(* ... and the one behind RoomMeansReadable: every turn has one of the sizes, *)
(* and a line is written only where it fits.                                  *)
RoomInv ==
    /\ \A i \in DOMAIN Turns(file) : Turns(file)[i].size \in TurnSizes
    /\ rec.kind = "turn" => rec.size \in TurnSizes
    /\ HasRoom => /\ file.bytes <= MaxFileBytes
                  /\ pc = "write" => file.bytes + rec.size + 1 <= MaxFileBytes

(* aether-core session.rs:57, "Partial writes of this record are ignored on   *)
(* replay": no written line becomes one that replay rejects.                  *)
PartialWritesAreIgnored == ~file.garbage

=============================================================================

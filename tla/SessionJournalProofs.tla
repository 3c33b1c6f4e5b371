------------------------ MODULE SessionJournalProofs ------------------------
(***************************************************************************)
(* For every value of the limits: the session file keeps acknowledged      *)
(* turns through compaction, failed writes, crashes and resumes, and the   *)
(* store implements SessionLog.                                            *)
(***************************************************************************)
EXTENDS SessionJournal, SequenceTheorems, WellFoundedInduction, TLAPS

(* What a step of the store does to the typed parts of a file.              *)
FileSet == [turns : Seq(TurnRecords), marks : Seq(Markers), tail : Tails,
            garbage : BOOLEAN, bytes : Nat]

LEMMA RecordType ==
    /\ \A r \in TurnRecords \cup Markers : r.size \in Nat /\ r.seq \in Nat
    /\ \A r \in TurnRecords : r.turn \in Nat
    /\ \A t \in Tails : t.size \in Nat
BY LimitsAssumption DEF TurnRecords, Markers, Tails, TornTails, NoRecord

LEMMA PutType ==
    ASSUME NEW f \in FileSet, NEW r \in TurnRecords \cup Markers, NEW e \in Extents
    PROVE  Put(f, r, e) \in FileSet
<1>1. /\ f.tail \in Tails /\ f.tail.size \in Nat /\ r.size \in Nat /\ f.bytes \in Nat
      /\ f.garbage \in BOOLEAN
      /\ f.turns \in Seq(TurnRecords) /\ f.marks \in Seq(Markers)
  BY RecordType DEF FileSet
<1>2. \A n \in Nat : Torn(n) \in Tails
  BY DEF Torn, Tails, TornTails
<1>3. IsTurn(r) => r \in TurnRecords
  BY DEF IsTurn, TurnRecords, Markers
<1>4. IsMark(r) => r \in Markers
  BY DEF IsMark, TurnRecords, Markers
<1>5. r \in Tails /\ NoRecord \in Tails
  BY DEF Tails
<1>6. Written(r, e) \in Nat
  BY <1>1 DEF Written
<1>7. Put(f, r, e).turns \in Seq(TurnRecords) /\ Put(f, r, e).marks \in Seq(Markers)
  BY <1>1, <1>3, <1>4 DEF Put
<1>8. Put(f, r, e).tail \in Tails
  BY <1>1, <1>2, <1>5, <1>6 DEF Put
<1>9. Put(f, r, e).garbage \in BOOLEAN /\ Put(f, r, e).bytes \in Nat
  BY <1>1, <1>6 DEF Put
<1> QED BY <1>7, <1>8, <1>9 DEF Put, FileSet


(***************************************************************************)
(* Line numbers: the largest one exists, so open starts at a natural       *)
(* number.  The well-ordering of Nat stands in for induction on the length.*)
(***************************************************************************)
LEMMA LeastNatural ==
    ASSUME NEW T \in SUBSET Nat, T # {}
    PROVE  \E x \in T : \A y \in T : x <= y
<1>1. PICK x \in T : \A y \in T : ~ (<<y, x>> \in OpToRel(<, Nat))
  BY NatLessThanWellFounded, WFMin
<1>2. \A y \in T : ~ (y < x)
  BY <1>1 DEF OpToRel
<1> QED BY <1>2

LEMMA FunctionIsBounded ==
    ASSUME NEW n \in Nat, NEW g \in [1 .. n -> Nat]
    PROVE  \E b \in Nat : \A i \in 1 .. n : g[i] <= b
<1> DEFINE Bounded(k) == \E b \in Nat : \A i \in 1 .. k : g[i] <= b
           bad == {k \in 0 .. n : ~ Bounded(k)}
<1> SUFFICES Bounded(n)
  OBVIOUS
<1>1. Bounded(0)
  OBVIOUS
<1>2. ASSUME NEW k \in 1 .. n, Bounded(k - 1) PROVE Bounded(k)
  <2>1. PICK b \in Nat : \A i \in 1 .. (k - 1) : g[i] <= b
    BY <1>2
  <2>2. g[k] \in Nat
    OBVIOUS
  <2>3. PICK c \in Nat : b <= c /\ g[k] <= c
    <3>1. b <= g[k] \/ g[k] <= b
      BY <2>2
    <3> QED BY <2>2, <3>1
  <2>4. ASSUME NEW i \in 1 .. k PROVE g[i] <= c
    <3>1. g[i] \in Nat
      OBVIOUS
    <3>2. CASE i = k
      BY <2>3, <3>2
    <3>3. CASE i # k
      BY <2>1, <2>3, <3>1, <3>3
    <3> QED BY <3>2, <3>3
  <2> QED BY <2>4
<1>3. ASSUME bad # {} PROVE FALSE
  <2> HIDE DEF Bounded
  <2>1. bad \in SUBSET Nat
    OBVIOUS
  <2>2. PICK m \in bad : \A k \in bad : m <= k
    BY <1>3, <2>1, LeastNatural
  <2>3. m \in 0 .. n /\ m # 0 /\ ~ Bounded(m)
    BY <1>1, <2>2
  <2>4. m - 1 \notin bad
    BY <2>2, <2>3
  <2>5. Bounded(m - 1)
    BY <2>3, <2>4
  <2> QED BY <1>2, <2>3, <2>5
<1> HIDE DEF Bounded
<1> QED BY <1>3

LEMMA LargestNatural ==
    ASSUME NEW S \in SUBSET Nat, S # {}, NEW b \in Nat, \A n \in S : n <= b
    PROVE  \E n \in S : \A m \in S : m <= n
<1> DEFINE bounds == {u \in Nat : \A n \in S : n <= u}
<1>1. bounds \in SUBSET Nat /\ bounds # {}
  OBVIOUS
<1>2. PICK u \in bounds : \A v \in bounds : u <= v
  BY <1>1, LeastNatural
<1>3. u \in Nat /\ \A n \in S : n <= u
  BY <1>2
<1>4. ASSUME u \notin S PROVE FALSE
  <2>1. \A n \in S : n < u /\ n <= u - 1
    BY <1>3, <1>4
  <2>2. u - 1 \in Nat
    <3>1. PICK n \in S : TRUE
      OBVIOUS
    <3>2. n \in Nat /\ n < u
      BY <2>1, <3>1
    <3> QED BY <1>3, <3>2
  <2>3. u - 1 \in bounds
    BY <2>1, <2>2
  <2> QED BY <1>2, <1>3, <2>3
<1> QED BY <1>3, <1>4

LEMMA TurnsType ==
    ASSUME NEW f \in FileSet
    PROVE  /\ Turns(f) \in Seq(TurnRecords) /\ Marks(f) \in Seq(Markers)
           /\ f.turns \in Seq(TurnRecords)
           /\ Len(f.turns) <= Len(Turns(f))
           /\ \A i \in DOMAIN f.turns : i \in DOMAIN Turns(f) /\ Turns(f)[i] = f.turns[i]
<1>1. /\ f.tail \in Tails
      /\ f.turns \in Seq(TurnRecords) /\ f.marks \in Seq(Markers)
  BY DEF FileSet
<1>2. IsTurn(f.tail) => f.tail \in TurnRecords
  BY <1>1 DEF IsTurn, Tails, TornTails, TurnRecords, Markers, NoRecord
<1>3. IsMark(f.tail) => f.tail \in Markers
  BY <1>1 DEF IsMark, Tails, TornTails, TurnRecords, Markers, NoRecord
<1> QED BY <1>1, <1>2, <1>3 DEF Turns, Marks

LEMMA NextSequenceType ==
    ASSUME NEW f \in FileSet
    PROVE  NextSequence(f) \in Nat
<1> DEFINE t == Turns(f)
           m == Marks(f)
           seqs == {t[i].seq : i \in DOMAIN t} \cup {m[i].seq : i \in DOMAIN m}
           tg == [i \in 1 .. Len(t) |-> t[i].seq]
           mg == [i \in 1 .. Len(m) |-> m[i].seq]
<1>1. t \in Seq(TurnRecords) /\ m \in Seq(Markers)
  BY TurnsType
<1> HIDE DEF t, m
<1>2. /\ DOMAIN t = 1 .. Len(t) /\ Len(t) \in Nat
      /\ DOMAIN m = 1 .. Len(m) /\ Len(m) \in Nat
      /\ \A i \in DOMAIN t : t[i] \in TurnRecords
      /\ \A i \in DOMAIN m : m[i] \in Markers
  BY <1>1
<1>3. tg \in [1 .. Len(t) -> Nat] /\ mg \in [1 .. Len(m) -> Nat]
  BY <1>2, RecordType
<1>4. PICK b \in Nat : \A i \in 1 .. Len(t) : tg[i] <= b
  BY <1>2, <1>3, FunctionIsBounded
<1>5. PICK c \in Nat : \A i \in 1 .. Len(m) : mg[i] <= c
  BY <1>2, <1>3, FunctionIsBounded
<1>6. seqs \in SUBSET Nat
  BY <1>2, RecordType
<1>7. \A n \in seqs : n <= b + c
  <2>1. ASSUME NEW i \in DOMAIN t PROVE t[i].seq <= b + c
    BY <1>2, <1>3, <1>4, RecordType
  <2>2. ASSUME NEW i \in DOMAIN m PROVE m[i].seq <= b + c
    BY <1>2, <1>3, <1>5, RecordType
  <2> QED BY <2>1, <2>2
<1> HIDE DEF seqs
<1>8. CASE seqs # {}
  <2>1. b + c \in Nat
    OBVIOUS
  <2>2. \E n \in seqs : \A k \in seqs : k <= n
    BY <1>6, <1>7, <1>8, <2>1, LargestNatural
  <2>3. (CHOOSE n \in seqs : \A k \in seqs : k <= n) \in Nat
    BY <1>6, <2>2
  <2> QED BY <1>8, <2>3 DEF NextSequence, seqs, t, m
<1>9. CASE seqs = {}
  BY <1>9 DEF NextSequence, seqs, t, m
<1> QED BY <1>8, <1>9

(***************************************************************************)
(* What appending and compacting do to the turns of a file.                *)
(***************************************************************************)
LEMMA PutTurns ==
    ASSUME NEW f \in FileSet, NEW r \in TurnRecords \cup Markers, NEW e \in Extents
    PROVE  /\ \/ Put(f, r, e).turns = f.turns
              \/ IsTurn(r) /\ f.tail = NoRecord /\ Put(f, r, e).turns = Append(f.turns, r)
           /\ \/ Turns(Put(f, r, e)) = Turns(f)
              \/ Turns(Put(f, r, e)) = f.turns
              \/ IsTurn(r) /\ f.tail = NoRecord /\ Turns(Put(f, r, e)) = Append(f.turns, r)
<1>1. \A n : ~ IsTurn(Torn(n)) /\ ~ IsTurn(NoRecord)
  BY DEF IsTurn, Torn, NoRecord
<1>2. CASE e = "none"
  BY <1>2 DEF Put, Turns
<1>3. CASE e = "piece"
  BY <1>1, <1>3 DEF Put, Turns
<1>4. CASE e = "body"
  <2>1. CASE f.tail = NoRecord
    BY <1>4, <2>1 DEF Put, Turns
  <2>2. CASE f.tail # NoRecord
    BY <1>1, <1>4, <2>2 DEF Put, Turns
  <2> QED BY <2>1, <2>2
<1>5. CASE e = "line"
  BY <1>1, <1>5 DEF Put, Turns
<1> QED BY <1>2, <1>3, <1>4, <1>5 DEF Extents

LEMMA NewestIsSuffix ==
    ASSUME NEW S, NEW s \in Seq(S), NEW n \in Nat \ {0}
    PROVE  /\ Newest(s, n) \in Seq(S)
           /\ Len(Newest(s, n)) = IF Len(s) > n THEN n ELSE Len(s)
           /\ \A i \in 1 .. Len(Newest(s, n)) :
                 Newest(s, n)[i] = s[Len(s) - Len(Newest(s, n)) + i]
<1> DEFINE first == IF Len(s) > n THEN Len(s) - n + 1 ELSE 1
<1>1. Len(s) \in Nat /\ first \in Nat /\ first >= 1 /\ first <= Len(s) + 1
  OBVIOUS
<1>2. Newest(s, n) = SubSeq(s, first, Len(s))
  BY DEF Newest
<1>3. Len(s) - first + 1 = IF Len(s) > n THEN n ELSE Len(s)
  BY <1>1
<1> HIDE DEF first
<1>4. /\ SubSeq(s, first, Len(s)) \in Seq(S)
      /\ Len(SubSeq(s, first, Len(s))) = Len(s) - first + 1
  BY <1>1, SubSeqProperties
<1>5. \A i \in 1 .. Len(s) - first + 1 :
         SubSeq(s, first, Len(s))[i] = s[first + i - 1]
  BY <1>1, SubSeqProperties
<1> QED BY <1>1, <1>2, <1>3, <1>4, <1>5

LEMMA LastStartedType ==
    ASSUME NEW s \in Seq(Markers)
    PROVE  LastStarted(s) \in Seq(Markers) /\ Len(LastStarted(s)) \in Nat
<1> DEFINE at == {i \in DOMAIN s : s[i].kind = "started"}
<1>1. CASE at = {}
  BY <1>1 DEF LastStarted
<1>2. CASE at # {}
  <2> DEFINE i == CHOOSE i \in at : \A j \in at : j <= i
             r == [s[i] EXCEPT !.seq = 1]
  <2>1. at \in SUBSET Nat /\ (\A j \in at : j <= Len(s)) /\ Len(s) \in Nat
    OBVIOUS
  <2>2. \E k \in at : \A j \in at : j <= k
    BY <1>2, <2>1, LargestNatural
  <2>3. i \in at
    BY <2>2
  <2> HIDE DEF i
  <2>4. s[i] \in Markers
    BY <2>3
  <2>5. r \in Markers
    BY <2>4 DEF Markers
  <2>6. LastStarted(s) = <<r>>
    BY <1>2 DEF LastStarted, i
  <2> QED BY <2>5, <2>6
<1> QED BY <1>1, <1>2

(* Compaction keeps the last MaxStoredTurns turns, each with its identity.   *)
LEMMA CompactedTurns ==
    ASSUME NEW f \in FileSet, Compacted(f).bytes \in Nat
    PROVE  /\ Compacted(f) \in FileSet
           /\ Turns(Compacted(f)) = Compacted(f).turns
           /\ ~ Compacted(f).garbage /\ Compacted(f).tail = NoRecord
           /\ KeptCount(Compacted(f)) \in Nat
           /\ Len(Compacted(f).turns) = IF Len(Turns(f)) > MaxStoredTurns
                                        THEN MaxStoredTurns ELSE Len(Turns(f))
           /\ \A i \in 1 .. Len(Compacted(f).turns) :
                 Compacted(f).turns[i].turn
                   = Turns(f)[Len(Turns(f)) - Len(Compacted(f).turns) + i].turn
<1> DEFINE head == LastStarted(Marks(f))
           last == Newest(Turns(f), MaxStoredTurns)
           line(i) == [last[i] EXCEPT !.seq = Len(head) + i]
           kept == [i \in 1 .. Len(last) |-> line(i)]
<1>1. /\ Turns(f) \in Seq(TurnRecords) /\ Marks(f) \in Seq(Markers)
      /\ MaxStoredTurns \in Nat \ {0}
  BY TurnsType, LimitsAssumption
<1>2. head \in Seq(Markers) /\ Len(head) \in Nat
  BY <1>1, LastStartedType
<1>3. /\ last \in Seq(TurnRecords) /\ Len(last) \in Nat
      /\ Len(last) = IF Len(Turns(f)) > MaxStoredTurns THEN MaxStoredTurns ELSE Len(Turns(f))
      /\ \A i \in 1 .. Len(last) : last[i] = Turns(f)[Len(Turns(f)) - Len(last) + i]
  BY <1>1, NewestIsSuffix
<1>4. /\ Compacted(f).turns = kept /\ Compacted(f).marks = head
      /\ Compacted(f).tail = NoRecord /\ Compacted(f).garbage = FALSE
      /\ Compacted(f) = [turns |-> kept, marks |-> head, tail |-> NoRecord,
                         garbage |-> FALSE, bytes |-> Compacted(f).bytes]
  BY DEF Compacted
<1> HIDE DEF head, last
<1>5. ASSUME NEW i \in 1 .. Len(last)
      PROVE  line(i) \in TurnRecords /\ line(i).turn = last[i].turn
  <2>1. last[i] \in TurnRecords /\ Len(head) + i \in Nat
    BY <1>2, <1>3
  <2> QED BY <2>1 DEF TurnRecords
<1> HIDE DEF line
<1>6. kept \in Seq(TurnRecords) /\ Len(kept) = Len(last)
  <2>1. kept \in [1 .. Len(last) -> TurnRecords] /\ Len(last) \in Nat
    BY <1>3, <1>5
  <2>2. kept \in Seq(TurnRecords)
    BY <2>1, SeqDef
  <2> QED BY <2>1, <2>2, LenProperties
<1>7. \A i \in 1 .. Len(kept) : kept[i].turn = last[i].turn
  BY <1>5, <1>6
<1> HIDE DEF kept
<1>8. Compacted(f) \in FileSet
  <2>1. NoRecord \in Tails
    BY DEF Tails
  <2> QED BY <1>2, <1>4, <1>6, <2>1 DEF FileSet
<1>9. Turns(Compacted(f)) = Compacted(f).turns
  BY <1>4 DEF Turns, IsTurn, NoRecord
<1>10. KeptCount(Compacted(f)) \in Nat
  BY <1>2, <1>3, <1>4, <1>6 DEF KeptCount
<1> QED BY <1>3, <1>4, <1>6, <1>7, <1>8, <1>9, <1>10

(***************************************************************************)
(* Type correctness.                                                       *)
(***************************************************************************)
LEMMA PutNothing ==
    ASSUME NEW f \in FileSet, NEW r
    PROVE  Put(f, r, "none") = f
BY DEF Put, Written, FileSet

LEMMA InitIndInv == Init => IndInv
<1> SUFFICES ASSUME Init PROVE IndInv
  OBVIOUS
<1>1. TypeOK
  <2>1. NoRecord \in Tails /\ <<>> \in Seq(TurnRecords) /\ <<>> \in Seq(Markers)
    BY DEF Tails
  <2>2. file \in FileSet
    BY <2>1 DEF Init, Empty, FileSet
  <2>3. next \in Nat /\ turnNo \in 0 .. MaxTurns /\ acked \subseteq 1 .. turnNo
    BY LimitsAssumption DEF Init
  <2>4. started \in BOOLEAN /\ rec \in {NoRecord} \cup TurnRecords \cup Markers
    BY DEF Init
  <2> QED BY <2>2, <2>3, <2>4 DEF Init, TypeOK, FileSet
<1>2. Turns(file) = <<>> /\ file.turns = <<>> /\ acked = {}
  BY DEF Init, Empty, Turns, IsTurn, NoRecord
<1>3. AppendInProgress
  BY DEF Init, AppendInProgress, NoRecord
<1> QED BY <1>1, <1>2, <1>3 DEF IndInv, KeepsNewestTurns, TurnsInOrder, TurnsWereTaken,
                             AckedTurnsAreCovered

LEMMA RecInProgress ==
    ASSUME TypeOK, AppendInProgress, pc # "idle"
    PROVE  rec \in TurnRecords \cup Markers
BY DEF TypeOK, AppendInProgress

LEMMA TypeStep == TypeOK /\ AppendInProgress /\ [Next]_vars => TypeOK'
<1> SUFFICES ASSUME TypeOK, AppendInProgress, [Next]_vars PROVE TypeOK'
  OBVIOUS
<1> USE LimitsAssumption
<1>1. file \in FileSet /\ NoRecord \in {NoRecord} \cup TurnRecords \cup Markers
  BY DEF TypeOK, FileSet
<1>2. CASE Start
  BY <1>1, <1>2, NextSequenceType DEF Start, TypeOK
<1>3. CASE Resume
  BY <1>1, <1>3, NextSequenceType DEF Resume, TypeOK
<1>4. CASE Reopen
  BY <1>1, <1>4, NextSequenceType DEF Reopen, TypeOK
<1>5. CASE AppendStarted
  <2>1. rec' \in Markers
    BY <1>5 DEF AppendStarted, Encode, TypeOK, Markers
  <2> QED BY <1>5, <2>1 DEF AppendStarted, Encode, TypeOK
<1>6. ASSUME NEW size \in TurnSizes, AppendTurn(size) PROVE TypeOK'
  <2>1. rec' \in TurnRecords
    BY <1>6 DEF AppendTurn, Encode, TypeOK, TurnRecords
  <2> QED BY <1>6, <2>1 DEF AppendTurn, Encode, TypeOK
<1>7. CASE RefuseTurn
  BY <1>7 DEF RefuseTurn, AfterError, TypeOK
<1>8. CASE AppendFinished
  <2>1. rec' \in Markers
    BY <1>8 DEF AppendFinished, Encode, TypeOK, Markers
  <2> QED BY <1>8, <2>1 DEF AppendFinished, Encode, TypeOK
<1>9. CASE Compact
  <2>1. Compacted(file).bytes \in Nat
    BY <1>9 DEF Compact
  <2>2. Compacted(file) \in FileSet /\ KeptCount(Compacted(file)) \in Nat
    BY <1>1, <2>1, CompactedTurns
  <2> QED BY <1>9, <2>2 DEF Compact, TypeOK, FileSet
<1>10. CASE CompactFails
  BY <1>10 DEF CompactFails, FailAppend, AfterError, TypeOK
<1>11. CASE WriteLine
  <2>1. file' \in FileSet
    BY <1>1, <1>11, RecInProgress, PutType DEF WriteLine, Extents
  <2> QED BY <1>11, <2>1 DEF WriteLine, TypeOK, FileSet
<1>12. ASSUME NEW extent \in Extents, WriteFails(extent) PROVE TypeOK'
  <2>1. file' \in FileSet
    BY <1>1, <1>12, RecInProgress, PutType DEF WriteFails
  <2> QED BY <1>12, <2>1 DEF WriteFails, FailAppend, AfterError, TypeOK, FileSet
<1>13. CASE Verify
  <2>1. rec.kind = "turn" => rec.turn \in 1 .. turnNo
    <3>1. rec \in TurnRecords \cup Markers
      BY <1>13, RecInProgress DEF Verify
    <3>2. rec.kind = "turn" => rec.turn = turnNo /\ rec.turn \in 1 .. MaxTurns
      BY <3>1 DEF AppendInProgress, TurnRecords, Markers
    <3> QED BY <3>2 DEF TypeOK
  <2> QED BY <1>13, <2>1 DEF Verify, TypeOK
<1>14. CASE VerifyFails
  BY <1>14 DEF VerifyFails, FailAppend, AfterError, TypeOK
<1>15. ASSUME NEW extent \in Extents, Crash(extent) PROVE TypeOK'
  <2>1. file' \in FileSet
    <3>1. CASE pc = "write"
      BY <1>1, <1>15, <3>1, RecInProgress, PutType DEF Crash
    <3>2. CASE pc # "write"
      BY <1>1, <1>15, <3>2, PutNothing DEF Crash
    <3> QED BY <3>1, <3>2
  <2> QED BY <1>15, <2>1 DEF Crash, TypeOK, FileSet
<1>16. CASE UNCHANGED vars
  BY <1>16 DEF vars, TypeOK
<1> QED BY <1>2, <1>3, <1>4, <1>5, <1>6, <1>7, <1>8, <1>9, <1>10, <1>11, <1>12, <1>13,
           <1>14, <1>15, <1>16 DEF Next

(***************************************************************************)
(* The inductive invariant.                                                *)
(***************************************************************************)
(* Sequences of turn records with identities that grow with their position  *)
(* stay so when they get shorter or when a newer turn is appended.          *)
Ordered(s) == \A i, j \in DOMAIN s : i <= j => s[j].turn - s[i].turn >= j - i

LEMMA TurnIdentities ==
    ASSUME NEW s \in Seq(TurnRecords)
    PROVE  /\ Len(s) \in Nat /\ DOMAIN s = 1 .. Len(s)
           /\ \A i \in DOMAIN s : s[i] \in TurnRecords /\ s[i].turn \in Nat
BY RecordType

LEMMA OrderedAppend ==
    ASSUME NEW s \in Seq(TurnRecords), NEW r \in TurnRecords, Ordered(s),
           \A i \in DOMAIN s : s[i].turn < r.turn
    PROVE  Ordered(Append(s, r))
<1> DEFINE t == Append(s, r)
           n == Len(s)
<1>1. /\ n \in Nat /\ DOMAIN s = 1 .. n /\ \A i \in 1 .. n : s[i].turn \in Nat
      /\ r.turn \in Nat
  BY TurnIdentities, RecordType
<1>2. DOMAIN t = 1 .. n + 1 /\ t[n + 1] = r /\ \A i \in 1 .. n : t[i] = s[i]
  OBVIOUS
<1> HIDE DEF t, n
<1>3. ASSUME NEW i \in 1 .. n PROVE r.turn - s[i].turn >= n + 1 - i
  <2>1. n \in 1 .. n /\ i <= n
    BY <1>1
  <2>2. s[n].turn - s[i].turn >= n - i
    BY <1>1, <2>1 DEF Ordered
  <2>3. s[n].turn < r.turn /\ s[n].turn \in Nat
    BY <1>1, <2>1
  <2> QED BY <1>1, <2>2, <2>3
<1>4. ASSUME NEW i \in DOMAIN t, NEW j \in DOMAIN t, i <= j
      PROVE  t[j].turn - t[i].turn >= j - i
  <2>1. CASE j \in 1 .. n
    <3>1. i \in 1 .. n
      BY <1>1, <1>2, <1>4, <2>1
    <3>2. s[j].turn - s[i].turn >= j - i
      BY <1>1, <1>4, <2>1, <3>1 DEF Ordered
    <3> QED BY <1>2, <2>1, <3>1, <3>2
  <2>2. CASE j = n + 1 /\ i \in 1 .. n
    <3>1. t[j] = r /\ t[i] = s[i]
      BY <1>2, <2>2
    <3>2. r.turn - s[i].turn >= n + 1 - i
      BY <1>3, <2>2
    <3> QED BY <1>1, <2>2, <3>1, <3>2
  <2>3. CASE j = n + 1 /\ i = n + 1
    BY <1>1, <1>2, <2>3
  <2> QED BY <1>1, <1>2, <1>4, <2>1, <2>2, <2>3
<1> QED BY <1>4 DEF Ordered, t

LEMMA OrderedPrefix ==
    ASSUME NEW f \in FileSet, Ordered(Turns(f))
    PROVE  Ordered(f.turns)
BY TurnsType, TurnIdentities DEF Ordered

(* Some bytes of the record in progress, or none, go into the file.          *)
LEMMA PutStep ==
    ASSUME IndInv, NEW extent \in Extents, extent # "none" => pc = "write",
           file' = Put(file, rec, extent), turnNo' = turnNo, acked' = acked
    PROVE  /\ KeepsNewestTurns' /\ TurnsInOrder' /\ AckedTurnsAreCovered'
           /\ \A i \in DOMAIN Turns(file') : Turns(file')[i].turn <= turnNo
<1>1. file \in FileSet
  BY DEF IndInv, TypeOK, FileSet
<1>2. CASE pc # "write"
  <2>1. file' = file
    BY <1>1, <1>2, PutNothing
  <2> QED BY <2>1 DEF IndInv, KeepsNewestTurns, TurnsInOrder, AckedTurnsAreCovered, TurnsWereTaken
<1>3. CASE pc = "write"
  <2>1. rec \in TurnRecords \cup Markers
    BY <1>3, RecInProgress DEF IndInv
  <2>2. /\ \A i \in DOMAIN Turns(file) : Turns(file)[i].turn <= turnNo
        /\ IsTurn(rec) => /\ \A i \in DOMAIN Turns(file) : Turns(file)[i].turn < rec.turn
                          /\ rec.turn = turnNo /\ rec \in TurnRecords
    BY <1>3, <2>1 DEF IndInv, TurnsWereTaken, AppendInProgress, IsTurn, TurnRecords, Markers
  <2>3. /\ file.turns \in Seq(TurnRecords) /\ Turns(file) \in Seq(TurnRecords)
        /\ \A i \in DOMAIN file.turns : i \in DOMAIN Turns(file) /\ Turns(file)[i] = file.turns[i]
    BY <1>1, TurnsType
  <2>4. Ordered(Turns(file)) /\ Ordered(file.turns)
    BY <1>1, OrderedPrefix DEF IndInv, TurnsInOrder, Ordered
  <2>5. turnNo \in Nat /\ acked \subseteq 1 .. turnNo
    BY LimitsAssumption DEF IndInv, TypeOK
  <2>6. IsTurn(rec) => Ordered(Append(file.turns, rec))
    BY <2>2, <2>3, <2>4, OrderedAppend
  <2>7. TurnsInOrder'
    <3>1. Ordered(Turns(file'))
      BY <1>1, <2>1, <2>4, <2>6, PutTurns
    <3> QED BY <3>1 DEF TurnsInOrder, Ordered
  <2>8. \A i \in DOMAIN Turns(file') : Turns(file')[i].turn <= turnNo
    <3>1. CASE Turns(file') \in {Turns(file), file.turns}
      BY <2>2, <2>3, <3>1
    <3>2. CASE IsTurn(rec) /\ Turns(file') = Append(file.turns, rec)
      BY <2>2, <2>3, <2>5, <3>2
    <3> QED BY <1>1, <2>1, <3>1, <3>2, PutTurns
  <2>9. KeepsNewestTurns'
    <3>1. \A i \in DOMAIN file.turns : i \in DOMAIN file'.turns /\ file'.turns[i] = file.turns[i]
      <4>1. CASE file'.turns = file.turns
        BY <4>1
      <4>2. CASE IsTurn(rec) /\ file'.turns = Append(file.turns, rec)
        BY <2>2, <2>3, <4>2
      <4> QED BY <1>1, <2>1, <4>1, <4>2, PutTurns
    <3> QED BY <3>1 DEF IndInv, KeepsNewestTurns
  <2>10. AckedTurnsAreCovered'
    <3>1. CASE file'.turns = file.turns
      BY <3>1 DEF IndInv, AckedTurnsAreCovered
    <3>2. CASE IsTurn(rec) /\ file'.turns = Append(file.turns, rec)
      <4>1. file'.turns # <<>> /\ file'.turns[Len(file'.turns)] = rec
        BY <2>3, <3>2
      <4>2. \A t \in acked : t <= rec.turn
        BY <2>2, <2>5, <3>2
      <4> QED BY <4>1, <4>2 DEF AckedTurnsAreCovered
    <3> QED BY <1>1, <2>1, <3>1, <3>2, PutTurns
  <2> QED BY <2>7, <2>8, <2>9, <2>10
<1> QED BY <1>2, <1>3

LEMMA CompactStep ==
    ASSUME IndInv, Compact
    PROVE  KeepsNewestTurns' /\ TurnsInOrder' /\ TurnsWereTaken' /\ AckedTurnsAreCovered'
<1> DEFINE T == Turns(file)
           L == Len(Turns(file))
           new == Compacted(file).turns
           n == Len(Compacted(file).turns)
<1>1. file \in FileSet /\ Compacted(file).bytes \in Nat /\ file' = Compacted(file)
  BY DEF IndInv, TypeOK, FileSet, Compact
<1>2. /\ Turns(file') = new /\ file'.turns = new /\ new \in Seq(TurnRecords)
      /\ n = IF L > MaxStoredTurns THEN MaxStoredTurns ELSE L
      /\ \A i \in 1 .. n : new[i].turn = T[L - n + i].turn
  BY <1>1, CompactedTurns, TurnsType
<1>3. /\ T \in Seq(TurnRecords) /\ L \in Nat /\ DOMAIN T = 1 .. L
      /\ \A i \in 1 .. L : T[i].turn \in Nat
      /\ \A i \in DOMAIN file.turns : i \in DOMAIN T /\ T[i] = file.turns[i]
      /\ n \in Nat /\ n <= L /\ DOMAIN new = 1 .. n
      /\ \A i \in 1 .. n : new[i].turn \in Nat /\ L - n + i \in 1 .. L
      /\ MaxStoredTurns \in Nat \ {0}
  BY <1>1, <1>2, TurnsType, TurnIdentities, LimitsAssumption
<1>4. /\ \A i, j \in DOMAIN T : i <= j => T[j].turn - T[i].turn >= j - i
      /\ \A i \in DOMAIN T : T[i].turn <= turnNo
      /\ rec.kind = "turn" => \A i \in DOMAIN T : T[i].turn < turnNo
      /\ turnNo \in Nat /\ acked \subseteq 1 .. turnNo
      /\ turnNo' = turnNo /\ acked' = acked /\ rec' = rec /\ pc' = "write"
  BY LimitsAssumption DEF IndInv, TurnsInOrder, TurnsWereTaken, Compact, TypeOK
<1> HIDE DEF T, L, new, n
<1>5. KeepsNewestTurns'
  <2> SUFFICES ASSUME NEW t \in acked, turnNo - t < MaxStoredTurns
               PROVE  \E i \in DOMAIN new : new[i].turn = t
    BY <1>2, <1>4 DEF KeepsNewestTurns
  <2>1. PICK i \in DOMAIN file.turns : file.turns[i].turn = t
    BY DEF IndInv, KeepsNewestTurns
  <2>2. i \in 1 .. L /\ T[i].turn = t /\ L \in 1 .. L
    BY <1>3, <2>1
  <2>3. T[L].turn - t >= L - i /\ T[L].turn <= turnNo /\ T[L].turn \in Nat /\ t \in Nat
    BY <1>3, <1>4, <2>2
  <2>4. L - i < MaxStoredTurns
    BY <1>3, <1>4, <2>2, <2>3
  <2>5. i - (L - n) \in 1 .. n
    BY <1>2, <1>3, <2>2, <2>4
  <2>6. L - n + (i - (L - n)) = i
    BY <1>3, <2>2
  <2> QED BY <1>2, <1>3, <2>2, <2>5, <2>6
<1>6. TurnsInOrder'
  <2> SUFFICES ASSUME NEW i \in 1 .. n, NEW j \in 1 .. n, i <= j
               PROVE  new[j].turn - new[i].turn >= j - i
    BY <1>2, <1>3 DEF TurnsInOrder
  <2> DEFINE a == L - n + i
             b == L - n + j
  <2>1. a \in 1 .. L /\ b \in 1 .. L /\ a <= b /\ b - a = j - i
    BY <1>3
  <2>2. new[i].turn = T[a].turn /\ new[j].turn = T[b].turn
    BY <1>2
  <2> HIDE DEF a, b
  <2> QED BY <1>3, <1>4, <2>1, <2>2
<1>7. TurnsWereTaken'
  <2>1. \A i \in 1 .. n : new[i].turn <= turnNo /\ (rec.kind = "turn" => new[i].turn < turnNo)
    BY <1>2, <1>3, <1>4
  <2> QED BY <1>2, <1>3, <1>4, <2>1 DEF TurnsWereTaken
<1>8. AckedTurnsAreCovered'
  <2> SUFFICES ASSUME NEW t \in acked PROVE new # <<>> /\ t <= new[n].turn
    BY <1>2, <1>4 DEF AckedTurnsAreCovered, n, new
  <2> DEFINE k == Len(file.turns)
  <2>1. file.turns # <<>> /\ t <= file.turns[k].turn /\ t \in Nat
    BY <1>4 DEF IndInv, AckedTurnsAreCovered
  <2>2. k \in DOMAIN file.turns
    <3>1. file.turns \in Seq(TurnRecords)
      BY <1>1, TurnsType
    <3> QED BY <2>1, <3>1
  <2>3. k \in 1 .. L /\ L \in 1 .. L /\ t <= T[k].turn
    BY <1>3, <2>1, <2>2
  <2>4. T[k].turn <= T[L].turn
    <3>1. k \in DOMAIN T /\ L \in DOMAIN T /\ k <= L /\ k \in Nat
      BY <1>3, <2>3
    <3>3. T[L].turn - T[k].turn >= L - k
      BY <1>4, <3>1
    <3>2. T[L].turn \in Nat /\ T[k].turn \in Nat
      BY <1>3, <2>3
    <3> HIDE DEF k
    <3> QED BY <1>3, <3>1, <3>2, <3>3
  <2>5. n \in 1 .. n /\ new[n].turn = T[L].turn
    <3>1. n \in 1 .. n /\ L - n + n = L
      BY <1>2, <1>3, <2>3
    <3> QED BY <1>2, <3>1
  <2>6. new # <<>>
    BY <1>3, <2>5
  <2>7. T[k].turn \in Nat /\ T[L].turn \in Nat /\ t \in Nat
    BY <1>3, <2>1, <2>3
  <2> QED BY <2>3, <2>4, <2>5, <2>6, <2>7
<1> QED BY <1>5, <1>6, <1>7, <1>8

(* The steps that leave the file alone and take no turn.                     *)
LEMMA SameFileStep ==
    ASSUME IndInv, file' = file, turnNo' = turnNo, acked' = acked,
           pc' \notin {"compact", "write"} \/ rec'.kind # "turn"
                  \/ (rec' = rec /\ pc \in {"compact", "write"})
    PROVE  KeepsNewestTurns' /\ TurnsInOrder' /\ TurnsWereTaken' /\ AckedTurnsAreCovered'
BY DEF IndInv, KeepsNewestTurns, TurnsInOrder, TurnsWereTaken, AckedTurnsAreCovered

LEMMA MarkerIsNoTurn ==
    NoRecord.kind # "turn" /\ NoRecord.kind # "started" /\ NoRecord.kind # "finished"
BY DEF NoRecord

(* A turn is taken: nothing in the file is as new as it.                     *)
LEMMA TakeTurnStep ==
    ASSUME IndInv, file' = file, turnNo' = turnNo + 1, acked' = acked
    PROVE  KeepsNewestTurns' /\ TurnsInOrder' /\ TurnsWereTaken' /\ AckedTurnsAreCovered'
<1>1. turnNo \in Nat /\ acked \subseteq 1 .. turnNo /\ MaxStoredTurns \in Nat
  BY LimitsAssumption DEF IndInv, TypeOK
<1>2. KeepsNewestTurns'
  <2>1. \A t \in acked : turnNo' - t < MaxStoredTurns => turnNo - t < MaxStoredTurns
    BY <1>1
  <2> QED BY <2>1 DEF IndInv, KeepsNewestTurns
<1>3. TurnsWereTaken'
  <2>1. file \in FileSet
    BY DEF IndInv, TypeOK, FileSet
  <2>2. \A i \in DOMAIN Turns(file) : Turns(file)[i].turn \in Nat
    BY <2>1, TurnsType, TurnIdentities
  <2>3. \A i \in DOMAIN Turns(file) : Turns(file)[i].turn <= turnNo
    BY DEF IndInv, TurnsWereTaken
  <2>4. \A i \in DOMAIN Turns(file) :
           Turns(file)[i].turn < turnNo + 1 /\ Turns(file)[i].turn <= turnNo + 1
    BY <1>1, <2>2, <2>3
  <2> QED BY <2>4 DEF TurnsWereTaken
<1>4. TurnsInOrder' /\ AckedTurnsAreCovered'
  BY DEF IndInv, TurnsInOrder, AckedTurnsAreCovered
<1> QED BY <1>2, <1>3, <1>4

LEMMA VerifyStep ==
    ASSUME IndInv, Verify
    PROVE  KeepsNewestTurns' /\ AckedTurnsAreCovered'
<1>1. /\ file' = file /\ turnNo' = turnNo /\ ~ file.garbage /\ pc = "verify"
      /\ acked' = IF rec.kind = "turn" THEN acked \cup {rec.turn} ELSE acked
  BY DEF Verify, Readable
<1>2. rec.kind = "turn" => /\ rec.turn = turnNo /\ file.turns # <<>>
                           /\ file.turns[Len(file.turns)].turn = turnNo
  BY <1>1 DEF IndInv, AppendInProgress
<1>3. turnNo \in Nat /\ acked \subseteq 1 .. turnNo
  BY LimitsAssumption DEF IndInv, TypeOK
<1>4. file.turns # <<>> => Len(file.turns) \in DOMAIN file.turns
  <2>1. file.turns \in Seq(TurnRecords)
    BY DEF IndInv, TypeOK
  <2> QED BY <2>1
<1>5. KeepsNewestTurns'
  BY <1>1, <1>2, <1>4 DEF IndInv, KeepsNewestTurns
<1>6. AckedTurnsAreCovered'
  BY <1>1, <1>2, <1>3 DEF IndInv, AckedTurnsAreCovered
<1> QED BY <1>5, <1>6

(* The record being written is at the end of the file, or the file holds a   *)
(* line that is not a record.                                                *)
LEMMA WriteLineLeavesTurn ==
    ASSUME IndInv, WriteLine
    PROVE  AppendInProgress'
<1>1. file \in FileSet /\ file.turns \in Seq(TurnRecords)
  BY DEF IndInv, TypeOK, FileSet
<1>2. /\ pc = "write" /\ pc' = "verify" /\ rec' = rec /\ turnNo' = turnNo /\ acked' = acked
      /\ proc' = proc /\ file' = Put(file, rec, "line")
  BY DEF WriteLine
<1>3. /\ rec # NoRecord /\ proc # "down"
      /\ rec.kind = "turn" => rec.turn = turnNo /\ turnNo \notin acked
  BY <1>2 DEF IndInv, AppendInProgress
<1>4. ASSUME rec.kind = "turn", ~ file'.garbage
      PROVE  /\ file'.tail = NoRecord /\ file'.turns # <<>>
             /\ file'.turns[Len(file'.turns)].turn = turnNo
  <2>1. file.tail = NoRecord /\ file'.tail = NoRecord
    BY <1>2, <1>4 DEF Put
  <2>2. file'.turns = Append(file.turns, rec)
    BY <1>2, <1>4, <2>1 DEF Put, IsTurn
  <2>3. file'.turns # <<>> /\ file'.turns[Len(file'.turns)] = rec
    BY <1>1, <2>2
  <2> QED BY <1>3, <1>4, <2>1, <2>3
<1> QED BY <1>2, <1>3, <1>4 DEF AppendInProgress

LEMMA EncodeStep ==
    ASSUME IndInv, NEW kind \in {"started", "turn", "finished"}, NEW turn, NEW size,
           Encode(kind, turn, size), proc' # "down",
           kind = "turn" => turn = turnNo' /\ turn \notin acked
    PROVE  AppendInProgress'
<1>1. /\ pc' \in {"compact", "write"} /\ rec'.kind = kind /\ rec'.turn = turn
      /\ acked' = acked
  BY DEF Encode
<1>2. rec' # NoRecord
  BY <1>1 DEF NoRecord
<1> QED BY <1>1, <1>2 DEF AppendInProgress

LEMMA IndInvStep == IndInv /\ [Next]_vars => IndInv'
<1> SUFFICES ASSUME IndInv, [Next]_vars PROVE IndInv'
  OBVIOUS
<1> DEFINE Inv == /\ KeepsNewestTurns' /\ TurnsInOrder' /\ TurnsWereTaken'
                  /\ AckedTurnsAreCovered' /\ AppendInProgress'
<1>1. TypeOK'
  BY TypeStep DEF IndInv
<1>2. acked \subseteq 1 .. turnNo /\ turnNo \in Nat /\ AppendInProgress
  BY LimitsAssumption DEF IndInv, TypeOK
<1> SUFFICES Inv
  BY <1>1 DEF IndInv
<1>3. CASE Start
  BY <1>2, <1>3, SameFileStep DEF Start, AppendInProgress
<1>4. CASE Resume
  BY <1>2, <1>4, SameFileStep DEF Resume, AppendInProgress
<1>5. CASE Reopen
  BY <1>2, <1>5, SameFileStep DEF Reopen, AppendInProgress
<1>6. CASE AppendStarted
  <2>1. AppendInProgress'
    BY <1>6, EncodeStep DEF AppendStarted
  <2>2. rec'.kind # "turn"
    BY <1>6 DEF AppendStarted, Encode
  <2> QED BY <1>6, <2>1, <2>2, SameFileStep DEF AppendStarted, Encode
<1>7. ASSUME NEW size \in TurnSizes, AppendTurn(size) PROVE Inv
  <2>1. turnNo + 1 \notin acked
    BY <1>2
  <2>2. AppendInProgress'
    BY <1>7, <2>1, EncodeStep DEF AppendTurn
  <2> QED BY <1>7, <2>2, TakeTurnStep DEF AppendTurn, Encode
<1>8. CASE RefuseTurn
  <2>1. AppendInProgress'
    BY <1>2, <1>8, MarkerIsNoTurn DEF RefuseTurn, AfterError, AppendInProgress
  <2> QED BY <1>8, <2>1, TakeTurnStep DEF RefuseTurn
<1>9. CASE AppendFinished
  <2>1. AppendInProgress'
    BY <1>9, EncodeStep DEF AppendFinished
  <2>2. rec'.kind # "turn"
    BY <1>9 DEF AppendFinished, Encode
  <2> QED BY <1>9, <2>1, <2>2, SameFileStep DEF AppendFinished, Encode
<1>10. CASE Compact
  <2>1. AppendInProgress'
    BY <1>2, <1>10 DEF Compact, AppendInProgress
  <2> QED BY <1>10, <2>1, CompactStep
<1>11. CASE CompactFails
  BY <1>11, SameFileStep, MarkerIsNoTurn DEF CompactFails, FailAppend, AppendInProgress
<1>12. CASE WriteLine
  <2>1. AppendInProgress'
    BY <1>12, WriteLineLeavesTurn
  <2>2. /\ KeepsNewestTurns' /\ TurnsInOrder' /\ AckedTurnsAreCovered'
        /\ \A i \in DOMAIN Turns(file') : Turns(file')[i].turn <= turnNo
    BY <1>12, PutStep DEF WriteLine, Extents
  <2>3. TurnsWereTaken'
    BY <1>12, <2>2 DEF WriteLine, TurnsWereTaken
  <2> QED BY <2>1, <2>2, <2>3
<1>13. ASSUME NEW extent \in Extents, WriteFails(extent) PROVE Inv
  <2>1. AppendInProgress'
    BY <1>13, MarkerIsNoTurn DEF WriteFails, FailAppend, AppendInProgress
  <2>2. /\ KeepsNewestTurns' /\ TurnsInOrder' /\ AckedTurnsAreCovered'
        /\ \A i \in DOMAIN Turns(file') : Turns(file')[i].turn <= turnNo
    BY <1>13, PutStep DEF WriteFails, FailAppend
  <2>3. TurnsWereTaken'
    BY <1>13, <2>2 DEF WriteFails, FailAppend, TurnsWereTaken
  <2> QED BY <2>1, <2>2, <2>3
<1>14. CASE Verify
  <2>1. AppendInProgress'
    BY <1>14, MarkerIsNoTurn DEF Verify, AppendInProgress
  <2>2. TurnsInOrder' /\ TurnsWereTaken'
    BY <1>14 DEF IndInv, Verify, TurnsInOrder, TurnsWereTaken
  <2> QED BY <1>14, <2>1, <2>2, VerifyStep
<1>15. CASE VerifyFails
  BY <1>15, SameFileStep, MarkerIsNoTurn DEF VerifyFails, FailAppend, AppendInProgress
<1>16. ASSUME NEW extent \in Extents, Crash(extent) PROVE Inv
  <2>1. AppendInProgress'
    BY <1>16, MarkerIsNoTurn DEF Crash, AppendInProgress
  <2>2. /\ KeepsNewestTurns' /\ TurnsInOrder' /\ AckedTurnsAreCovered'
        /\ \A i \in DOMAIN Turns(file') : Turns(file')[i].turn <= turnNo
    BY <1>16, PutStep DEF Crash
  <2>3. TurnsWereTaken'
    BY <1>16, <2>2 DEF Crash, TurnsWereTaken
  <2> QED BY <2>1, <2>2, <2>3
<1>17. CASE UNCHANGED vars
  BY <1>17 DEF vars, IndInv, KeepsNewestTurns, TurnsInOrder, TurnsWereTaken,
               AckedTurnsAreCovered, AppendInProgress
<1> QED BY <1>3, <1>4, <1>5, <1>6, <1>7, <1>8, <1>9, <1>10, <1>11, <1>12, <1>13, <1>14,
           <1>15, <1>16, <1>17 DEF Next

(***************************************************************************)
(* The theorems.                                                           *)
(***************************************************************************)

(* In every state of the store each part of it has its type: in particular   *)
(* open always finds a largest line number, and an acknowledged turn was      *)
(* taken.                                                                    *)
THEOREM IndInvHolds == Spec => []IndInv
<1>1. Init => IndInv
  BY InitIndInv
<1>2. IndInv /\ [Next]_vars => IndInv'
  BY IndInvStep
<1> QED BY <1>1, <1>2, PTL DEF Spec

(* No compaction, failed write, crash or resume removes one of the newest    *)
(* MaxStoredTurns turns once append has returned Ok for it (session.rs        *)
(* append and compact).                                                      *)
THEOREM NewestTurnsAreKept == Spec => []KeepsNewestTurns
<1>1. IndInv => KeepsNewestTurns
  BY DEF IndInv
<1> QED BY <1>1, IndInvHolds, PTL

LEMMA CoveredMeansRestored ==
    ASSUME NEW f \in FileSet, Ordered(Turns(f)), NEW t \in Nat,
           f.turns # <<>>, t <= f.turns[Len(f.turns)].turn
    PROVE  t <= LastTurn(f)
<1> DEFINE T == Turns(f)
           L == Len(Turns(f))
           k == Len(f.turns)
<1>1. /\ T \in Seq(TurnRecords) /\ L \in Nat /\ DOMAIN T = 1 .. L
      /\ \A i \in 1 .. L : T[i].turn \in Nat
      /\ f.turns \in Seq(TurnRecords)
      /\ \A i \in DOMAIN f.turns : i \in DOMAIN T /\ T[i] = f.turns[i]
  BY TurnsType, TurnIdentities
<1>2. k \in DOMAIN T /\ t <= T[k].turn
  <2>1. k \in DOMAIN f.turns
    BY <1>1
  <2> QED BY <1>1, <2>1
<1>3. k \in 1 .. L /\ L \in 1 .. L /\ L \in DOMAIN T /\ k <= L
  BY <1>1, <1>2
<1>4. T[L].turn - T[k].turn >= L - k
  BY <1>2, <1>3 DEF Ordered
<1>5. T[L].turn \in Nat /\ T[k].turn \in Nat /\ k \in Nat
  BY <1>1, <1>3
<1>6. LastTurn(f) = T[L].turn
  <2>1. T # <<>>
    BY <1>1, <1>3
  <2> QED BY <2>1 DEF LastTurn
<1> HIDE DEF T, L, k
<1> QED BY <1>1, <1>2, <1>3, <1>4, <1>5, <1>6

LEMMA AckedAtMostLastTurn ==
    ASSUME IndInv
    PROVE  \A t \in acked : t <= LastTurn(file)
<1>1. file \in FileSet /\ acked \subseteq Nat /\ Ordered(Turns(file))
  BY LimitsAssumption DEF IndInv, TypeOK, FileSet, TurnsInOrder, Ordered
<1> QED BY <1>1, CoveredMeansRestored DEF IndInv, AckedTurnsAreCovered

(* What a resume restores is never older than a turn the store acknowledged  *)
(* (session.rs restore takes the last snapshot in the file).                 *)
THEOREM NothingIsRolledBack == Spec => []ResumeNeverRollsBack
<1>1. IndInv => ResumeNeverRollsBack
  BY AckedAtMostLastTurn DEF ResumeNeverRollsBack
<1> QED BY <1>1, IndInvHolds, PTL

(* compact replays before it replaces the file, so a file that cannot be     *)
(* replayed keeps every turn record it has.                                  *)
THEOREM CorruptFilesAreLeftAlone == Spec => UnreadableIsLeftAlone
<1> DEFINE Kept == \A i \in DOMAIN file.turns :
                      /\ i \in DOMAIN file'.turns
                      /\ file'.turns[i] = file.turns[i]
<1>1. ASSUME IndInv, [Next]_vars, ~ Readable(file) PROVE Kept
  <2>1. file \in FileSet /\ file.turns \in Seq(TurnRecords)
    BY <1>1 DEF IndInv, TypeOK, FileSet
  <2>2. ASSUME NEW extent \in Extents, extent # "none" => pc = "write",
               file' = Put(file, rec, extent)
        PROVE  Kept
    <3>1. CASE pc # "write"
      BY <2>1, <2>2, <3>1, PutNothing
    <3>2. CASE pc = "write"
      <4>1. rec \in TurnRecords \cup Markers
        BY <1>1, <3>2, RecInProgress DEF IndInv
      <4>2. file'.turns = file.turns \/ file'.turns = Append(file.turns, rec)
        BY <2>1, <2>2, <4>1, PutTurns
      <4>3. CASE file'.turns = Append(file.turns, rec)
        BY <2>1, <4>3
      <4> QED BY <4>2, <4>3
    <3> QED BY <3>1, <3>2
  <2>3. CASE file' = file
    BY <2>3
  <2>4. CASE WriteLine
    BY <2>2, <2>4 DEF WriteLine, Extents
  <2>5. ASSUME NEW extent \in Extents, WriteFails(extent) PROVE Kept
    BY <2>2, <2>5 DEF WriteFails
  <2>6. ASSUME NEW extent \in Extents, Crash(extent) PROVE Kept
    BY <2>2, <2>6 DEF Crash
  <2>7. ~ Compact
    BY <1>1 DEF Compact
  <2>8. file' = file \/ WriteLine \/ (\E e \in Extents : WriteFails(e) \/ Crash(e))
    BY <1>1, <2>7 DEF Next, vars, Start, Resume, Reopen, AppendStarted, AppendTurn, RefuseTurn,
                      AppendFinished, Encode, CompactFails, Verify, VerifyFails
  <2> QED BY <2>3, <2>4, <2>5, <2>6, <2>8
<1>2. IndInv /\ [Next]_vars => [~ Readable(file) => Kept]_vars
  BY <1>1
<1> QED BY <1>2, IndInvHolds, PTL DEF Spec, UnreadableIsLeftAlone

(***************************************************************************)
(* The store implements SessionLog.                                        *)
(***************************************************************************)
LEMMA LastTurnType ==
    ASSUME NEW f \in FileSet
    PROVE  LastTurn(f) \in Nat
BY TurnsType, TurnIdentities DEF LastTurn

(* The append that returns Ok for a turn leaves that turn as the one a       *)
(* resume restores.                                                          *)
LEMMA VerifyPromises ==
    ASSUME IndInv, Verify
    PROVE  Log!Promise \/ (acked' = acked /\ file' = file)
<1>1. file' = file /\ Readable(file) /\ ~ file.garbage /\ pc = "verify"
  BY DEF Verify, Readable
<1>2. CASE rec.kind # "turn"
  BY <1>1, <1>2 DEF Verify
<1>3. CASE rec.kind = "turn"
  <2>1. /\ rec.turn = turnNo /\ file.tail = NoRecord /\ file.turns # <<>>
        /\ file.turns[Len(file.turns)].turn = turnNo
    BY <1>1, <1>3 DEF IndInv, AppendInProgress
  <2>2. Turns(file) = file.turns
    BY <2>1 DEF Turns, IsTurn, NoRecord
  <2>3. LastTurn(file) = turnNo
    BY <2>1, <2>2 DEF LastTurn
  <2>4. acked' = acked \cup {turnNo}
    BY <1>3, <2>1 DEF Verify
  <2> QED BY <1>1, <2>3, <2>4 DEF Log!Promise
<1> QED BY <1>2, <1>3

LEMMA LogStep ==
    ASSUME IndInv, IndInv', acked' = acked
    PROVE  [Log!LogNext]_(Log!logVars)
<1> DEFINE before == LastTurn(file)
           after == LastTurn(file')
<1>1. before \in Nat /\ after \in Nat
  BY LastTurnType DEF IndInv, TypeOK, FileSet
<1>2. \A t \in acked : t <= after
  <2>1. file' \in FileSet /\ acked' \subseteq Nat /\ Ordered(Turns(file'))
    BY LimitsAssumption DEF IndInv, TypeOK, FileSet, TurnsInOrder, Ordered
  <2>2. \A t \in acked' : file'.turns # <<>> /\ t <= file'.turns[Len(file'.turns)].turn
    BY DEF IndInv, AckedTurnsAreCovered
  <2> QED BY <2>1, <2>2, CoveredMeansRestored
<1> HIDE DEF before, after
<1>3. CASE Readable(file) /\ Readable(file')
  <2>1. CASE after > before
    BY <1>1, <1>3, <2>1 DEF Log!LogNext, Log!Take, before, after
  <2>2. CASE after < before
    BY <1>1, <1>2, <1>3, <2>2 DEF Log!LogNext, Log!Forget, before, after
  <2>3. CASE after = before
    BY <1>3, <2>3 DEF Log!logVars, before, after
  <2> QED BY <1>1, <2>1, <2>2, <2>3
<1>4. CASE Readable(file) /\ ~ Readable(file')
  BY <1>4 DEF Log!LogNext, Log!Lose
<1>5. CASE ~ Readable(file) /\ Readable(file')
  BY <1>1, <1>2, <1>5 DEF Log!LogNext, Log!Regain, after
<1>6. CASE ~ Readable(file) /\ ~ Readable(file')
  <2>1. \A f : Readable(f) \in BOOLEAN
    BY DEF Readable
  <2> QED BY <1>6, <2>1 DEF Log!logVars
<1> QED BY <1>3, <1>4, <1>5, <1>6

(* Every step of the JSONL store, with its compactions, torn writes and      *)
(* crashes, is a step of SessionLog or changes nothing it can see.           *)
THEOREM StoreImplementsLog == Spec => ImplementsSessionLog
<1>1. Init => Log!LogInit
  <2> SUFFICES ASSUME Init PROVE Log!LogInit
    OBVIOUS
  <2>1. acked = {} /\ LastTurn(file) = 0
    BY DEF Init, Empty, LastTurn, Turns, IsTurn, NoRecord
  <2>2. Readable(file)
    BY LimitsAssumption DEF Init, Empty, Readable, LineCount, Turns, Marks, IsTurn, IsMark, NoRecord
  <2> QED BY <2>1, <2>2 DEF Log!LogInit
<1>2. IndInv /\ IndInv' /\ [Next]_vars => [Log!LogNext]_(Log!logVars)
  <2> SUFFICES ASSUME IndInv, IndInv', [Next]_vars PROVE [Log!LogNext]_(Log!logVars)
    OBVIOUS
  <2>1. CASE Verify
    <3>1. Log!Promise => [Log!LogNext]_(Log!logVars)
      BY DEF Log!LogNext
    <3> QED BY <2>1, <3>1, VerifyPromises, LogStep
  <2>2. CASE acked' = acked
    BY <2>2, LogStep
  <2>3. Verify \/ acked' = acked
    BY DEF Next, vars, Start, Resume, Reopen, AppendStarted, AppendTurn, RefuseTurn,
           AppendFinished, Encode, Compact, CompactFails, FailAppend, WriteLine, WriteFails,
           VerifyFails, Crash
  <2> QED BY <2>1, <2>2, <2>3
<1> QED BY <1>1, <1>2, IndInvHolds, PTL DEF Spec, ImplementsSessionLog, Log!LogSpec

(***************************************************************************)
(* The sizes of files.                                                     *)
(***************************************************************************)

\* Induction on Nat over a set; it holds because every non-empty set of naturals has a least member.
LEMMA NaturalInduction ==
    ASSUME NEW S, 0 \in S, \A n \in Nat : n \in S => n + 1 \in S
    PROVE  Nat \subseteq S
<1> DEFINE T == Nat \ S
<1>1. T \in SUBSET Nat /\ \A n \in Nat : n \in T <=> n \notin S
  OBVIOUS
<1> SUFFICES ASSUME T # {} PROVE FALSE
  BY <1>1
<1> HIDE DEF T
<1>2. PICK x \in T : \A y \in T : x <= y
  BY <1>1, LeastNatural
<1>3. x \in Nat /\ x \notin S /\ x # 0
  BY <1>1
<1>4. x - 1 \in Nat /\ ~(x <= x - 1)
  BY <1>3
<1>5. x - 1 \in S
  BY <1>1, <1>2, <1>4
<1>6. (x - 1) + 1 = x
  BY <1>3
<1> QED BY <1>3, <1>4, <1>5, <1>6

\* g adds up the first n lines of s.
Adds(g, s, n) == g = [m \in 0 .. n |-> IF m = 0 THEN 0 ELSE g[m - 1] + s[m].size + 1]

\* The recursive function of SumLines is a function with natural values.
LEMMA SumExists ==
    ASSUME NEW s, NEW N \in Nat
    PROVE  \E g : Adds(g, s, N)
<1> DEFINE S == {n \in Nat : \E g : Adds(g, s, n)}
<1>1. 0 \in S
  <2> DEFINE g == [m \in 0 .. 0 |-> 0]
  <2>1. g = [m \in 0 .. 0 |-> IF m = 0 THEN 0 ELSE g[m - 1] + s[m].size + 1]
    OBVIOUS
  <2> HIDE DEF g
  <2>2. Adds(g, s, 0)
    BY <2>1 DEF Adds
  <2> QED BY <2>2
<1>2. ASSUME NEW n \in Nat, n \in S PROVE n + 1 \in S
  <2>1. PICK f : Adds(f, s, n)
    BY <1>2
  <2> DEFINE more == f[n] + s[n + 1].size + 1
             g == [m \in 0 .. (n + 1) |-> IF m <= n THEN f[m] ELSE more]
  <2>2. \A m \in 0 .. n : f[m] = IF m = 0 THEN 0 ELSE f[m - 1] + s[m].size + 1
    BY <2>1 DEF Adds
  <2>3. (\A m \in 0 .. n : g[m] = f[m]) /\ g[n + 1] = more
    OBVIOUS
  <2>4. DOMAIN g = 0 .. (n + 1) /\ g = [m \in 0 .. (n + 1) |-> g[m]]
    OBVIOUS
  <2>5. \A m \in 0 .. (n + 1) : g[m] = IF m = 0 THEN 0 ELSE g[m - 1] + s[m].size + 1
    <3> TAKE m \in 0 .. (n + 1)
    <3> HIDE DEF g
    <3>1. CASE m = n + 1
      <4>1. m # 0 /\ m - 1 = n /\ n \in 0 .. n
        BY <3>1
      <4> QED BY <3>1, <4>1, <2>3
    <3>2. CASE m \in 0 .. n
      <4>1. m = 0 \/ m - 1 \in 0 .. n
        BY <3>2
      <4> QED BY <3>2, <4>1, <2>2, <2>3
    <3> QED BY <3>1, <3>2
  <2> HIDE DEF g
  <2>6. Adds(g, s, n + 1)
    BY <2>4, <2>5 DEF Adds
  <2> QED BY <2>6
<1>3. N \in S
  <2> HIDE DEF S
  <2> QED BY <1>1, <1>2, NaturalInduction
<1> QED BY <1>3

LEMMA ProductStep ==
    ASSUME NEW n \in Nat, NEW line \in Nat
    PROVE  n * line \in Nat /\ (n + 1) * line = n * line + line
OBVIOUS

\* Lines that are no longer than line, with their newlines, are together no longer than as many such.
LEMMA SumIsBounded ==
    ASSUME NEW s, Len(s) \in Nat, NEW line \in Nat,
           \A i \in 1 .. Len(s) : s[i].size \in Nat /\ s[i].size + 1 <= line
    PROVE  SumLines(s) \in Nat /\ SumLines(s) <= Len(s) * line
<1> DEFINE N == Len(s)
           sum == CHOOSE g : Adds(g, s, N)
<1>1. Adds(sum, s, N)
  BY SumExists
<1>2. SumLines(s) = sum[N]
  BY DEF SumLines, Adds
<1> HIDE DEF sum
<1>3. \A m \in 0 .. N : sum[m] = IF m = 0 THEN 0 ELSE sum[m - 1] + s[m].size + 1
  BY <1>1 DEF Adds
<1> DEFINE S == {n \in Nat : n <= N => sum[n] \in Nat /\ sum[n] <= n * line}
<1>4. 0 \in S
  <2>1. sum[0] = 0
    BY <1>3
  <2> QED BY <2>1
<1>5. ASSUME NEW n \in Nat, n \in S PROVE n + 1 \in S
  <2> SUFFICES ASSUME n + 1 <= N PROVE sum[n + 1] \in Nat /\ sum[n + 1] <= (n + 1) * line
    OBVIOUS
  <2>1. n <= N /\ n + 1 \in 0 .. N /\ n + 1 \in 1 .. N /\ (n + 1) - 1 = n /\ n + 1 # 0
    OBVIOUS
  <2>2. sum[n] \in Nat /\ sum[n] <= n * line
    BY <1>5, <2>1
  <2>3. sum[n + 1] = sum[n] + s[n + 1].size + 1
    BY <1>3, <2>1
  <2>4. s[n + 1].size \in Nat /\ s[n + 1].size + 1 <= line
    BY <2>1
  <2>5. n * line \in Nat /\ (n + 1) * line = n * line + line
    BY ProductStep
  <2> HIDE DEF N
  <2> QED BY <2>2, <2>3, <2>4, <2>5
<1>6. N \in S
  <2> HIDE DEF S
  <2> QED BY <1>4, <1>5, NaturalInduction
<1> QED BY <1>2, <1>6

LEMMA LastStartedIsOne ==
    ASSUME NEW s \in Seq(Markers)
    PROVE  Len(LastStarted(s)) \in {0, 1}
<1> DEFINE at == {i \in DOMAIN s : s[i].kind = "started"}
           r == [s[CHOOSE i \in at : \A j \in at : j <= i] EXCEPT !.seq = 1]
<1>1. LastStarted(s) = IF at = {} THEN <<>> ELSE <<r>>
  BY DEF LastStarted
<1> HIDE DEF at, r
<1> QED BY <1>1

\* A line of the largest size there is: what HasRoom says of every size it says of this one.
LEMMA LargestLine ==
    ASSUME HasRoom
    PROVE  \E line \in Nat : /\ line <= MaxLineBytes /\ \A n \in TurnSizes \cup {MarkSize} : n + 1 <= line
                             /\ MarkSize + 1 + (MaxStoredTurns + 1) * line <= MaxFileBytes
<1> DEFINE S == TurnSizes \cup {MarkSize}
<1>1. S \in SUBSET Nat /\ S # {} /\ MaxLineBytes \in Nat
  BY LimitsAssumption
<1>2. \A n \in S : n + 1 <= MaxLineBytes /\ MarkSize + 1 + (MaxStoredTurns + 1) * (n + 1) <= MaxFileBytes
  BY DEF HasRoom
<1> HIDE DEF S
<1>3. \A n \in S : n <= MaxLineBytes
  BY <1>1, <1>2
<1>4. PICK n \in S : \A m \in S : m <= n
  BY <1>1, <1>3, LargestNatural
<1>5. n + 1 \in Nat /\ \A m \in S : m + 1 <= n + 1
  BY <1>1, <1>4
<1> QED BY <1>2, <1>5 DEF S

LEMMA Products ==
    ASSUME NEW k \in Nat, NEW m \in Nat, k <= m, NEW line \in Nat
    PROVE  k * line \in Nat /\ m * line \in Nat /\ k * line <= m * line
<1>1. PICK d \in Nat : m = k + d
  <2>1. m - k \in Nat /\ m = k + (m - k)
    OBVIOUS
  <2> QED BY <2>1
<1>2. m * line = k * line + d * line /\ d * line \in Nat /\ k * line \in Nat
  BY <1>1
<1> QED BY <1>2

\* What compaction leaves fits beside one more line.
LEMMA CompactedFits ==
    ASSUME NEW f \in FileSet, HasRoom, \A i \in DOMAIN Turns(f) : Turns(f)[i].size \in TurnSizes,
           NEW size \in TurnSizes \cup {MarkSize}
    PROVE  /\ Compacted(f).bytes \in Nat
           /\ Compacted(f).bytes + size + 1 <= MaxFileBytes
<1> DEFINE head == LastStarted(Marks(f))
           last == Newest(Turns(f), MaxStoredTurns)
           kept == [i \in 1 .. Len(last) |-> [last[i] EXCEPT !.seq = Len(head) + i]]
<1>1. PICK line \in Nat : /\ line <= MaxLineBytes /\ \A n \in TurnSizes \cup {MarkSize} : n + 1 <= line
                          /\ MarkSize + 1 + (MaxStoredTurns + 1) * line <= MaxFileBytes
  BY LargestLine
<1>2. /\ Turns(f) \in Seq(TurnRecords) /\ Marks(f) \in Seq(Markers)
      /\ MaxStoredTurns \in Nat \ {0} /\ MarkSize \in Nat /\ TurnSizes \subseteq Nat /\ MaxFileBytes \in Nat
  BY TurnsType, LimitsAssumption
<1>3. /\ last \in Seq(TurnRecords) /\ Len(last) \in Nat /\ Len(last) <= MaxStoredTurns
      /\ \A i \in 1 .. Len(last) : last[i].size \in TurnSizes
  <2>1. /\ last \in Seq(TurnRecords)
        /\ Len(last) = IF Len(Turns(f)) > MaxStoredTurns THEN MaxStoredTurns ELSE Len(Turns(f))
        /\ \A i \in 1 .. Len(last) : last[i] = Turns(f)[Len(Turns(f)) - Len(last) + i]
    BY <1>2, NewestIsSuffix
  <2> HIDE DEF last
  <2>2. Len(Turns(f)) \in Nat /\ Len(last) \in Nat /\ Len(last) <= MaxStoredTurns /\ Len(last) <= Len(Turns(f))
    BY <1>2, <2>1
  <2>3. \A i \in 1 .. Len(last) : Len(Turns(f)) - Len(last) + i \in DOMAIN Turns(f)
    BY <1>2, <2>2
  <2> QED BY <2>1, <2>2, <2>3
<1>4. head \in Seq(Markers) /\ Len(head) \in {0, 1}
  BY <1>2, LastStartedType, LastStartedIsOne
<1> HIDE DEF last, head
<1>5. /\ Len(kept) = Len(last)
      /\ \A i \in 1 .. Len(last) : kept[i].size = last[i].size
  <2>1. \A i \in 1 .. Len(last) : last[i] \in TurnRecords
    BY <1>3
  <2>2. \A i \in 1 .. Len(last) : [last[i] EXCEPT !.seq = Len(head) + i].size = last[i].size
    BY <2>1 DEF TurnRecords
  <2>3. \A i \in 1 .. Len(last) : kept[i].size = last[i].size
    BY <2>2
  <2>4. DOMAIN kept = 1 .. Len(last) /\ kept = [i \in 1 .. Len(last) |-> kept[i]]
    OBVIOUS
  <2> HIDE DEF kept
  <2>5. kept \in Seq({kept[i] : i \in 1 .. Len(last)})
    <3>1. kept \in [1 .. Len(last) -> {kept[i] : i \in 1 .. Len(last)}]
      BY <2>4
    <3> QED BY <1>3, <3>1, SeqDef
  <2>6. Len(kept) = Len(last)
    BY <1>3, <2>4, <2>5
  <2> QED BY <2>3, <2>6
<1> HIDE DEF kept
<1>6. SumLines(kept) \in Nat /\ SumLines(kept) <= Len(last) * line
  <2>1. \A i \in 1 .. Len(kept) : kept[i].size \in Nat /\ kept[i].size + 1 <= line
    BY <1>1, <1>2, <1>3, <1>5
  <2> QED BY <1>3, <1>5, <2>1, SumIsBounded
<1>7. SumLines(head) \in Nat /\ SumLines(head) <= MarkSize + 1
  <2>1. Len(head) \in Nat /\ \A i \in 1 .. Len(head) : head[i] \in Markers
    BY <1>4
  <2>2. \A i \in 1 .. Len(head) : head[i].size \in Nat /\ head[i].size + 1 <= MarkSize + 1
    BY <1>2, <2>1 DEF Markers
  <2>3. MarkSize + 1 \in Nat
    BY <1>2
  <2>4. SumLines(head) \in Nat /\ SumLines(head) <= Len(head) * (MarkSize + 1)
    BY <2>1, <2>2, <2>3, SumIsBounded
  <2>5. \A k \in {0, 1}, m \in Nat : k * m <= m
    OBVIOUS
  <2>6. Len(head) * (MarkSize + 1) <= MarkSize + 1
    BY <1>4, <2>3, <2>5
  <2> QED BY <2>1, <2>3, <2>4, <2>6
<1>8. Len(last) * line <= MaxStoredTurns * line /\ MaxStoredTurns * line \in Nat /\ Len(last) * line \in Nat
  BY <1>2, <1>3, Products
<1>9. (MaxStoredTurns + 1) * line = MaxStoredTurns * line + line
  BY <1>2, ProductStep
<1>10. Compacted(f).bytes = SumLines(head) + SumLines(kept)
  BY DEF Compacted, head, kept, last
<1>11. size \in Nat /\ size + 1 <= line
  BY <1>1, <1>2
<1>12. line \in Nat /\ MarkSize \in Nat /\ MaxFileBytes \in Nat
  BY <1>1, <1>2
<1> DEFINE a == SumLines(head)
           b == SumLines(kept)
           c == MaxStoredTurns * line
           d == Len(last) * line
           total == Compacted(f).bytes
<1>13. a \in Nat /\ b \in Nat /\ c \in Nat /\ d \in Nat /\ b <= d /\ d <= c /\ a <= MarkSize + 1 /\ total = a + b
  BY <1>6, <1>7, <1>8, <1>10
<1>14. MarkSize + 1 + (c + line) <= MaxFileBytes
  BY <1>1, <1>9
<1> HIDE DEF a, b, c, d, total
<1>15. total \in Nat /\ total + size + 1 <= MaxFileBytes
  BY <1>11, <1>12, <1>13, <1>14
<1> QED BY <1>15 DEF total

LEMMA SizesAfterPut ==
    ASSUME NEW f \in FileSet, NEW r \in TurnRecords \cup Markers, NEW e \in Extents,
           \A i \in DOMAIN Turns(f) : Turns(f)[i].size \in TurnSizes,
           r.kind = "turn" => r.size \in TurnSizes
    PROVE  /\ \A i \in DOMAIN Turns(Put(f, r, e)) : Turns(Put(f, r, e))[i].size \in TurnSizes
           /\ Put(f, r, e).bytes <= f.bytes + r.size + 1
<1>1. /\ f.turns \in Seq(TurnRecords)
      /\ \A i \in DOMAIN f.turns : i \in DOMAIN Turns(f) /\ Turns(f)[i] = f.turns[i]
  BY TurnsType
<1>2. \A i \in DOMAIN f.turns : f.turns[i].size \in TurnSizes
  BY <1>1
<1>3. IsTurn(r) => \A i \in DOMAIN Append(f.turns, r) : Append(f.turns, r)[i].size \in TurnSizes
  <2> SUFFICES ASSUME IsTurn(r), NEW i \in DOMAIN Append(f.turns, r)
               PROVE  Append(f.turns, r)[i].size \in TurnSizes
    OBVIOUS
  <2>1. r \in TurnRecords /\ r.size \in TurnSizes
    BY DEF IsTurn, TurnRecords, Markers
  <2>2. Len(f.turns) \in Nat /\ DOMAIN f.turns = 1 .. Len(f.turns)
    BY <1>1
  <2>3. /\ DOMAIN Append(f.turns, r) = 1 .. (Len(f.turns) + 1)
        /\ Append(f.turns, r)[Len(f.turns) + 1] = r
        /\ \A j \in 1 .. Len(f.turns) : Append(f.turns, r)[j] = f.turns[j]
    BY <1>1, <2>1, AppendProperties
  <2>4. i = Len(f.turns) + 1 \/ i \in 1 .. Len(f.turns)
    BY <2>2, <2>3
  <2> QED BY <1>2, <2>1, <2>2, <2>3, <2>4
<1>4. \A i \in DOMAIN Turns(Put(f, r, e)) : Turns(Put(f, r, e))[i].size \in TurnSizes
  <2>1. \/ Turns(Put(f, r, e)) = Turns(f)
        \/ Turns(Put(f, r, e)) = f.turns
        \/ IsTurn(r) /\ Turns(Put(f, r, e)) = Append(f.turns, r)
    BY PutTurns
  <2> QED BY <1>2, <1>3, <2>1
<1>5. Put(f, r, e).bytes <= f.bytes + r.size + 1
  <2>1. f.bytes \in Nat /\ r.size \in Nat
    BY RecordType DEF FileSet
  <2>2. Written(r, e) \in {0, 1, r.size, r.size + 1}
    BY DEF Written, Extents
  <2>3. Put(f, r, e).bytes = f.bytes + Written(r, e)
    BY DEF Put
  <2> QED BY <2>1, <2>2, <2>3
<1> QED BY <1>4, <1>5

\* A step that puts bytes of the record behind the file, or nothing.
LEMMA PutKeepsRoom ==
    ASSUME IndInv, RoomInv, NEW extent \in Extents, extent # "none" => pc = "write",
           file' = Put(file, rec, extent), rec' = rec \/ rec' = NoRecord, pc' # "write"
    PROVE  RoomInv'
<1>1. file \in FileSet /\ file.bytes \in Nat
  BY DEF IndInv, TypeOK, FileSet
<1>2. CASE extent = "none"
  <2>1. file' = file
    BY <1>1, <1>2, PutNothing
  <2> QED BY <2>1, MarkerIsNoTurn DEF RoomInv
<1>3. CASE extent # "none"
  <2>1. pc = "write" /\ rec \in TurnRecords \cup Markers /\ rec.size \in Nat
    BY <1>3, RecInProgress, RecordType DEF IndInv
  <2>2. /\ \A i \in DOMAIN Turns(file') : Turns(file')[i].size \in TurnSizes
        /\ file'.bytes <= file.bytes + rec.size + 1
    BY <1>1, <2>1, SizesAfterPut DEF RoomInv
  <2>3. file'.bytes \in Nat
    BY <1>1, <2>1, PutType DEF FileSet
  <2>4. HasRoom => file'.bytes <= MaxFileBytes
    <3>1. HasRoom => file.bytes + rec.size + 1 <= MaxFileBytes
      BY <2>1 DEF RoomInv
    <3>2. MaxFileBytes \in Nat
      BY LimitsAssumption
    <3> QED BY <1>1, <2>1, <2>2, <2>3, <3>1, <3>2
  <2>5. HasRoom' = HasRoom
    BY DEF HasRoom
  <2> QED BY <2>2, <2>4, <2>5, MarkerIsNoTurn DEF RoomInv
<1> QED BY <1>2, <1>3

LEMMA EncodeKeepsRoom ==
    ASSUME RoomInv, NEW kind, NEW turn, NEW size, kind = "turn" => size \in TurnSizes,
           Encode(kind, turn, size), file.bytes \in Nat, size \in Nat
    PROVE  RoomInv'
<1>1. /\ file' = file /\ rec'.kind = kind /\ rec'.size = size
      /\ pc' = "write" => ~(file.bytes + size + 1 > MaxFileBytes)
  BY DEF Encode
<1>2. MaxFileBytes \in Nat
  BY LimitsAssumption
<1> QED BY <1>1, <1>2 DEF RoomInv, HasRoom

LEMMA CompactKeepsRoom ==
    ASSUME IndInv, RoomInv, Compact
    PROVE  RoomInv'
<1> DEFINE T == Turns(file)
           C == Compacted(file)
<1>1. file \in FileSet /\ file' = C /\ pc' = "write" /\ rec' = rec /\ pc = "compact" /\ C.bytes \in Nat
  BY LimitsAssumption DEF IndInv, TypeOK, FileSet, Compact
<1>2. T \in Seq(TurnRecords) /\ \A i \in DOMAIN T : T[i].size \in TurnSizes
  BY <1>1, TurnsType DEF RoomInv
<1>3. rec \in TurnRecords \cup Markers
  BY <1>1, RecInProgress DEF IndInv
<1>4. rec.size \in TurnSizes \cup {MarkSize}
  <2>1. CASE rec \in TurnRecords
    BY <2>1 DEF RoomInv, TurnRecords
  <2>2. CASE rec \in Markers
    BY <2>2 DEF Markers
  <2> QED BY <1>3, <2>1, <2>2
<1>5. HasRoom => C.bytes + rec.size + 1 <= MaxFileBytes
  BY <1>1, <1>2, <1>4, CompactedFits
<1>6. \A i \in DOMAIN Turns(C) : Turns(C)[i].size \in TurnSizes
  <2> DEFINE last == Newest(T, MaxStoredTurns)
             kept == [i \in 1 .. Len(last) |-> [last[i] EXCEPT !.seq = Len(LastStarted(Marks(file))) + i]]
  <2>1. MaxStoredTurns \in Nat \ {0} /\ Len(T) \in Nat /\ DOMAIN T = 1 .. Len(T)
    BY <1>2, LimitsAssumption
  <2>2. /\ last \in Seq(TurnRecords)
        /\ Len(last) = IF Len(T) > MaxStoredTurns THEN MaxStoredTurns ELSE Len(T)
        /\ \A i \in 1 .. Len(last) : last[i] = T[Len(T) - Len(last) + i]
    BY <1>2, <2>1, NewestIsSuffix
  <2>3. Turns(C) = kept
    BY <1>1, CompactedTurns DEF Compacted
  <2> HIDE DEF last, T
  <2>4. \A i \in 1 .. Len(last) : Len(T) - Len(last) + i \in DOMAIN T
    BY <2>1, <2>2
  <2>5. \A i \in 1 .. Len(last) : last[i] \in TurnRecords /\ last[i].size \in TurnSizes
    BY <1>2, <2>2, <2>4
  <2>6. \A i \in 1 .. Len(last) : kept[i].size = last[i].size
    BY <2>5 DEF TurnRecords
  <2>7. DOMAIN kept = 1 .. Len(last)
    OBVIOUS
  <2> HIDE DEF kept
  <2> QED BY <2>3, <2>5, <2>6, <2>7
<1>7. HasRoom => C.bytes <= MaxFileBytes
  <2>1. rec.size \in Nat /\ MaxFileBytes \in Nat
    BY <1>3, RecordType, LimitsAssumption
  <2> HIDE DEF C
  <2> QED BY <1>1, <1>5, <2>1
<1> HIDE DEF C
<1> QED BY <1>1, <1>5, <1>6, <1>7 DEF RoomInv, HasRoom

LEMMA SameFileKeepsRoom ==
    ASSUME RoomInv, file' = file, rec' = rec \/ rec' = NoRecord, pc' = "write" => pc = "write" /\ rec' = rec
    PROVE  RoomInv'
BY MarkerIsNoTurn DEF RoomInv, HasRoom

LEMMA RoomStep == IndInv /\ RoomInv /\ [Next]_vars => RoomInv'
<1> SUFFICES ASSUME IndInv, RoomInv, [Next]_vars PROVE RoomInv'
  OBVIOUS
<1>0. file.bytes \in Nat /\ MarkSize \in Nat /\ TurnSizes \subseteq Nat
  BY LimitsAssumption DEF IndInv, TypeOK
<1>1. CASE Start \/ Resume \/ Reopen \/ RefuseTurn
  BY <1>1, SameFileKeepsRoom DEF Start, Resume, Reopen, RefuseTurn
<1>2. CASE AppendStarted
  BY <1>0, <1>2, EncodeKeepsRoom DEF AppendStarted
<1>3. ASSUME NEW size \in TurnSizes, AppendTurn(size) PROVE RoomInv'
  BY <1>0, <1>3, EncodeKeepsRoom DEF AppendTurn
<1>4. CASE AppendFinished
  BY <1>0, <1>4, EncodeKeepsRoom DEF AppendFinished
<1>5. CASE Compact
  BY <1>5, CompactKeepsRoom
<1>6. CASE CompactFails
  BY <1>6, SameFileKeepsRoom DEF CompactFails, FailAppend
<1>7. CASE WriteLine
  BY <1>7, PutKeepsRoom DEF WriteLine, Extents
<1>8. ASSUME NEW extent \in Extents, WriteFails(extent) PROVE RoomInv'
  BY <1>8, PutKeepsRoom DEF WriteFails, FailAppend
<1>9. CASE Verify
  BY <1>9, SameFileKeepsRoom DEF Verify
<1>10. CASE VerifyFails
  BY <1>10, SameFileKeepsRoom DEF VerifyFails, FailAppend
<1>11. ASSUME NEW extent \in Extents, Crash(extent) PROVE RoomInv'
  BY <1>11, PutKeepsRoom DEF Crash
<1>12. CASE UNCHANGED vars
  BY <1>12, SameFileKeepsRoom DEF vars
<1> QED BY <1>1, <1>2, <1>3, <1>4, <1>5, <1>6, <1>7, <1>8, <1>9, <1>10, <1>11, <1>12 DEF Next

(* What the store measures before it writes is enough: when the newest turns *)
(* and one record more fit, no append, failed write, crash, compaction or     *)
(* resume makes a file longer than replay reads (session.rs append, compact). *)
THEOREM RoomInvHolds == Spec => []RoomInv
<1>1. Init => RoomInv
  <2> SUFFICES ASSUME Init PROVE RoomInv
    OBVIOUS
  <2>1. Turns(file) = <<>> /\ file.bytes = 0 /\ rec.kind = "none" /\ pc = "idle"
    BY DEF Init, Empty, Turns, IsTurn, NoRecord
  <2>2. 0 <= MaxFileBytes
    BY LimitsAssumption
  <2> QED BY <2>1, <2>2 DEF RoomInv
<1>2. IndInv /\ RoomInv /\ [Next]_vars => RoomInv'
  BY RoomStep
<1> QED BY <1>1, <1>2, IndInvHolds, PTL DEF Spec

(* With room for the newest turns and one record more, a file is unreadable   *)
(* only when it is damaged or has too many lines, for any limits and sizes    *)
(* (session.rs append, compact, replay_reader).                               *)
THEOREM RoomIsEnough == Spec => []RoomMeansReadable
<1>1. IndInv /\ RoomInv => RoomMeansReadable
  <2> SUFFICES ASSUME IndInv, RoomInv PROVE RoomMeansReadable
    OBVIOUS
  <2>0. LineCount(file) \in Nat /\ MaxLines \in Nat
    <3>1. file \in FileSet
      BY DEF IndInv, TypeOK, FileSet
    <3>2. Turns(file) \in Seq(TurnRecords) /\ Marks(file) \in Seq(Markers)
      BY <3>1, TurnsType
    <3> QED BY <3>2, LimitsAssumption DEF LineCount
  <2> SUFFICES ASSUME HasRoom, ~Damaged, LineCount(file) <= MaxLines
               PROVE  Readable(file)
    BY <2>0 DEF RoomMeansReadable
  <2>1. file \in FileSet /\ file.tail \in Tails /\ file.marks \in Seq(Markers)
    BY DEF IndInv, TypeOK, FileSet
  <2>2. /\ \A n \in TurnSizes \cup {MarkSize} : n \in Nat /\ n + 1 <= MaxLineBytes
        /\ MaxLineBytes \in Nat
    BY LimitsAssumption DEF HasRoom
  <2>3. \A i \in DOMAIN file.turns : file.turns[i].size \in TurnSizes
    BY <2>1, TurnsType DEF RoomInv
  <2>4. \A i \in DOMAIN file.marks : file.marks[i].size = MarkSize
    <3>1. \A i \in DOMAIN file.marks : file.marks[i] \in Markers
      BY <2>1
    <3> QED BY <3>1 DEF Markers
  <2>5. file.tail.size <= MaxLineBytes
    <3>1. CASE file.tail \in TurnRecords
      <4>1. IsTurn(file.tail) /\ Turns(file) = Append(file.turns, file.tail)
        BY <3>1 DEF IsTurn, TurnRecords, Turns
      <4>2. file.turns \in Seq(TurnRecords)
        BY <2>1 DEF FileSet
      <4>3. Len(file.turns) + 1 \in DOMAIN Turns(file) /\ Turns(file)[Len(file.turns) + 1] = file.tail
        BY <3>1, <4>1, <4>2, AppendProperties
      <4>4. file.tail.size \in TurnSizes
        BY <4>3 DEF RoomInv
      <4> QED BY <2>2, <4>4
    <3>2. CASE file.tail \in Markers
      <4>1. file.tail.size = MarkSize
        BY <3>2 DEF Markers
      <4> QED BY <2>2, <4>1
    <3>3. CASE file.tail = NoRecord
      BY <2>2, <3>3 DEF NoRecord
    <3>4. CASE file.tail \in TornTails
      BY <3>4 DEF TornTails, Damaged
    <3> QED BY <2>1, <3>1, <3>2, <3>3, <3>4 DEF Tails
  <2>6. file.bytes <= MaxFileBytes /\ ~file.garbage
    BY DEF RoomInv, Damaged
  <2> QED BY <2>2, <2>3, <2>4, <2>5, <2>6 DEF Readable
<1> QED BY <1>1, RoomInvHolds, IndInvHolds, PTL

=============================================================================

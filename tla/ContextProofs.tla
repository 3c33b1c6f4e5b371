----------------------------- MODULE ContextProofs ----------------------------
(***************************************************************************)
(* Proofs about what the model is told: the repository map and its symbol  *)
(* index, the context packets, and the planner's answers, for any          *)
(* workspace, any task and any bound on the lists.                         *)
(*                                                                         *)
(* The packets: what the engine knows of a file changes with the look at   *)
(* it.  Every operation on the engine keeps it in order (EngineOK), keeps  *)
(* what it recorded as shown, and leaves no excerpt whose own hash is not  *)
(* the listed one of its file, unless the file was pushed out of the list  *)
(* (Keeps, Moves).  A call is a chain of such operations.                   *)
(*                                                                         *)
(* The planner: the loops of planner.rs and verification.rs are followed   *)
(* pass by pass.  While a batch is executed, every line asked for is shown *)
(* or in a read still to come, and the limits have room for those reads    *)
(* (PlanInv); the place of the workspace check is not taken by a narrower  *)
(* command (BroadIsPlanned).                                               *)
(***************************************************************************)
EXTENDS RepositoryPlan, PromptContext, SequenceTheorems, FiniteSetTheorems, WellFoundedInduction, TLAPS

(***************************************************************************)
(* Induction over the natural numbers, with the property as a set: what a  *)
(* recursive function of the model computes is followed step by step.      *)
(***************************************************************************)

LEMMA NatLeast ==
    ASSUME NEW T, T \subseteq Nat, T # {}
    PROVE  \E x \in T : \A y \in T : x <= y
<1> DEFINE R == OpToRel(<, Nat)
<1>1. IsWellFoundedOn(R, Nat)  BY NatLessThanWellFounded
<1>2. \A x, y \in Nat : y < x => <<y, x>> \in R  BY DEF OpToRel
<1> HIDE DEF R
<1>3. PICK x \in T : \A y \in T : ~(<<y, x>> \in R)  BY <1>1, WFMin
<1>4. \A y \in T : ~(y < x)  BY <1>3, <1>2
<1> QED BY <1>4

LEMMA Induction ==
    ASSUME NEW S, 0 \in S, \A n \in Nat : n \in S => n + 1 \in S
    PROVE  Nat \subseteq S
<1> DEFINE T == Nat \ S
<1>1. T \subseteq Nat /\ \A n \in Nat : n \in T <=> n \notin S  OBVIOUS
<1> SUFFICES ASSUME T # {} PROVE FALSE
  BY <1>1
<1> HIDE DEF T
<1>2. PICK x \in T : \A y \in T : x <= y  BY <1>1, NatLeast
<1>3. x \in Nat /\ x \notin S /\ x # 0  BY <1>1
<1>4. x - 1 \in Nat /\ ~(x <= x - 1)  BY <1>3
<1>5. x - 1 \in S  BY <1>1, <1>2, <1>4
<1>6. (x - 1) + 1 = x  BY <1>3
<1> QED BY <1>3, <1>4, <1>5, <1>6

(***************************************************************************)
(* Bounded lists and the loops over them.                                  *)
(***************************************************************************)

\* kept holds the members of S among the first m ones of seq, for every m up to n.
Sifts(kept, seq, S, n) ==
    kept = [m \in 0 .. n |-> IF m = 0 THEN <<>>
                             ELSE IF seq[m] \in S THEN Append(kept[m - 1], seq[m]) ELSE kept[m - 1]]

\* The loop that collects the members exists: there is such a function for every length.
LEMMA SiftExists ==
    ASSUME NEW seq, NEW S, NEW N \in Nat
    PROVE  \E g : Sifts(g, seq, S, N)
<1> DEFINE T == {n \in Nat : \E g : Sifts(g, seq, S, n)}
<1>1. 0 \in T
  <2> DEFINE g == [m \in 0 .. 0 |-> <<>>]
  <2>1. g = [m \in 0 .. 0 |-> IF m = 0 THEN <<>>
                              ELSE IF seq[m] \in S THEN Append(g[m - 1], seq[m]) ELSE g[m - 1]]
    OBVIOUS
  <2> HIDE DEF g
  <2>2. Sifts(g, seq, S, 0)
    BY <2>1 DEF Sifts
  <2> QED BY <2>2
<1>2. ASSUME NEW n \in Nat, n \in T PROVE n + 1 \in T
  <2>1. PICK f : Sifts(f, seq, S, n)
    BY <1>2
  <2> DEFINE more == IF seq[n + 1] \in S THEN Append(f[n], seq[n + 1]) ELSE f[n]
             g == [m \in 0 .. (n + 1) |-> IF m <= n THEN f[m] ELSE more]
             next(h, m) == IF m = 0 THEN <<>>
                           ELSE IF seq[m] \in S THEN Append(h[m - 1], seq[m]) ELSE h[m - 1]
  <2>2. \A m \in 0 .. n : f[m] = next(f, m)
    BY <2>1 DEF Sifts
  <2>3. (\A m \in 0 .. n : g[m] = f[m]) /\ g[n + 1] = more
    OBVIOUS
  <2>4. DOMAIN g = 0 .. (n + 1) /\ g = [m \in 0 .. (n + 1) |-> g[m]]
    OBVIOUS
  <2>5. \A m \in 0 .. (n + 1) : g[m] = next(g, m)
    <3> TAKE m \in 0 .. (n + 1)
    <3> HIDE DEF g
    <3>1. CASE m = n + 1
      <4>1. m # 0 /\ m - 1 = n /\ n \in 0 .. n
        BY <3>1
      <4> QED BY <3>1, <4>1, <2>3
    <3>2. CASE m \in 0 .. n
      <4>1. m = 0 \/ m - 1 \in 0 .. n
        BY <3>2
      <4>2. m = 0 => next(f, m) = next(g, m)
        OBVIOUS
      <4>3. m - 1 \in 0 .. n => f[m - 1] = g[m - 1]
        BY <2>3
      <4> HIDE DEF more
      <4> QED BY <3>2, <4>1, <4>2, <4>3, <2>2, <2>3
    <3> QED BY <3>1, <3>2
  <2> HIDE DEF g
  <2>6. Sifts(g, seq, S, n + 1)
    BY <2>4, <2>5 DEF Sifts
  <2> QED BY <2>6
<1>3. N \in T
  <2> HIDE DEF T
  <2> QED BY <1>1, <1>2, Induction
<1> QED BY <1>3

\* Sift gives the members of a list that are in S.
LEMMA SiftType ==
    ASSUME NEW A, NEW seq \in Seq(A), NEW S
    PROVE  Sift(seq, S) \in Seq(A \cap S)
<1> DEFINE N == Len(seq)
           kept == CHOOSE g : Sifts(g, seq, S, N)
<1>1. Sifts(kept, seq, S, N)
  BY SiftExists
<1>2. Sift(seq, S) = kept[N]
  BY DEF Sift, Sifts
<1> HIDE DEF kept
<1>3. \A m \in 0 .. N : kept[m] = IF m = 0 THEN <<>>
                                  ELSE IF seq[m] \in S THEN Append(kept[m - 1], seq[m]) ELSE kept[m - 1]
  BY <1>1 DEF Sifts
<1> DEFINE T == {n \in Nat : n <= N => kept[n] \in Seq(A \cap S)}
<1>4. 0 \in T
  <2>1. kept[0] = <<>>
    BY <1>3
  <2>2. kept[0] \in Seq(A \cap S)
    BY <2>1
  <2> HIDE DEF N
  <2> QED BY <2>2
<1>5. ASSUME NEW n \in Nat, n \in T PROVE n + 1 \in T
  <2> SUFFICES ASSUME n + 1 <= N PROVE kept[n + 1] \in Seq(A \cap S)
    OBVIOUS
  <2>1. n <= N /\ n + 1 \in 0 .. N /\ n + 1 \in 1 .. N /\ (n + 1) - 1 = n /\ n + 1 # 0
    OBVIOUS
  <2>2. kept[n] \in Seq(A \cap S)
    BY <1>5, <2>1
  <2>3. kept[n + 1] = IF seq[n + 1] \in S THEN Append(kept[n], seq[n + 1]) ELSE kept[n]
    BY <1>3, <2>1
  <2>4. seq[n + 1] \in A
    BY <2>1
  <2> HIDE DEF N
  <2> QED BY <2>2, <2>3, <2>4
<1>6. N \in T
  <2> HIDE DEF T
  <2> QED BY <1>4, <1>5, Induction
<1> QED BY <1>2, <1>6

\* The newest members of a list are its last ones, the oldest its first ones.
LEMMA NewestType ==
    ASSUME NEW A, NEW s \in Seq(A), NEW n \in Nat
    PROVE  /\ Newest(s, n) \in Seq(A)
           /\ \E d \in 0 .. Len(s) : /\ Len(Newest(s, n)) = Len(s) - d
                                     /\ \A k \in 1 .. (Len(s) - d) : Newest(s, n)[k] = s[k + d]
                                     /\ n > 0 /\ Len(s) > 0 => d < Len(s)
<1>1. CASE Len(s) > n
  <2> DEFINE d == Len(s) - n
  <2>1. Newest(s, n) = SubSeq(s, d + 1, Len(s))
    BY <1>1 DEF Newest
  <2>2. d \in 0 .. Len(s) /\ Len(s) - d = n /\ (n > 0 => d < Len(s))
    BY <1>1
  <2>3. SubSeq(s, d + 1, Len(s)) \in Seq(A) /\ Len(SubSeq(s, d + 1, Len(s))) = Len(s) - d
    BY <1>1
  <2>4. \A k \in 1 .. (Len(s) - d) : SubSeq(s, d + 1, Len(s))[k] = s[k + d]
    BY <1>1
  <2> HIDE DEF d
  <2> QED BY <2>1, <2>2, <2>3, <2>4
<1>2. CASE ~(Len(s) > n)
  <2>1. Newest(s, n) = s
    BY <1>2 DEF Newest
  <2>2. 0 \in 0 .. Len(s) /\ Len(s) - 0 = Len(s) /\ \A k \in 1 .. Len(s) : k + 0 = k
    OBVIOUS
  <2> QED BY <2>1, <2>2
<1> QED BY <1>1, <1>2

LEMMA OldestType ==
    ASSUME NEW A, NEW s \in Seq(A), NEW n \in Nat
    PROVE  /\ Oldest(s, n) \in Seq(A) /\ Len(Oldest(s, n)) <= Len(s)
           /\ \A k \in 1 .. Len(Oldest(s, n)) : Oldest(s, n)[k] = s[k]
<1>1. CASE Len(s) > n
  <2>1. Oldest(s, n) = SubSeq(s, 1, n)
    BY <1>1 DEF Oldest
  <2>2. SubSeq(s, 1, n) \in Seq(A) /\ Len(SubSeq(s, 1, n)) = n
    BY <1>1
  <2>3. \A k \in 1 .. n : SubSeq(s, 1, n)[k] = s[k]
    BY <1>1
  <2> QED BY <1>1, <2>1, <2>2, <2>3
<1>2. CASE ~(Len(s) > n)
  BY <1>2 DEF Oldest
<1> QED BY <1>1, <1>2

\* A list is one over its own members, and what is chosen from it is among them.
LEMMA OwnMembers ==
    ASSUME NEW A, NEW s \in Seq(A)
    PROVE  s \in Seq(ToSet(s)) /\ ToSet(s) \subseteq A /\ \A x \in ToSet(s) : \E i \in DOMAIN s : s[i] = x
<1>1. ToSet(s) = {s[i] : i \in DOMAIN s}
  BY DEF ToSet
<1>2. DOMAIN s = 1 .. Len(s) /\ Len(s) \in Nat /\ s = [i \in 1 .. Len(s) |-> s[i]]
  OBVIOUS
<1>3. s \in [1 .. Len(s) -> ToSet(s)]
  BY <1>1, <1>2
<1> QED BY <1>1, <1>2, <1>3

LEMMA SiftMembers ==
    ASSUME NEW A, NEW s \in Seq(A), NEW S
    PROVE  /\ Sift(s, S) \in Seq(A)
           /\ \A k \in DOMAIN Sift(s, S) : Sift(s, S)[k] \in S /\ \E j \in DOMAIN s : s[j] = Sift(s, S)[k]
<1> DEFINE out == Sift(s, S)
<1>1. s \in Seq(ToSet(s)) /\ ToSet(s) \subseteq A /\ \A x \in ToSet(s) : \E i \in DOMAIN s : s[i] = x
  BY OwnMembers
<1>2. out \in Seq(ToSet(s) \cap S)
  BY <1>1, SiftType
<1> HIDE DEF out
<1>3. \A k \in DOMAIN out : out[k] \in ToSet(s) \cap S
  BY <1>2
<1>4. out \in Seq(A)
  BY <1>1, <1>2
<1> QED BY <1>1, <1>3, <1>4 DEF out

LEMMA DistinctType ==
    ASSUME NEW A, NEW s \in Seq(A)
    PROVE  /\ Distinct(s) \in Seq(A)
           /\ \A k \in DOMAIN Distinct(s) : \E j \in DOMAIN s : Distinct(s)[k] = s[j]
<1> DEFINE all == [i \in DOMAIN s |-> i]
           S == {i \in DOMAIN s : \A j \in 1 .. (i - 1) : s[j] # s[i]}
           first == Sift(all, S)
<1>1. all \in Seq(DOMAIN s)
  OBVIOUS
<1>2. first \in Seq(DOMAIN s)
  <2> HIDE DEF all, S
  <2> QED BY <1>1, SiftMembers
<1>3. Distinct(s) = [k \in DOMAIN first |-> s[first[k]]]
  BY DEF Distinct
<1> HIDE DEF first
<1>4. \A k \in DOMAIN first : first[k] \in DOMAIN s
  BY <1>2
<1>5. \A i \in DOMAIN s : s[i] \in A
  OBVIOUS
<1>6. DOMAIN first = 1 .. Len(first) /\ Len(first) \in Nat
  BY <1>2
<1>7. [k \in DOMAIN first |-> s[first[k]]] \in Seq(A)
  BY <1>4, <1>5, <1>6
<1> QED BY <1>3, <1>4, <1>7

(***************************************************************************)
(* The repository map.                                                     *)
(***************************************************************************)

\* What the index tracks is a sequence of paths of the repository.
LEMMA TrackedType ==
    ASSUME NEW S PROVE Tracked(S) \in Seq(DOMAIN RepoFiles)
<1>1. [p \in DOMAIN RepoFiles |-> p] \in Seq(DOMAIN RepoFiles)
  BY RepoAssumption
<1>2. Tracked(S) \in Seq(DOMAIN RepoFiles \cap S)
  BY <1>1, SiftType DEF Tracked
<1> QED BY <1>2

\* The special files are among the paths they were looked for in.
LEMMA SpecialType ==
    ASSUME NEW paths \in Seq(DOMAIN RepoFiles)
    PROVE  \A i \in DOMAIN ReadSpecialFiles(paths) :
              \E p \in DOMAIN RepoFiles : ReadSpecialFiles(paths)[i] = ReadSpecialFile(p)
<1> DEFINE found == Sift(paths, {p \in DOMAIN RepoFiles : IsSpecialFile(p)})
           first == AtMost(MaxSpecialFiles, found)
<1>1. found \in Seq(DOMAIN RepoFiles)
  <2>1. found \in Seq(DOMAIN RepoFiles \cap {p \in DOMAIN RepoFiles : IsSpecialFile(p)})
    BY SiftType
  <2> QED BY <2>1
<1> HIDE DEF found
<1>2. first \in Seq(DOMAIN RepoFiles)
  BY <1>1, RepoAssumption DEF AtMost
<1>3. ReadSpecialFiles(paths) = [i \in DOMAIN first |-> ReadSpecialFile(first[i])]
  BY DEF ReadSpecialFiles, found
<1> HIDE DEF first
<1> QED BY <1>2, <1>3

\* A special file as it is read now was there during a call that is in progress.
LEMMA ReadNow ==
    ASSUME MapInv, mapCall.pc # "idle", NEW p \in DOMAIN RepoFiles
    PROVE  /\ ReadSpecialFile(p).path = p
           /\ \E v \in 0 .. Len(Versions[p]) :
                /\ <<p, v>> \in indexSeen.disk
                /\ ReadSpecialFile(p).readable = (v # 0)
                /\ v # 0 => ReadSpecialFile(p).content = AtMost(SpecialLimit(p), Versions[p][v])
<1>1. p \in DOMAIN disk /\ disk[p] \in 0 .. Len(Versions[p]) /\ <<p, disk[p]>> \in indexSeen.disk
  BY RepoAssumption DEF MapInv, WorldInv
<1>2. ReadSpecialFile(p).path = p
  BY DEF ReadSpecialFile
<1>3. ReadSpecialFile(p).readable = (disk[p] # 0)
  BY DEF ReadSpecialFile
<1>4. disk[p] # 0 => ReadSpecialFile(p).content = AtMost(SpecialLimit(p), Versions[p][disk[p]])
  BY DEF ReadSpecialFile
<1> QED BY <1>1, <1>2, <1>3, <1>4

\* What was there stays there: what a call has seen of the index and the disk only grows.
LEMMA StillThere ==
    ASSUME indexSeen.tracked \subseteq indexSeen'.tracked, indexSeen.disk \subseteq indexSeen'.disk,
           NEW inv, WasThere(inv)
    PROVE  WasThere(inv)'
<1>1. \E S \in indexSeen'.tracked : inv.paths = Tracked(S)
  BY DEF WasThere
<1>2. ASSUME NEW i \in DOMAIN inv.special
      PROVE \E v \in 0 .. Len(Versions[inv.special[i].path]) :
                   /\ <<inv.special[i].path, v>> \in indexSeen'.disk
                   /\ inv.special[i].readable = (v # 0)
                   /\ v # 0 => inv.special[i].content =
                                 AtMost(SpecialLimit(inv.special[i].path), Versions[inv.special[i].path][v])
  BY DEF WasThere
<1> QED BY <1>1, <1>2 DEF WasThere

\* The world moves while the call and the cache do not: what they say of it must stay true.
LEMMA WorldMoves ==
    ASSUME MapInv, UNCHANGED <<mapCache, mapCall>>, WorldInv', gitIndex'.plain = gitIndex.plain,
           indexSeen.tracked \subseteq indexSeen'.tracked, indexSeen.disk \subseteq indexSeen'.disk,
           \A inv : AsStamped(inv) => AsStamped(inv)'
    PROVE  MapInv'
<1>1. CacheInv'
  BY DEF MapInv, CacheInv, AsStamped
<1>2. WasThere(mapCall.inventory) => WasThere(mapCall.inventory)'
  <2>1. mapCall.inventory = mapCall'.inventory
    OBVIOUS
  <2> QED BY <2>1, StillThere DEF WasThere
<1>3. WasThere(mapCall.answer.inventory) => WasThere(mapCall.answer.inventory)'
  BY StillThere DEF WasThere
<1>4. AsStamped(mapCall.inventory) => AsStamped(mapCall.inventory)'
  BY DEF AsStamped
<1>5. CallInv'
  BY <1>2, <1>4 DEF MapInv, CallInv
<1>6. MapIsOfThisCall'
  BY <1>3 DEF MapInv, MapIsOfThisCall
<1> QED BY <1>1, <1>5, <1>6 DEF MapInv

\* The two steps of the world.
LEMMA MapGitRewrites ==
    ASSUME MapInv, GitRewritesIndex PROVE MapInv'
<1>1. PICK S \in Retrackings :
        /\ gitIndex' = [gitIndex EXCEPT !.stamp = @ + 1, !.tracked = S]
        /\ indexSeen' = IF mapCall.pc = "idle" THEN indexSeen
                        ELSE [indexSeen EXCEPT !.tracked = @ \cup {S}]
  BY DEF GitRewritesIndex
<1>2. UNCHANGED <<disk, mapCache, mapCall>>
  BY DEF GitRewritesIndex
<1>3. S \in SUBSET DOMAIN RepoFiles
  BY RepoAssumption
<1>4. gitIndex.stamp + 1 \in Nat
  BY DEF MapInv, WorldInv
<1>5. gitIndex' \in [stamp : Nat, tracked : SUBSET DOMAIN RepoFiles, plain : BOOLEAN]
  BY <1>1, <1>3, <1>4 DEF MapInv, WorldInv
<1>6. gitIndex'.stamp = gitIndex.stamp + 1 /\ gitIndex'.plain = gitIndex.plain /\ gitIndex'.tracked = S
  BY <1>1 DEF MapInv, WorldInv
<1>7. /\ indexSeen.tracked \subseteq indexSeen'.tracked /\ indexSeen'.disk = indexSeen.disk
      /\ indexSeen'.tracked \subseteq SUBSET DOMAIN RepoFiles /\ DOMAIN indexSeen' = {"tracked", "disk"}
      /\ mapCall.pc # "idle" => S \in indexSeen'.tracked
  BY <1>1, <1>3 DEF MapInv, WorldInv
<1>8. ASSUME NEW inv, AsStamped(inv) PROVE AsStamped(inv)'
  <2>1. gitIndex.stamp \in Nat
    BY DEF MapInv, WorldInv
  <2>2. inv.stamp \in 0 .. gitIndex.stamp => inv.stamp \in 0 .. (gitIndex.stamp + 1) /\ inv.stamp # gitIndex.stamp + 1
    BY <2>1
  <2> QED BY <1>6, <1>8, <2>2 DEF AsStamped
<1>9. WorldInv'
  BY <1>2, <1>5, <1>6, <1>7 DEF MapInv, WorldInv
<1> QED BY <1>2, <1>6, <1>7, <1>8, <1>9, WorldMoves

LEMMA MapFileChanges ==
    ASSUME MapInv, FileChanges PROVE MapInv'
<1>0. PICK p \in DOMAIN RepoFiles : \E v \in 0 .. Len(Versions[p]) :
        /\ disk' = [disk EXCEPT ![p] = v]
        /\ indexSeen' = IF mapCall.pc = "idle" THEN indexSeen
                        ELSE [indexSeen EXCEPT !.disk = @ \cup {<<p, v>>}]
  BY DEF FileChanges
<1>1. PICK v \in 0 .. Len(Versions[p]) :
        /\ disk' = [disk EXCEPT ![p] = v]
        /\ indexSeen' = IF mapCall.pc = "idle" THEN indexSeen
                        ELSE [indexSeen EXCEPT !.disk = @ \cup {<<p, v>>}]
  BY <1>0
<1>2. UNCHANGED <<gitIndex, mapCache, mapCall>>
  BY DEF FileChanges
<1>3. v \in Nat /\ v <= Len(Versions[p])
  BY RepoAssumption
<1>4. disk' \in [DOMAIN RepoFiles -> Nat] /\ \A q \in DOMAIN disk' : disk'[q] <= Len(Versions[q])
  BY <1>1, <1>3 DEF MapInv, WorldInv
<1>5. /\ indexSeen'.tracked = indexSeen.tracked /\ indexSeen.disk \subseteq indexSeen'.disk
      /\ DOMAIN indexSeen' = {"tracked", "disk"}
      /\ mapCall.pc # "idle" => <<p, v>> \in indexSeen'.disk
  BY <1>1 DEF MapInv, WorldInv
<1>6. mapCall.pc # "idle" => \A q \in DOMAIN disk' : <<q, disk'[q]>> \in indexSeen'.disk
  BY <1>1, <1>5 DEF MapInv, WorldInv
<1>7. WorldInv'
  BY <1>2, <1>4, <1>5, <1>6 DEF MapInv, WorldInv
<1>8. \A inv : AsStamped(inv) => AsStamped(inv)'
  BY <1>2 DEF AsStamped
<1> QED BY <1>2, <1>5, <1>7, <1>8, WorldMoves

\* A call that looks at the world anew sees it as it is.
LEMMA SeenAnew ==
    ASSUME WorldInv, UNCHANGED <<gitIndex, disk>>, indexSeen' = SeenNow
    PROVE  WorldInv'
<1>1. /\ indexSeen'.tracked = {gitIndex.tracked} /\ DOMAIN indexSeen' = {"tracked", "disk"}
      /\ indexSeen'.disk = {<<p, disk[p]>> : p \in DOMAIN disk}
  BY DEF SeenNow
<1>2. gitIndex.tracked \in SUBSET DOMAIN RepoFiles
  BY DEF WorldInv
<1>3. /\ gitIndex \in [stamp : Nat, tracked : SUBSET DOMAIN RepoFiles, plain : BOOLEAN]
      /\ disk \in [DOMAIN RepoFiles -> Nat]
      /\ \A p \in DOMAIN disk : disk[p] <= Len(Versions[p])
  BY DEF WorldInv
<1>4. /\ gitIndex'.tracked \in indexSeen'.tracked /\ \A p \in DOMAIN disk' : <<p, disk'[p]>> \in indexSeen'.disk
      /\ indexSeen'.tracked \subseteq SUBSET DOMAIN RepoFiles
  BY <1>1, <1>2
<1> QED BY <1>1, <1>3, <1>4 DEF WorldInv

\* A call that goes on without having moved.
LEMMA SameWorld ==
    ASSUME WorldInv, UNCHANGED <<gitIndex, disk, indexSeen>>, mapCall.pc # "idle"
    PROVE  WorldInv'
BY DEF WorldInv

LEMMA SameCache ==
    ASSUME CacheInv, UNCHANGED <<gitIndex, mapCache>>
    PROVE  CacheInv'
BY DEF CacheInv, AsStamped

\* A call that neither lists nor has an answer.
LEMMA NothingListed ==
    ASSUME DOMAIN mapCall' = DOMAIN Idle, mapCall'.inventory = NoInventory,
           mapCall'.pc \notin {"stamp", "special", "store", "answered"}
    PROVE  CallInv' /\ MapIsOfThisCall'
BY DEF CallInv, MapIsOfThisCall, NoInventory

\* The steps of a call, one after the other.
LEMMA MapBeginCall ==
    ASSUME MapInv, BeginCall PROVE MapInv'
<1>1. /\ DOMAIN mapCall' = DOMAIN Idle /\ mapCall'.inventory = NoInventory /\ mapCall'.pc = "check"
      /\ indexSeen' = SeenNow /\ UNCHANGED <<gitIndex, disk, mapCache>>
  BY DEF BeginCall, Idle
<1> QED BY <1>1, SeenAnew, SameCache, NothingListed DEF MapInv

\* A cached map that is current lists what the index holds.
LEMMA CurrentWasThere ==
    ASSUME MapInv, mapCall.pc # "idle", mapCache # NoEntry, IsCurrent(mapCache),
           ~mapCache.inventory.listed
    PROVE  WasThere(mapCache.inventory)
<1>1. mapCache.inventory.paths = Tracked(gitIndex.tracked) /\ gitIndex.tracked \in indexSeen.tracked
  BY DEF MapInv, CacheInv, WorldInv, AsStamped, IsCurrent
<1>2. ASSUME NEW i \in DOMAIN mapCache.inventory.special
      PROVE  LET f == mapCache.inventory.special[i]
             IN  \E v \in 0 .. Len(Versions[f.path]) :
                    /\ <<f.path, v>> \in indexSeen.disk
                    /\ f.readable = (v # 0)
                    /\ v # 0 => f.content = AtMost(SpecialLimit(f.path), Versions[f.path][v])
  <2> DEFINE f == mapCache.inventory.special[i]
  <2>1. f.path \in DOMAIN RepoFiles /\ ReadSpecialFile(f.path) = f
    BY DEF MapInv, CacheInv, IsCurrent
  <2> HIDE DEF f
  <2>2. \E v \in 0 .. Len(Versions[f.path]) :
           /\ <<f.path, v>> \in indexSeen.disk
           /\ f.readable = (v # 0)
           /\ v # 0 => f.content = AtMost(SpecialLimit(f.path), Versions[f.path][v])
    BY <2>1, ReadNow
  <2> QED BY <2>2 DEF f
<1> QED BY <1>1, <1>2 DEF WasThere

LEMMA MapCheckCache ==
    ASSUME MapInv, CheckCache PROVE MapInv'
<1>1. UNCHANGED <<gitIndex, disk, mapCache, indexSeen>> /\ mapCall.pc = "check"
  BY DEF CheckCache
<1>2. WorldInv' /\ CacheInv'
  BY <1>1, SameWorld, SameCache DEF MapInv
<1>3. DOMAIN mapCall = DOMAIN Idle /\ DOMAIN mapCall.inventory = DOMAIN NoInventory
  BY DEF MapInv, CallInv
<1>4. CASE mapCache # NoEntry /\ IsCurrent(mapCache)
  <2>1. mapCall' = [mapCall EXCEPT !.pc = "answered", !.answer = mapCache]
    BY <1>4 DEF CheckCache
  <2>2. /\ DOMAIN mapCall' = DOMAIN Idle /\ mapCall'.pc = "answered"
        /\ mapCall'.inventory = mapCall.inventory /\ mapCall'.answer = mapCache
    BY <1>3, <2>1 DEF Idle
  <2>3. CallInv'
    BY <1>3, <2>2 DEF CallInv
  <2>4. ~mapCache.inventory.listed => WasThere(mapCache.inventory)
    BY <1>1, <1>4, CurrentWasThere
  <2>5. MapIsOfThisCall'
    BY <1>1, <2>2, <2>4 DEF MapIsOfThisCall, WasThere
  <2> QED BY <1>2, <2>3, <2>5 DEF MapInv
<1>5. CASE ~(mapCache # NoEntry /\ IsCurrent(mapCache))
  <2>1. mapCall' = [mapCall EXCEPT !.pc = "list", !.inventory = NoInventory]
    BY <1>5 DEF CheckCache
  <2>2. DOMAIN mapCall' = DOMAIN Idle /\ mapCall'.pc = "list" /\ mapCall'.inventory = NoInventory
    BY <1>3, <2>1 DEF Idle
  <2> QED BY <1>2, <2>2, NothingListed DEF MapInv
<1> QED BY <1>4, <1>5

LEMMA MapReadGitIndex ==
    ASSUME MapInv, ReadGitIndex PROVE MapInv'
<1> DEFINE inv == [NoInventory EXCEPT !.paths = Tracked(gitIndex.tracked), !.stamp = gitIndex.stamp]
<1>1. UNCHANGED <<gitIndex, disk, mapCache, indexSeen>> /\ mapCall.pc = "list" /\ gitIndex.plain
  BY DEF ReadGitIndex
<1>2. WorldInv' /\ CacheInv'
  BY <1>1, SameWorld, SameCache DEF MapInv
<1>3. /\ DOMAIN inv = DOMAIN NoInventory /\ inv.paths = Tracked(gitIndex.tracked)
      /\ inv.stamp = gitIndex.stamp /\ inv.listed = FALSE
  BY DEF NoInventory
<1>4. mapCall' = [mapCall EXCEPT !.pc = "special", !.inventory = inv]
  BY DEF ReadGitIndex
<1> HIDE DEF inv
<1>5. DOMAIN mapCall' = DOMAIN Idle /\ mapCall'.pc = "special" /\ mapCall'.inventory = inv
  BY <1>4 DEF MapInv, CallInv, Idle
<1>6. /\ gitIndex.tracked \in indexSeen.tracked /\ gitIndex.stamp \in 0 .. gitIndex.stamp
      /\ FALSE = ~gitIndex.plain
  BY <1>1 DEF MapInv, WorldInv
<1>7. AsStamped(mapCall.inventory)'
  BY <1>1, <1>3, <1>5, <1>6 DEF AsStamped
<1>8. CallInv'
  BY <1>1, <1>3, <1>5, <1>6, <1>7 DEF CallInv
<1> QED BY <1>2, <1>5, <1>8 DEF MapInv, MapIsOfThisCall

LEMMA MapGitLsFiles ==
    ASSUME MapInv, GitLsFiles PROVE MapInv'
<1> DEFINE inv == [NoInventory EXCEPT !.paths = Tracked(gitIndex.tracked), !.listed = TRUE]
<1>1. UNCHANGED <<gitIndex, disk, mapCache, indexSeen>> /\ mapCall.pc = "list" /\ ~gitIndex.plain
  BY DEF GitLsFiles
<1>2. WorldInv' /\ CacheInv'
  BY <1>1, SameWorld, SameCache DEF MapInv
<1>3. /\ DOMAIN inv = DOMAIN NoInventory /\ inv.paths = Tracked(gitIndex.tracked) /\ inv.listed = TRUE
  BY DEF NoInventory
<1>4. mapCall' = [mapCall EXCEPT !.pc = "stamp", !.inventory = inv]
  BY DEF GitLsFiles
<1> HIDE DEF inv
<1>5. DOMAIN mapCall' = DOMAIN Idle /\ mapCall'.pc = "stamp" /\ mapCall'.inventory = inv
  BY <1>4 DEF MapInv, CallInv, Idle
<1>6. gitIndex.tracked \in indexSeen.tracked /\ TRUE = ~gitIndex.plain
  BY <1>1 DEF MapInv, WorldInv
<1>7. CallInv'
  BY <1>1, <1>3, <1>5, <1>6 DEF CallInv
<1> QED BY <1>2, <1>5, <1>7 DEF MapInv, MapIsOfThisCall

LEMMA MapStampIndex ==
    ASSUME MapInv, StampIndex PROVE MapInv'
<1> DEFINE inv == [mapCall.inventory EXCEPT !.stamp = gitIndex.stamp]
<1>1. UNCHANGED <<gitIndex, disk, mapCache, indexSeen>> /\ mapCall.pc = "stamp"
  BY DEF StampIndex
<1>2. WorldInv' /\ CacheInv'
  BY <1>1, SameWorld, SameCache DEF MapInv
<1>3. /\ DOMAIN inv = DOMAIN NoInventory /\ inv.paths = mapCall.inventory.paths
      /\ inv.listed = mapCall.inventory.listed
  BY DEF MapInv, CallInv, NoInventory
<1>4. mapCall' = [mapCall EXCEPT !.pc = "special", !.inventory = inv]
  BY DEF StampIndex
<1> HIDE DEF inv
<1>5. DOMAIN mapCall' = DOMAIN Idle /\ mapCall'.pc = "special" /\ mapCall'.inventory = inv
  BY <1>4 DEF MapInv, CallInv, Idle
<1>6. /\ inv.listed = ~gitIndex.plain
      /\ \E S \in indexSeen.tracked : inv.paths = Tracked(S)
  BY <1>1, <1>3 DEF MapInv, CallInv
<1>7. AsStamped(mapCall.inventory)'
  <2>1. inv.listed
    BY <1>1, <1>3 DEF MapInv, CallInv
  <2> QED BY <1>5, <2>1 DEF AsStamped
<1>8. CallInv'
  BY <1>1, <1>3, <1>5, <1>6, <1>7 DEF CallInv
<1> QED BY <1>2, <1>5, <1>8 DEF MapInv, MapIsOfThisCall

LEMMA MapCollects ==
    ASSUME MapInv, CollectSpecialFiles PROVE MapInv'
<1> DEFINE found == ReadSpecialFiles(mapCall.inventory.paths)
           inv == [mapCall.inventory EXCEPT !.special = found]
<1>1. UNCHANGED <<gitIndex, disk, mapCache, indexSeen>> /\ mapCall.pc = "special"
  BY DEF CollectSpecialFiles
<1>2. WorldInv' /\ CacheInv'
  BY <1>1, SameWorld, SameCache DEF MapInv
<1>3. /\ DOMAIN inv = DOMAIN NoInventory /\ inv.paths = mapCall.inventory.paths
      /\ inv.listed = mapCall.inventory.listed /\ inv.stamp = mapCall.inventory.stamp
      /\ inv.special = found
  BY DEF MapInv, CallInv, NoInventory
<1>4. mapCall' = [mapCall EXCEPT !.pc = "store", !.inventory = inv]
  BY DEF CollectSpecialFiles
<1>5. /\ mapCall.inventory.listed = ~gitIndex.plain /\ AsStamped(mapCall.inventory)
      /\ \E S \in indexSeen.tracked : mapCall.inventory.paths = Tracked(S)
  BY <1>1 DEF MapInv, CallInv
<1>6. mapCall.inventory.paths \in Seq(DOMAIN RepoFiles)
  BY <1>5, TrackedType
<1>7. \A i \in DOMAIN found : \E p \in DOMAIN RepoFiles : found[i] = ReadSpecialFile(p)
  BY <1>6, SpecialType
<1> HIDE DEF inv, found
<1>8. DOMAIN mapCall' = DOMAIN Idle /\ mapCall'.pc = "store" /\ mapCall'.inventory = inv
  BY <1>4 DEF MapInv, CallInv, Idle
<1>9. ASSUME NEW i \in DOMAIN found
      PROVE  /\ found[i].path \in DOMAIN RepoFiles
             /\ \E v \in 0 .. Len(Versions[found[i].path]) :
                  /\ <<found[i].path, v>> \in indexSeen.disk
                  /\ found[i].readable = (v # 0)
                  /\ v # 0 => found[i].content =
                                AtMost(SpecialLimit(found[i].path), Versions[found[i].path][v])
  <2>1. PICK p \in DOMAIN RepoFiles : found[i] = ReadSpecialFile(p)
    BY <1>7
  <2>2. /\ ReadSpecialFile(p).path = p
        /\ \E v \in 0 .. Len(Versions[p]) :
             /\ <<p, v>> \in indexSeen.disk
             /\ ReadSpecialFile(p).readable = (v # 0)
             /\ v # 0 => ReadSpecialFile(p).content = AtMost(SpecialLimit(p), Versions[p][v])
    BY <1>1, ReadNow
  <2> QED BY <2>1, <2>2
<1>10. WasThere(inv)
  BY <1>3, <1>5, <1>9 DEF WasThere
<1>11. WasThere(mapCall.inventory)'
  BY <1>1, <1>8, <1>10 DEF WasThere
<1>12. AsStamped(mapCall.inventory)'
  BY <1>1, <1>3, <1>5, <1>8 DEF AsStamped
<1>13. CallInv'
  BY <1>1, <1>3, <1>5, <1>8, <1>9, <1>11, <1>12 DEF CallInv
<1> QED BY <1>2, <1>8, <1>13 DEF MapInv, MapIsOfThisCall

\* An entry with the same fingerprint lists the same paths and the same contents.
LEMMA SameFingerprint ==
    ASSUME NEW a, NEW b, Fingerprint(a) = Fingerprint(b), WasThere(b)
    PROVE  WasThere(a)
<1>1. a.paths = b.paths /\ a.special = b.special
  BY DEF Fingerprint
<1> QED BY <1>1 DEF WasThere

LEMMA MapStores ==
    ASSUME MapInv, StoreSnapshot PROVE MapInv'
<1> DEFINE inv == mapCall.inventory
           known == mapCache # NoEntry /\ Fingerprint(mapCache.inventory) = Fingerprint(inv)
           entry == IF known THEN mapCache ELSE [inventory |-> inv, map |-> BuildSnapshot(inv)]
<1>1. UNCHANGED <<gitIndex, disk, indexSeen>> /\ mapCall.pc = "store" /\ mapCache' = entry
  BY DEF StoreSnapshot
<1>2. mapCall' = [mapCall EXCEPT !.pc = "answered", !.answer = entry, !.inventory = NoInventory]
  BY DEF StoreSnapshot
<1>3. /\ AsStamped(inv) /\ inv.listed = ~gitIndex.plain /\ WasThere(inv)
      /\ \A i \in DOMAIN inv.special : inv.special[i].path \in DOMAIN RepoFiles
  BY <1>1 DEF MapInv, CallInv
<1>4. /\ AsStamped(entry.inventory) /\ entry.inventory.listed = ~gitIndex.plain
      /\ WasThere(entry.inventory)
      /\ \A i \in DOMAIN entry.inventory.special : entry.inventory.special[i].path \in DOMAIN RepoFiles
  <2>1. CASE known
    <3>1. entry = mapCache /\ WasThere(mapCache.inventory)
      BY <1>3, <2>1, SameFingerprint
    <3>2. /\ AsStamped(mapCache.inventory) /\ mapCache.inventory.listed = ~gitIndex.plain
          /\ \A i \in DOMAIN mapCache.inventory.special :
                mapCache.inventory.special[i].path \in DOMAIN RepoFiles
      BY <2>1 DEF MapInv, CacheInv
    <3> HIDE DEF entry
    <3> QED BY <3>1, <3>2
  <2>2. CASE ~known
    <3>1. entry.inventory = inv
      BY <2>2
    <3> HIDE DEF entry, inv
    <3> QED BY <1>3, <3>1
  <2> QED BY <2>1, <2>2
<1> HIDE DEF entry
<1>5. /\ DOMAIN mapCall' = DOMAIN Idle /\ mapCall'.pc = "answered" /\ mapCall'.answer = entry
      /\ mapCall'.inventory = NoInventory
  BY <1>2 DEF MapInv, CallInv, Idle
<1>6. WorldInv'
  BY <1>1, SameWorld DEF MapInv
<1>7. CacheInv'
  BY <1>1, <1>4 DEF CacheInv, AsStamped
<1>8. CallInv'
  BY <1>5 DEF CallInv
<1>9. MapIsOfThisCall'
  BY <1>1, <1>4, <1>5 DEF MapIsOfThisCall, WasThere
<1> QED BY <1>6, <1>7, <1>8, <1>9 DEF MapInv

LEMMA MapSelects ==
    ASSUME MapInv, SelectFromMap PROVE MapInv'
<1> DEFINE chosen == SelectPaths(mapCall.answer.map, mapCall.terms)
           held == SelectSeq(chosen, LAMBDA s : s.kind \in {"file", "test"})
           paths == AtMost(MaxSymbolFiles, [i \in DOMAIN held |-> held[i].path])
           next == IF paths = <<>> THEN "search" ELSE "check"
<1>1. UNCHANGED <<gitIndex, disk, mapCache>> /\ indexSeen' = SeenNow /\ mapCall.pc = "answered"
  BY DEF SelectFromMap
<1>2. mapCall' = [mapCall EXCEPT !.op = "symbols", !.result = chosen, !.targets = ToSet(paths),
                                 !.todo = paths \o paths, !.pc = next]
  BY DEF SelectFromMap
<1>3. next \in {"search", "check"}
  OBVIOUS
<1> HIDE DEF chosen, paths, next
<1>4. DOMAIN mapCall' = DOMAIN Idle /\ mapCall'.pc = next /\ mapCall'.inventory = mapCall.inventory
  BY <1>2 DEF MapInv, CallInv, Idle
<1>5. CallInv' /\ MapIsOfThisCall'
  BY <1>3, <1>4 DEF MapInv, CallInv, MapIsOfThisCall
<1> QED BY <1>1, <1>5, SeenAnew, SameCache DEF MapInv

LEMMA MapIndexes ==
    ASSUME MapInv, IndexTarget PROVE MapInv'
<1> DEFINE next == IF Len(mapCall.todo) = 1 THEN "search" ELSE "check"
<1>1. UNCHANGED <<gitIndex, disk, mapCache>> /\ indexSeen' = SeenNow
  BY DEF IndexTarget
<1>2. mapCall' = [mapCall EXCEPT !.todo = Tail(@), !.answer = NoEntry, !.pc = next]
  BY DEF IndexTarget
<1>3. next \in {"search", "check"}
  OBVIOUS
<1> HIDE DEF next
<1>4. DOMAIN mapCall' = DOMAIN Idle /\ mapCall'.pc = next /\ mapCall'.inventory = mapCall.inventory
  BY <1>2 DEF MapInv, CallInv, Idle
<1>5. CallInv' /\ MapIsOfThisCall'
  BY <1>3, <1>4 DEF MapInv, CallInv, MapIsOfThisCall
<1> QED BY <1>1, <1>5, SeenAnew, SameCache DEF MapInv

LEMMA MapSearches ==
    ASSUME MapInv, SearchSymbols PROVE MapInv'
<1> DEFINE found == SelectWithSymbols(mapCall.result, symbolIndex, mapCall.targets, mapCall.terms)
<1>1. UNCHANGED <<gitIndex, disk, mapCache, indexSeen>> /\ mapCall.pc = "search"
  BY DEF SearchSymbols
<1>2. mapCall' = [mapCall EXCEPT !.pc = "done", !.result = found]
  BY DEF SearchSymbols
<1> HIDE DEF found
<1>3. DOMAIN mapCall' = DOMAIN Idle /\ mapCall'.pc = "done" /\ mapCall'.inventory = mapCall.inventory
  BY <1>2 DEF MapInv, CallInv, Idle
<1>4. CallInv' /\ MapIsOfThisCall'
  BY <1>3 DEF MapInv, CallInv, MapIsOfThisCall
<1> QED BY <1>1, <1>4, SameWorld, SameCache DEF MapInv

LEMMA MapEnds ==
    ASSUME MapInv, EndCall PROVE MapInv'
<1>1. /\ UNCHANGED <<gitIndex, disk, mapCache>> /\ mapCall' = Idle
      /\ indexSeen' = [tracked |-> {}, disk |-> {}]
  BY DEF EndCall
<1>2. WorldInv'
  BY <1>1 DEF MapInv, WorldInv, Idle
<1>3. CallInv' /\ MapIsOfThisCall'
  BY <1>1, NothingListed DEF Idle
<1> QED BY <1>1, <1>2, <1>3, SameCache DEF MapInv

LEMMA MapInvalidates ==
    ASSUME MapInv, Invalidate PROVE MapInv'
<1>1. UNCHANGED <<gitIndex, disk, mapCall, indexSeen>> /\ mapCache' = NoEntry
  BY DEF Invalidate
<1>2. CacheInv'
  BY <1>1 DEF CacheInv
<1>3. WorldInv'
  BY <1>1 DEF MapInv, WorldInv
<1>4. CallInv' /\ MapIsOfThisCall'
  BY <1>1 DEF MapInv, CallInv, MapIsOfThisCall, AsStamped, WasThere
<1> QED BY <1>2, <1>3, <1>4 DEF MapInv

(* Whatever git, the user and the tools do while a call lists, reads and      *)
(* stores, and whatever the cache held before: the map it gets, when the      *)
(* index was read by the program itself, is of that call (RepoMap::snapshot). *)
THEOREM MapInvHolds == RepoSpec => []MapInv
<1>1. RepoInit => MapInv
  <2> SUFFICES ASSUME RepoInit PROVE MapInv
    OBVIOUS
  <2>1. /\ gitIndex \in [stamp : {1}, tracked : {FirstTracked}, plain : BOOLEAN]
        /\ disk = [p \in DOMAIN RepoFiles |-> 1] /\ mapCache = NoEntry /\ mapCall = Idle
        /\ indexSeen = [tracked |-> {}, disk |-> {}]
    BY DEF RepoInit
  <2>2. WorldInv
    <3>1. FirstTracked \in SUBSET DOMAIN RepoFiles
      BY RepoAssumption
    <3>2. gitIndex \in [stamp : Nat, tracked : SUBSET DOMAIN RepoFiles, plain : BOOLEAN]
      BY <2>1, <3>1
    <3>3. disk \in [DOMAIN RepoFiles -> Nat] /\ \A p \in DOMAIN disk : disk[p] <= Len(Versions[p])
      BY <2>1, RepoAssumption
    <3> QED BY <2>1, <3>2, <3>3 DEF WorldInv, Idle
  <2>3. CacheInv /\ CallInv /\ MapIsOfThisCall
    BY <2>1 DEF CacheInv, CallInv, MapIsOfThisCall, Idle
  <2> QED BY <2>2, <2>3 DEF MapInv
<1>2. MapInv /\ [RepoNext]_repoVars => MapInv'
  <2> SUFFICES ASSUME MapInv, [RepoNext]_repoVars PROVE MapInv'
    OBVIOUS
  <2>1. CASE UNCHANGED repoVars
    BY <2>1 DEF repoVars, MapInv, WorldInv, CacheInv, CallInv, MapIsOfThisCall, AsStamped, WasThere
  <2>2. CASE GitRewritesIndex
    BY <2>2, MapGitRewrites
  <2>3. CASE FileChanges
    BY <2>3, MapFileChanges
  <2>4. CASE BeginCall
    BY <2>4, MapBeginCall
  <2>5. CASE CheckCache
    BY <2>5, MapCheckCache
  <2>6. CASE ReadGitIndex
    BY <2>6, MapReadGitIndex
  <2>7. CASE GitLsFiles
    BY <2>7, MapGitLsFiles
  <2>8. CASE StampIndex
    BY <2>8, MapStampIndex
  <2>9. CASE CollectSpecialFiles
    BY <2>9, MapCollects
  <2>10. CASE StoreSnapshot
    BY <2>10, MapStores
  <2>11. CASE SelectFromMap
    BY <2>11, MapSelects
  <2>12. CASE IndexTarget
    BY <2>12, MapIndexes
  <2>13. CASE SearchSymbols
    BY <2>13, MapSearches
  <2>14. CASE EndCall
    BY <2>14, MapEnds
  <2>15. CASE Invalidate
    BY <2>15, MapInvalidates
  <2> QED BY <2>1, <2>2, <2>3, <2>4, <2>5, <2>6, <2>7, <2>8, <2>9, <2>10, <2>11, <2>12, <2>13,
             <2>14, <2>15 DEF RepoNext
<1> QED BY <1>1, <1>2, PTL DEF RepoSpec

(* The map that an answered call holds lists the paths the index had, and     *)
(* shows the special files as they were, at some moment of that call          *)
(* (RepoMap::snapshot, CacheEntry::is_current, collect_inventory).            *)
THEOREM MapsAreOfTheirCalls == RepoSpec => []MapIsOfThisCall
<1>1. MapInv => MapIsOfThisCall
  BY DEF MapInv
<1> QED BY <1>1, MapInvHolds, PTL

(***************************************************************************)
(* The relationship index.  Held is RelationsAreOfRetainedFiles of an      *)
(* index and the files it retains.                                         *)
(***************************************************************************)
NamesItsKey(e, k, file) ==
    e.sym # 0 => /\ e.sym \in DOMAIN file.syms
                 /\ e.kind \in {"definition", "module"} => file.syms[e.sym].name = k

HeldBy(r, held) ==
    /\ DOMAIN r = {"byKey", "contributions", "stems"}
    /\ \A k \in DOMAIN r.byKey : \A e \in r.byKey[k] :
          /\ e.path \in DOMAIN held
          /\ [key |-> k, evidence |-> e] \in Under(r.contributions, e.path)
          /\ NamesItsKey(e, k, held[e.path])

\* Held of the index as it is, it is the property.
LEMMA PropertyIsHeld ==
    ASSUME HeldBy(symbolIndex.relations, symbolIndex.files)
    PROVE  RelationsAreOfRetainedFiles
BY DEF HeldBy, NamesItsKey, RelationsAreOfRetainedFiles

\* Removing a file takes all of its evidence away and nothing else.
LEMMA RemovalHolds ==
    ASSUME NEW r, NEW held, NEW more, HeldBy(r, held), NEW path,
           \A p \in DOMAIN held \ {path} : p \in DOMAIN more /\ more[p] = held[p]
    PROVE  HeldBy(RemoveRelations(r, path), more)
<1> DEFINE gone == Under(r.contributions, path)
           left == [k \in DOMAIN r.byKey |-> {e \in r.byKey[k] : [key |-> k, evidence |-> e] \notin gone}]
           s == RemoveRelations(r, path)
<1>1. s = [byKey |-> [k \in {k \in DOMAIN left : left[k] # {}} |-> left[k]],
           contributions |-> WithEntry(r.contributions, path, {}),
           stems |-> Removed(r.stems, path)]
  BY DEF RemoveRelations
<1>2. s.contributions = [y \in DOMAIN r.contributions \ {path} |-> r.contributions[y]]
  BY <1>1 DEF WithEntry, Removed
<1>3. \A k \in DOMAIN s.byKey : /\ k \in DOMAIN r.byKey
                                /\ s.byKey[k] = {e \in r.byKey[k] : [key |-> k, evidence |-> e] \notin gone}
  <2>1. /\ DOMAIN left = DOMAIN r.byKey
        /\ \A k \in DOMAIN left : left[k] = {e \in r.byKey[k] : [key |-> k, evidence |-> e] \notin gone}
    OBVIOUS
  <2>2. s.byKey = [k \in {k \in DOMAIN left : left[k] # {}} |-> left[k]]
    BY <1>1
  <2> HIDE DEF s, left, gone
  <2>3. \A k \in DOMAIN s.byKey : k \in DOMAIN left /\ s.byKey[k] = left[k]
    BY <2>2
  <2> QED BY <2>1, <2>3
<1>4. DOMAIN s = {"byKey", "contributions", "stems"}
  BY <1>1
<1> HIDE DEF s
<1>5. ASSUME NEW k \in DOMAIN s.byKey, NEW e \in s.byKey[k]
      PROVE  /\ e.path \in DOMAIN more
             /\ [key |-> k, evidence |-> e] \in Under(s.contributions, e.path)
             /\ NamesItsKey(e, k, more[e.path])
  <2>1. k \in DOMAIN r.byKey /\ e \in r.byKey[k] /\ [key |-> k, evidence |-> e] \notin gone
    BY <1>3
  <2>2. /\ e.path \in DOMAIN held /\ [key |-> k, evidence |-> e] \in Under(r.contributions, e.path)
        /\ NamesItsKey(e, k, held[e.path])
    BY <2>1 DEF HeldBy
  <2>3. e.path # path
    BY <2>1, <2>2
  <2>4. Under(s.contributions, e.path) = Under(r.contributions, e.path)
    BY <1>2, <2>3 DEF Under
  <2> QED BY <2>2, <2>3, <2>4
<1> QED BY <1>4, <1>5 DEF HeldBy, s

\* The fan-out only cuts off.
LEMMA FirstOfIsSubset ==
    ASSUME NEW S PROVE FirstOf(S, EvidenceBefore) \subseteq S
BY DEF FirstOf

\* A contribution of a retained file keeps the index of retained files.
LEMMA ContributionHolds ==
    ASSUME NEW r, NEW held, HeldBy(r, held), NEW key, NEW path, NEW sym, NEW kind,
           path \in DOMAIN held,
           NamesItsKey([path |-> path, sym |-> sym, kind |-> kind], key, held[path])
    PROVE  HeldBy(AddContribution(r, Contribution(key, path, sym, kind)), held)
<1> DEFINE ev == [path |-> path, sym |-> sym, kind |-> kind]
           c == Contribution(key, path, sym, kind)
           old == Under(r.byKey, key)
           kept == IF ev \in old THEN old ELSE FirstOf(old \cup {ev}, EvidenceBefore)
           given == Under(r.contributions, path) \cup IF ev \in kept THEN {c} ELSE {}
           s == [r EXCEPT !.byKey = WithEntry(@, key, kept),
                          !.contributions = WithEntry(@, path, given)]
<1>1. c = [key |-> key, evidence |-> ev] /\ c.key = key /\ c.evidence = ev /\ ev.path = path
  BY DEF Contribution
<1>2. CASE key = <<>>
  <2>1. AddContribution(r, c) = r
    BY <1>1, <1>2 DEF AddContribution
  <2> QED BY <2>1
<1>3. CASE key # <<>>
  <2>1. AddContribution(r, c) = s
    BY <1>1, <1>3 DEF AddContribution
  <2>2. kept \subseteq old \cup {ev}
    BY FirstOfIsSubset
  <2>3. /\ Under(r.contributions, path) \subseteq given
        /\ ev \in kept => [key |-> key, evidence |-> ev] \in given
    BY <1>1
  <2> HIDE DEF kept, given
  <2>4. /\ DOMAIN s = {"byKey", "contributions", "stems"}
        /\ s.byKey = WithEntry(r.byKey, key, kept) /\ s.contributions = WithEntry(r.contributions, path, given)
    BY DEF HeldBy
  <2> HIDE DEF s, c, ev, old
  <2>5. \A p : Under(r.contributions, p) \subseteq Under(s.contributions, p)
    BY <2>3, <2>4 DEF Under, WithEntry, Inserted, Removed
  <2>6. given \subseteq Under(s.contributions, path)
    BY <2>4 DEF Under, WithEntry, Inserted, Removed
  <2>7. ASSUME NEW k \in DOMAIN s.byKey, NEW e \in s.byKey[k]
        PROVE  \/ k \in DOMAIN r.byKey /\ e \in r.byKey[k]
               \/ k = key /\ e = ev /\ ev \in kept
    <3>1. CASE k = key
      <4>1. kept # {} /\ s.byKey[k] = kept
        BY <2>4, <2>7, <3>1 DEF WithEntry, Inserted, Removed
      <4>2. e \in old \/ e = ev
        BY <2>2, <2>7, <4>1
      <4>3. e \in old => k \in DOMAIN r.byKey /\ e \in r.byKey[k]
        BY <3>1 DEF old, Under
      <4> QED BY <2>7, <3>1, <4>1, <4>2, <4>3
    <3>2. CASE k # key
      <4>1. k \in DOMAIN r.byKey /\ s.byKey[k] = r.byKey[k]
        BY <2>4, <2>7, <3>2 DEF WithEntry, Inserted, Removed
      <4> QED BY <2>7, <4>1
    <3> QED BY <3>1, <3>2
  <2>8. ASSUME NEW k \in DOMAIN s.byKey, NEW e \in s.byKey[k]
        PROVE  /\ e.path \in DOMAIN held
               /\ [key |-> k, evidence |-> e] \in Under(s.contributions, e.path)
               /\ NamesItsKey(e, k, held[e.path])
    <3>1. CASE k \in DOMAIN r.byKey /\ e \in r.byKey[k]
      <4>1. /\ e.path \in DOMAIN held /\ NamesItsKey(e, k, held[e.path])
            /\ [key |-> k, evidence |-> e] \in Under(r.contributions, e.path)
        BY <3>1 DEF HeldBy
      <4> QED BY <2>5, <4>1
    <3>2. CASE k = key /\ e = ev /\ ev \in kept
      <4>1. ev.path = path /\ NamesItsKey(ev, key, held[path])
        BY <1>1 DEF ev
      <4> QED BY <2>3, <2>6, <3>2, <4>1
    <3> QED BY <2>7, <2>8, <3>1, <3>2
  <2>9. HeldBy(s, held)
    BY <2>4, <2>8 DEF HeldBy
  <2> QED BY <2>1, <2>9 DEF c
<1> QED BY <1>2, <1>3

(* The loops of insert_file as functions.                                  *)
AddsEach(added, r, list, N) ==
    added = [n \in 0 .. N |-> IF n = 0 THEN r ELSE AddContribution(added[n - 1], list[n])]

AddsLists(added, r, lists, N) ==
    added = [n \in 0 .. N |->
                IF n = 0 THEN r
                ELSE IF n \in DOMAIN lists THEN AddContributions(added[n - 1], lists[n]) ELSE added[n - 1]]

\* The loops of insert_file exist as functions, for every length and limit.
LEMMA AddsEachExists ==
    ASSUME NEW r, NEW list, NEW N \in Nat
    PROVE  \E g : AddsEach(g, r, list, N)
<1> DEFINE T == {n \in Nat : \E g : AddsEach(g, r, list, n)}
<1>1. 0 \in T
  <2> DEFINE g == [m \in 0 .. 0 |-> r]
  <2>1. g = [m \in 0 .. 0 |-> IF m = 0 THEN r ELSE AddContribution(g[m - 1], list[m])]
    OBVIOUS
  <2> HIDE DEF g
  <2>2. AddsEach(g, r, list, 0)
    BY <2>1 DEF AddsEach
  <2> QED BY <2>2
<1>2. ASSUME NEW n \in Nat, n \in T PROVE n + 1 \in T
  <2>1. PICK f : AddsEach(f, r, list, n)
    BY <1>2
  <2> DEFINE more == AddContribution(f[n], list[n + 1])
             g == [m \in 0 .. (n + 1) |-> IF m <= n THEN f[m] ELSE more]
             next(h, m) == IF m = 0 THEN r ELSE AddContribution(h[m - 1], list[m])
  <2>2. \A m \in 0 .. n : f[m] = next(f, m)
    BY <2>1 DEF AddsEach
  <2>3. (\A m \in 0 .. n : g[m] = f[m]) /\ g[n + 1] = more
    OBVIOUS
  <2>4. DOMAIN g = 0 .. (n + 1) /\ g = [m \in 0 .. (n + 1) |-> g[m]]
    OBVIOUS
  <2>5. \A m \in 0 .. (n + 1) : g[m] = next(g, m)
    <3> TAKE m \in 0 .. (n + 1)
    <3> HIDE DEF g
    <3>1. CASE m = n + 1
      <4>1. m # 0 /\ m - 1 = n /\ n \in 0 .. n
        BY <3>1
      <4> QED BY <3>1, <4>1, <2>3
    <3>2. CASE m \in 0 .. n
      <4>1. m = 0 \/ m - 1 \in 0 .. n
        BY <3>2
      <4>2. m = 0 => next(f, m) = next(g, m)
        OBVIOUS
      <4>3. m - 1 \in 0 .. n => f[m - 1] = g[m - 1]
        BY <2>3
      <4> HIDE DEF more
      <4> QED BY <3>2, <4>1, <4>2, <4>3, <2>2, <2>3
    <3> QED BY <3>1, <3>2
  <2> HIDE DEF g
  <2>6. AddsEach(g, r, list, n + 1)
    BY <2>4, <2>5 DEF AddsEach
  <2> QED BY <2>6
<1>3. N \in T
  <2> HIDE DEF T
  <2> QED BY <1>1, <1>2, Induction
<1> QED BY <1>3

LEMMA AddsListsExists ==
    ASSUME NEW r, NEW lists, NEW N \in Nat
    PROVE  \E g : AddsLists(g, r, lists, N)
<1> DEFINE T == {n \in Nat : \E g : AddsLists(g, r, lists, n)}
           next(h, m) ==
               IF m = 0 THEN r
               ELSE IF m \in DOMAIN lists THEN AddContributions(h[m - 1], lists[m]) ELSE h[m - 1]
<1>1. 0 \in T
  <2> DEFINE g == [m \in 0 .. 0 |-> r]
  <2>1. g = [m \in 0 .. 0 |-> next(g, m)]
    OBVIOUS
  <2> HIDE DEF g
  <2>2. AddsLists(g, r, lists, 0)
    BY <2>1 DEF AddsLists
  <2> QED BY <2>2
<1>2. ASSUME NEW n \in Nat, n \in T PROVE n + 1 \in T
  <2>1. PICK f : AddsLists(f, r, lists, n)
    BY <1>2
  <2> DEFINE more == next(f, n + 1)
             g == [m \in 0 .. (n + 1) |-> IF m <= n THEN f[m] ELSE more]
  <2>2. \A m \in 0 .. n : f[m] = next(f, m)
    BY <2>1 DEF AddsLists
  <2>3. (\A m \in 0 .. n : g[m] = f[m]) /\ g[n + 1] = more
    <3> HIDE DEF more
    <3> QED OBVIOUS
  <2>4. DOMAIN g = 0 .. (n + 1) /\ g = [m \in 0 .. (n + 1) |-> g[m]]
    <3> HIDE DEF more
    <3> QED OBVIOUS
  <2>5. \A m \in 0 .. (n + 1) : g[m] = next(g, m)
    <3> TAKE m \in 0 .. (n + 1)
    <3> HIDE DEF g
    <3>1. CASE m = n + 1
      <4>1. m # 0 /\ m - 1 = n /\ n \in 0 .. n /\ (n + 1) - 1 = n
        BY <3>1
      <4>2. g[m - 1] = f[(n + 1) - 1]
        BY <4>1, <2>3
      <4>3. next(g, m) = next(f, n + 1)
        BY <3>1, <4>2
      <4> QED BY <3>1, <4>3, <2>3
    <3>2. CASE m \in 0 .. n
      <4>1. m = 0 \/ m - 1 \in 0 .. n
        BY <3>2
      <4>2. m = 0 => next(f, m) = next(g, m)
        OBVIOUS
      <4>3. m - 1 \in 0 .. n => f[m - 1] = g[m - 1]
        BY <2>3
      <4>4. next(f, m) = next(g, m)
        BY <4>1, <4>2, <4>3
      <4> HIDE DEF more, next
      <4> QED BY <3>2, <4>4, <2>2, <2>3
    <3> QED BY <3>1, <3>2
  <2> HIDE DEF g
  <2>6. AddsLists(g, r, lists, n + 1)
    BY <2>4, <2>5 DEF AddsLists
  <2> QED BY <2>6
<1>3. N \in T
  <2> HIDE DEF T
  <2> QED BY <1>1, <1>2, Induction
<1> QED BY <1>3

\* A contribution that a file can make.
IsOf(c, held) ==
    \E key, path, sym, kind :
        /\ c = Contribution(key, path, sym, kind) /\ path \in DOMAIN held
        /\ NamesItsKey([path |-> path, sym |-> sym, kind |-> kind], key, held[path])

\* So do all the contributions of a list, and those of every list.
LEMMA ListHolds ==
    ASSUME NEW r, NEW held, HeldBy(r, held), NEW list, Len(list) \in Nat,
           \A i \in 1 .. Len(list) : IsOf(list[i], held)
    PROVE  HeldBy(AddContributions(r, list), held)
<1> DEFINE N == Len(list)
           added == CHOOSE g : AddsEach(g, r, list, N)
<1>1. AddsEach(added, r, list, N)
  BY AddsEachExists
<1>2. AddContributions(r, list) = added[N]
  BY DEF AddContributions, AddsEach
<1> HIDE DEF added
<1>3. \A n \in 0 .. N : added[n] = IF n = 0 THEN r ELSE AddContribution(added[n - 1], list[n])
  BY <1>1 DEF AddsEach
<1> DEFINE T == {n \in Nat : n <= N => HeldBy(added[n], held)}
<1>4. 0 \in T
  <2>1. added[0] = r
    BY <1>3
  <2> QED BY <2>1
<1>5. ASSUME NEW n \in Nat, n \in T PROVE n + 1 \in T
  <2> SUFFICES ASSUME n + 1 <= N PROVE HeldBy(added[n + 1], held)
    OBVIOUS
  <2>1. n <= N /\ n + 1 \in 0 .. N /\ n + 1 \in 1 .. N /\ (n + 1) - 1 = n /\ n + 1 # 0
    OBVIOUS
  <2>2. HeldBy(added[n], held)
    BY <1>5, <2>1
  <2>3. added[n + 1] = AddContribution(added[n], list[n + 1])
    BY <1>3, <2>1
  <2>4. IsOf(list[n + 1], held)
    BY <2>1
  <2> QED BY <2>2, <2>3, <2>4, ContributionHolds DEF IsOf
<1>6. N \in T
  <2> HIDE DEF T
  <2> QED BY <1>4, <1>5, Induction
<1> QED BY <1>2, <1>6

LEMMA ListsHold ==
    ASSUME NEW r, NEW held, HeldBy(r, held), NEW lists, NEW N \in Nat,
           \A i \in DOMAIN lists : /\ Len(lists[i]) \in Nat
                                   /\ \A j \in 1 .. Len(lists[i]) : IsOf(lists[i][j], held)
    PROVE  HeldBy(AddLists(r, lists, N), held)
<1> DEFINE added == CHOOSE g : AddsLists(g, r, lists, N)
<1>1. AddsLists(added, r, lists, N)
  BY AddsListsExists
<1>2. AddLists(r, lists, N) = added[N]
  BY DEF AddLists, AddsLists
<1> HIDE DEF added
<1>3. \A n \in 0 .. N : added[n] =
         IF n = 0 THEN r
         ELSE IF n \in DOMAIN lists THEN AddContributions(added[n - 1], lists[n]) ELSE added[n - 1]
  BY <1>1 DEF AddsLists
<1> DEFINE T == {n \in Nat : n <= N => HeldBy(added[n], held)}
<1>4. 0 \in T
  <2>1. added[0] = r
    BY <1>3
  <2> QED BY <2>1
<1>5. ASSUME NEW n \in Nat, n \in T PROVE n + 1 \in T
  <2> SUFFICES ASSUME n + 1 <= N PROVE HeldBy(added[n + 1], held)
    OBVIOUS
  <2>1. n <= N /\ n + 1 \in 0 .. N /\ (n + 1) - 1 = n /\ n + 1 # 0
    OBVIOUS
  <2>2. HeldBy(added[n], held)
    BY <1>5, <2>1
  <2>3. added[n + 1] = IF n + 1 \in DOMAIN lists THEN AddContributions(added[n], lists[n + 1]) ELSE added[n]
    BY <1>3, <2>1
  <2>4. n + 1 \in DOMAIN lists => HeldBy(AddContributions(added[n], lists[n + 1]), held)
    BY <2>2, ListHolds
  <2> QED BY <2>2, <2>3, <2>4
<1>6. N \in T
  <2> HIDE DEF T
  <2> QED BY <1>4, <1>5, Induction
<1> QED BY <1>2, <1>6

\* A list of what a file contributes.
ListOf(list, held) == Len(list) \in Nat /\ \A j \in 1 .. Len(list) : IsOf(list[j], held)

\* A list over contributions of retained files.
LEMMA ListsOfMembers ==
    ASSUME NEW held, NEW S, \A x \in S : IsOf(x, held), NEW list \in Seq(S)
    PROVE  ListOf(list, held)
<1>1. Len(list) \in Nat /\ \A j \in 1 .. Len(list) : list[j] \in S
  OBVIOUS
<1> QED BY <1>1 DEF ListOf

\* What a symbol and what a relation of a file contributes is evidence of that file.
LEMMA SymbolsAreOf ==
    ASSUME NEW file, NEW held, file.path \in DOMAIN held, held[file.path] = file,
           NEW i \in DOMAIN file.syms
    PROVE  ListOf(SymbolContributions(file, i), held)
<1> DEFINE s == file.syms[i]
           kind == CASE s.kind = "module" -> "module" [] s.kind # "module" /\ s.test -> "test"
                     [] OTHER -> "definition"
           own == Contribution(s.name, file.path, i, kind)
           other == Contribution(s.container, file.path, i, "implementation")
<1>1. IsOf(own, held)
  <2>1. NamesItsKey([path |-> file.path, sym |-> i, kind |-> kind], s.name, held[file.path])
    BY DEF NamesItsKey
  <2> HIDE DEF kind, s
  <2> QED BY <2>1 DEF IsOf
<1>2. IsOf(other, held)
  <2>1. NamesItsKey([path |-> file.path, sym |-> i, kind |-> "implementation"], s.container, held[file.path])
    BY DEF NamesItsKey
  <2> HIDE DEF s
  <2> QED BY <2>1 DEF IsOf
<1>3. SymbolContributions(file, i) = CASE s.kind = "import" -> <<>>
         [] s.kind = "method" /\ s.container # <<>> -> Append(<<own>>, other)
         [] OTHER -> <<own>>
  BY DEF SymbolContributions
<1> HIDE DEF own, other, s
<1> DEFINE S == {own, other}
<1>4. <<>> \in Seq(S) /\ <<own>> \in Seq(S) /\ Append(<<own>>, other) \in Seq(S)
  OBVIOUS
<1>5. SymbolContributions(file, i) \in {<<>>, <<own>>, Append(<<own>>, other)}
  BY <1>3, Zenon
<1>6. SymbolContributions(file, i) \in Seq(S)
  BY <1>4, <1>5
<1>7. \A x \in S : IsOf(x, held)
  BY <1>1, <1>2
<1> HIDE DEF S
<1> QED BY <1>6, <1>7, ListsOfMembers

LEMMA RelationsAreOf ==
    ASSUME NEW file, NEW held, file.path \in DOMAIN held, held[file.path] = file,
           NEW testFile, NEW rel
    PROVE  ListOf(RelationContributions(file, testFile, rel), held)
<1> DEFINE named == {i \in 1 .. MaxSymbolsPerFile : i \in DOMAIN file.syms /\ file.syms[i].name = rel.from}
           owner == IF named = {} THEN 0 ELSE CHOOSE i \in named : \A j \in named : i <= j
           test == testFile \/ (owner # 0 /\ file.syms[owner].test)
           last == <<Last(rel.to)>>
           a == Contribution(rel.to, file.path, owner, IF test THEN "test" ELSE "caller")
           b == Contribution(rel.to, file.path, owner, "implementation")
           c == Contribution(rel.to, file.path, owner, "dependency")
           d == Contribution(last, file.path, owner, "dependency")
           e == Contribution(rel.from, file.path, owner, "import")
           list == RelationContributions(file, testFile, rel)
<1>1. owner # 0 => owner \in DOMAIN file.syms
  <2>1. named \subseteq Nat
    BY SymbolAssumption
  <2>2. \A i \in named : i \in DOMAIN file.syms
    OBVIOUS
  <2>3. named # {} => \E i \in named : \A j \in named : i <= j
    BY <2>1, NatLeast
  <2> HIDE DEF named
  <2> QED BY <2>2, <2>3
<1> HIDE DEF named, owner
<1>2. ASSUME NEW key, NEW kind, kind \notin {"definition", "module"}
      PROVE  IsOf(Contribution(key, file.path, owner, kind), held)
  <2>1. NamesItsKey([path |-> file.path, sym |-> owner, kind |-> kind], key, held[file.path])
    BY <1>1, <1>2 DEF NamesItsKey
  <2> QED BY <2>1 DEF IsOf
<1>3. IsOf(a, held) /\ IsOf(b, held) /\ IsOf(c, held) /\ IsOf(d, held) /\ IsOf(e, held)
  <2>1. IsOf(a, held)
    <3> HIDE DEF test
    <3>1. (IF test THEN "test" ELSE "caller") \notin {"definition", "module"}
      OBVIOUS
    <3> QED BY <1>2, <3>1
  <2>2. IsOf(b, held) /\ IsOf(c, held) /\ IsOf(d, held) /\ IsOf(e, held)
    BY <1>2
  <2> QED BY <2>1, <2>2
<1>4. list = CASE rel.kind = "references" -> <<a>>
               [] rel.kind = "implements" -> <<b>>
               [] rel.kind = "imports" /\ rel.to # <<>> ->
                    <<c>> \o (IF last # rel.to THEN <<d>> ELSE <<>>) \o (IF owner # 0 THEN <<e>> ELSE <<>>)
               [] OTHER -> <<>>
  BY DEF RelationContributions, owner, named
<1> HIDE DEF a, b, c, d, e, last, list
<1> DEFINE S == {a, b, c, d, e}
           second == IF last # rel.to THEN <<d>> ELSE <<>>
           third == IF owner # 0 THEN <<e>> ELSE <<>>
<1>5. <<>> \in Seq(S) /\ <<a>> \in Seq(S) /\ <<b>> \in Seq(S) /\ <<c>> \in Seq(S)
  OBVIOUS
<1>6. second \in Seq(S) /\ third \in Seq(S)
  <2>1. <<d>> \in Seq(S) /\ <<e>> \in Seq(S)
    OBVIOUS
  <2>2. second \in {<<>>, <<d>>} /\ third \in {<<>>, <<e>>}
    OBVIOUS
  <2> HIDE DEF S, second, third
  <2> QED BY <1>5, <2>1, <2>2
<1>7. \A x \in S : IsOf(x, held)
  BY <1>3
<1>8. list \in {<<>>, <<a>>, <<b>>, <<c>> \o second \o third}
  BY <1>4, Zenon
<1> HIDE DEF S, second, third
<1>9. <<c>> \o second \o third \in Seq(S)
  BY <1>5, <1>6, ConcatProperties
<1>10. list \in Seq(S)
  BY <1>5, <1>8, <1>9
<1>11. ListOf(list, held)
  BY <1>7, <1>10, ListsOfMembers
<1> QED BY <1>11 DEF list

\* Inserting a file among those that are retained.
LEMMA InsertionHolds ==
    ASSUME NEW r, NEW held, NEW more, HeldBy(r, held), NEW file,
           file.path \in DOMAIN more, more[file.path] = file,
           \A p \in DOMAIN held \ {file.path} : p \in DOMAIN more /\ more[p] = held[p]
    PROVE  HeldBy(InsertRelations(r, file), more)
<1> DEFINE testFile == IsTestFile(file.path) \/ \E i \in DOMAIN file.syms : file.syms[i].test
           symbols == [i \in DOMAIN file.syms |-> SymbolContributions(file, i)]
           relations == [i \in DOMAIN file.rels |-> RelationContributions(file, testFile, file.rels[i])]
           clean == RemoveRelations(r, file.path)
           group == <<testFile, PathStem(file.path)>>
           stems == InsertPath(clean.stems, file.path, group)
           placed == [clean EXCEPT !.stems = stems]
           named == AddLists(placed, symbols, MaxSymbolsPerFile)
<1>1. InsertRelations(r, file) = AddLists(named, relations, MaxRelationsPerFile)
  BY DEF InsertRelations
<1>2. HeldBy(clean, more)
  BY RemovalHolds
<1>3. HeldBy(placed, more)
  <2> HIDE DEF stems, clean
  <2>1. /\ DOMAIN placed = {"byKey", "contributions", "stems"} /\ placed.byKey = clean.byKey
        /\ placed.contributions = clean.contributions
    BY <1>2 DEF HeldBy
  <2> QED BY <1>2, <2>1 DEF HeldBy
<1>4. \A i \in DOMAIN symbols : ListOf(symbols[i], more)
  BY SymbolsAreOf
<1>5. \A i \in DOMAIN relations : ListOf(relations[i], more)
  <2> HIDE DEF testFile
  <2> QED BY RelationsAreOf
<1>6. MaxSymbolsPerFile \in Nat /\ MaxRelationsPerFile \in Nat
  BY SymbolAssumption
<1> HIDE DEF placed, symbols, relations
<1>7. HeldBy(named, more)
  BY <1>3, <1>4, <1>6, ListsHold DEF ListOf
<1> HIDE DEF named
<1>8. HeldBy(AddLists(named, relations, MaxRelationsPerFile), more)
  BY <1>5, <1>6, <1>7, ListsHold DEF ListOf
<1> QED BY <1>1, <1>8

\* What inserting a file into the retained ones leaves.
LEMMA InsertedFile ==
    ASSUME NEW f, NEW x, NEW v
    PROVE  /\ x \in DOMAIN Inserted(f, x, v) /\ Inserted(f, x, v)[x] = v
           /\ \A y \in DOMAIN f \ {x} : y \in DOMAIN Inserted(f, x, v) /\ Inserted(f, x, v)[y] = f[y]
BY DEF Inserted

\* The index after a file was removed, and after one was inserted.
LEMMA RemovedFileHolds ==
    ASSUME NEW index, HeldBy(index.relations, index.files), NEW path
    PROVE  HeldBy(RemoveSymbolFile(index, path).relations, RemoveSymbolFile(index, path).files)
<1> DEFINE held == index.files
           left == Removed(held, path)
<1>1. /\ RemoveSymbolFile(index, path).relations = RemoveRelations(index.relations, path)
      /\ RemoveSymbolFile(index, path).files = left
  BY DEF RemoveSymbolFile
<1>2. \A p \in DOMAIN held \ {path} : p \in DOMAIN left /\ left[p] = held[p]
  BY DEF Removed
<1> HIDE DEF left
<1>3. HeldBy(RemoveRelations(index.relations, path), left)
  BY <1>2, RemovalHolds
<1> QED BY <1>1, <1>3

LEMMA InsertedFileHolds ==
    ASSUME NEW index, HeldBy(index.relations, index.files), NEW file
    PROVE  HeldBy(InsertSymbolFile(index, file).relations, InsertSymbolFile(index, file).files)
<1> DEFINE full == file.path \notin DOMAIN index.files
                   /\ Cardinality(DOMAIN index.files) >= MaxSymbolFiles
           first == CHOOSE p \in DOMAIN index.files : \A q \in DOMAIN index.files : p <= q
           room == IF full THEN RemoveSymbolFile(index, first) ELSE index
           kept == room.files
           path == file.path
           more == Inserted(kept, path, file)
           clean == RemoveRelations(room.relations, path)
           rest == Removed(kept, path)
<1>1. /\ InsertSymbolFile(index, file).relations = InsertRelations(clean, file)
      /\ InsertSymbolFile(index, file).files = more
  BY DEF InsertSymbolFile
<1>2. HeldBy(room.relations, kept)
  <2>1. CASE full
    <3> HIDE DEF first
    <3> QED BY <2>1, RemovedFileHolds
  <2>2. CASE ~full
    BY <2>2
  <2> QED BY <2>1, <2>2
<1> HIDE DEF room
<1>3. \A p \in DOMAIN kept \ {path} : p \in DOMAIN rest /\ rest[p] = kept[p]
  <2> HIDE DEF kept, path
  <2> QED BY DEF Removed
<1>4. HeldBy(clean, rest)
  <2> HIDE DEF kept, path, rest
  <2> QED BY <1>2, <1>3, RemovalHolds
<1>5. path \in DOMAIN more /\ more[path] = file /\ \A p \in DOMAIN kept \ {path} : p \in DOMAIN more /\ more[p] = kept[p]
  <2> HIDE DEF kept, path
  <2> QED BY InsertedFile
<1>7. \A p \in DOMAIN rest \ {path} : p \in DOMAIN more /\ more[p] = rest[p]
  <2> HIDE DEF kept, path, more
  <2>1. DOMAIN rest = DOMAIN kept \ {path}
    BY DEF Removed
  <2> HIDE DEF rest
  <2> QED BY <1>3, <1>5, <2>1
<1> HIDE DEF more, clean, rest
<1>6. HeldBy(InsertRelations(clean, file), more)
  BY <1>4, <1>5, <1>7, InsertionHolds
<1> QED BY <1>1, <1>6

(* No order of indexing, eviction, removal and cuts at the fan-out leaves     *)
(* evidence of a file that is gone or of another version of it in the index,  *)
(* for any files and limits (SymbolIndex::insert, RelationshipIndex).         *)
THEOREM RelationsAreRetained == RepoSpec => []RelationsAreOfRetainedFiles
<1> DEFINE Inv == HeldBy(symbolIndex.relations, symbolIndex.files)
<1>1. HeldBy(EmptyIndex.relations, EmptyIndex.files)
  BY DEF EmptyIndex, EmptyRelations, HeldBy
<1>2. RepoInit => Inv
  BY <1>1 DEF RepoInit
<1>3. Inv /\ [RepoNext]_repoVars => Inv'
  <2> SUFFICES ASSUME Inv, [RepoNext]_repoVars PROVE Inv'
    OBVIOUS
  <2>1. CASE IndexTarget
    <3> DEFINE p == Head(mapCall.todo)
               source == Versions[p][disk[p]]
               parsed == ParseSource(p, source, FALSE)
    <3>1. symbolIndex' = SymbolsForFile(symbolIndex, p)
      BY <2>1 DEF IndexTarget
    <3>2. \/ symbolIndex' = RemoveSymbolFile(symbolIndex, p)
          \/ symbolIndex' = symbolIndex
          \/ symbolIndex' = InsertSymbolFile(symbolIndex, parsed)
      BY <3>1 DEF SymbolsForFile
    <3> HIDE DEF p, parsed
    <3>3. CASE symbolIndex' = RemoveSymbolFile(symbolIndex, p)
      BY <3>3, RemovedFileHolds
    <3>4. CASE symbolIndex' = symbolIndex
      BY <3>4
    <3>5. CASE symbolIndex' = InsertSymbolFile(symbolIndex, parsed)
      BY <3>5, InsertedFileHolds
    <3> QED BY <3>2, <3>3, <3>4, <3>5
  <2>2. CASE Invalidate
    <3>1. symbolIndex' = EmptyIndex
      BY <2>2 DEF Invalidate
    <3> QED BY <1>1, <3>1
  <2>3. CASE UNCHANGED symbolIndex
    BY <2>3
  <2>4. IndexTarget \/ Invalidate \/ UNCHANGED symbolIndex
    BY DEF RepoNext, repoVars, GitRewritesIndex, FileChanges, BeginCall, CheckCache, ReadGitIndex,
           GitLsFiles, StampIndex, CollectSpecialFiles, StoreSnapshot, SelectFromMap, SearchSymbols, EndCall
  <2> QED BY <2>1, <2>2, <2>3, <2>4
<1>4. Inv => RelationsAreOfRetainedFiles
  BY PropertyIsHeld
<1> QED BY <1>2, <1>3, <1>4, PTL DEF RepoSpec

(***************************************************************************)
(* The operations of the engine, one by one.                               *)
(***************************************************************************)

\* f differs from e neither in what it knows of files nor in what it has shown.
SameFacts(e, f) ==
    /\ f.inspected = e.inspected /\ f.excerpts = e.excerpts /\ f.fingerprints = e.fingerprints

LEMMA EngineFields ==
    DOMAIN EmptyEngine = {"task", "inspected", "modified", "userModified", "excerpts", "summaries",
                          "git", "changed", "fingerprints", "work"}
BY DEF EmptyEngine

LEMMA SummaryOK ==
    ASSUME NEW e, EngineOK(e), NEW tool \in {"read", "write", "shell"}, NEW shown \in Seq(Paths)
    PROVE  EngineOK(PushSummary(e, tool, shown)) /\ SameFacts(e, PushSummary(e, tool, shown))
<1> DEFINE new == [tool |-> tool, shown |-> Oldest(Distinct(shown), MaxShownPaths)]
           list == Newest(Append(e.summaries, new), MaxSummaries)
<1>1. PushSummary(e, tool, shown) = [e EXCEPT !.summaries = list]
  BY DEF PushSummary
<1>2. Oldest(Distinct(shown), MaxShownPaths) \in Seq(Paths)
  <2>1. Distinct(shown) \in Seq(Paths)
    BY DistinctType
  <2> HIDE DEF new, list
  <2> QED BY <2>1, OldestType, PromptAssumption
<1>3. new \in ToolSummary
  BY <1>2 DEF ToolSummary
<1> HIDE DEF new
<1>4. Append(e.summaries, new) \in Seq(ToolSummary)
  BY <1>3 DEF EngineOK
<1>5. list \in Seq(ToolSummary)
  BY <1>4, NewestType, PromptAssumption
<1> HIDE DEF list
<1> QED BY <1>1, <1>5, EngineFields DEF EngineOK, SameFacts

LEMMA ModifiedOK ==
    ASSUME NEW e, EngineOK(e), NEW p \in Paths
    PROVE  EngineOK(RecordModifiedPath(e, p)) /\ SameFacts(e, RecordModifiedPath(e, p))
<1> DEFINE more == IF p \in ToSet(e.modified) THEN e.modified ELSE Append(e.modified, p)
           list == Newest(more, MaxModified)
<1>1. RecordModifiedPath(e, p) = [e EXCEPT !.modified = list]
  BY DEF RecordModifiedPath
<1>2. more \in Seq(Paths)
  BY DEF EngineOK
<1> HIDE DEF more
<1>3. list \in Seq(Paths)
  BY <1>2, NewestType, PromptAssumption
<1> HIDE DEF list
<1> QED BY <1>1, <1>3, EngineFields DEF EngineOK, SameFacts

LEMMA ClearDriftOK ==
    ASSUME NEW e, EngineOK(e)
    PROVE  EngineOK(ClearDrift(e)) /\ SameFacts(e, ClearDrift(e))
<1>1. CASE ClearDrift(e) = e
  BY <1>1 DEF SameFacts
<1>2. CASE ClearDrift(e) # e
  <2> DEFINE w == [e.work EXCEPT !.recovery = [active |-> FALSE, paths |-> <<>>]]
  <2>1. ClearDrift(e) = [e EXCEPT !.changed = FALSE, !.work = w]
    BY <1>2, EngineFields DEF ClearDrift, EngineOK
  <2>2. DOMAIN w = DOMAIN e.work /\ w.relevant = e.work.relevant
    BY DEF EngineOK
  <2> HIDE DEF w
  <2> QED BY <2>1, <2>2, EngineFields DEF EngineOK, SameFacts
<1> QED BY <1>1, <1>2

LEMMA ResetOK ==
    ASSUME NEW e, EngineOK(e)
    PROVE  EngineOK(ResetWorkflow(e)) /\ SameFacts(e, ResetWorkflow(e))
<1> DEFINE w == [e.work EXCEPT !.phase = "discover", !.relevant = <<>>,
                               !.recovery = [active |-> TRUE, paths |-> e.work.relevant]]
<1>1. ResetWorkflow(e) = [e EXCEPT !.work = w]
  BY EngineFields DEF ResetWorkflow, EngineOK
<1>2. DOMAIN w = DOMAIN e.work /\ w.relevant = <<>>
  BY DEF EngineOK
<1> HIDE DEF w
<1>3. <<>> \in Seq(Paths)
  OBVIOUS
<1> QED BY <1>1, <1>2, <1>3, EngineFields DEF EngineOK, SameFacts

\* f lists the files of e, in the same places.
SameFiles(e, f) ==
    /\ DOMAIN f.inspected = DOMAIN e.inspected
    /\ \A i \in DOMAIN e.inspected : f.inspected[i].path = e.inspected[i].path

\* The excerpts of f are excerpts of e, of files outside of S.
Fewer(e, f, S) ==
    \A k \in DOMAIN f.excerpts : /\ f.excerpts[k].path \notin S
                                 /\ \E j \in DOMAIN e.excerpts : e.excerpts[j] = f.excerpts[k]

LEMMA UnhashedIsNoContent == \A v \in Contents : v \in Nat /\ v # 0 /\ v # Unhashed /\ v \in Hashes
BY PromptAssumption DEF Unhashed, Hashes

\* An engine that lists the same files with other hashes, and has dropped the excerpts
\* of those whose hash is another one, still has no excerpt with a hash it does not list.
LEMMA HashesKept ==
    ASSUME NEW e, NEW f, NEW S, NEW X, EngineOK(e), SameFiles(e, f), Fewer(e, f, S), HashedAsInspected(e, X),
           \A i \in DOMAIN e.inspected : \/ f.inspected[i].hash = e.inspected[i].hash
                                         \/ e.inspected[i].hash = Unhashed
                                         \/ e.inspected[i].path \in S
    PROVE  HashedAsInspected(f, X)
<1> SUFFICES ASSUME NEW k \in DOMAIN f.excerpts, f.excerpts[k].text = f.excerpts[k].hash,
                    f.excerpts[k].path \notin X
             PROVE  \E i \in DOMAIN f.inspected : /\ f.inspected[i].path = f.excerpts[k].path
                                                  /\ f.inspected[i].hash = f.excerpts[k].hash
  BY DEF HashedAsInspected
<1>1. PICK j \in DOMAIN e.excerpts : e.excerpts[j] = f.excerpts[k]
  BY DEF Fewer
<1>2. f.excerpts[k].path \notin S
  BY DEF Fewer
<1>3. e.excerpts[j].text \in Contents
  <2>1. e.excerpts \in Seq(FileExcerpt)
    BY DEF EngineOK
  <2>2. e.excerpts[j] \in FileExcerpt
    BY <2>1
  <2> QED BY <2>2 DEF FileExcerpt
<1>4. PICK i \in DOMAIN e.inspected : /\ e.inspected[i].path = e.excerpts[j].path
                                      /\ e.inspected[i].hash = e.excerpts[j].hash
  BY <1>1 DEF HashedAsInspected
<1>5. e.inspected[i].hash # Unhashed
  BY <1>1, <1>3, <1>4, UnhashedIsNoContent
<1>6. f.inspected[i].hash = e.inspected[i].hash
  BY <1>1, <1>2, <1>4, <1>5
<1> QED BY <1>1, <1>4, <1>6 DEF SameFiles

LEMMA SameFilesPaths ==
    ASSUME NEW e, NEW f, SameFiles(e, f)
    PROVE  InspectedPaths(f) = InspectedPaths(e)
BY DEF SameFiles, InspectedPaths

\* A new list of the same files, each present or stale, is in order.
LEMMA RelistedOK ==
    ASSUME NEW e, EngineOK(e), NEW list \in Seq(InspectedFile), DOMAIN list = DOMAIN e.inspected,
           \A i \in DOMAIN list : list[i].path = e.inspected[i].path /\ (list[i].present \/ list[i].stale),
           NEW f, DOMAIN f = DOMAIN e, f.inspected = list,
           \A x \in DOMAIN e \ {"inspected", "changed"} : f[x] = e[x]
    PROVE  EngineOK(f) /\ SameFiles(e, f) /\ f.excerpts = e.excerpts /\ f.fingerprints = e.fingerprints
<1>1. /\ f.excerpts = e.excerpts /\ f.modified = e.modified /\ f.userModified = e.userModified
      /\ f.summaries = e.summaries /\ f.work = e.work /\ f.fingerprints = e.fingerprints
  BY EngineFields DEF EngineOK
<1>2. SameFiles(e, f)
  BY DEF SameFiles
<1> QED BY <1>1, <1>2 DEF EngineOK

LEMMA DropOK ==
    ASSUME NEW e, EngineOK(e), NEW S
    PROVE  LET f == DropExcerpts(e, S)
           IN  EngineOK(f) /\ f.inspected = e.inspected /\ f.fingerprints = e.fingerprints /\ Fewer(e, f, S)
<1> DEFINE T == {x \in ToSet(e.excerpts) : x.path \notin S}
           list == Sift(e.excerpts, T)
<1>1. DropExcerpts(e, S) = [e EXCEPT !.excerpts = list]
  BY DEF DropExcerpts
<1>2. e.excerpts \in Seq(FileExcerpt)
  BY DEF EngineOK
<1>3. /\ list \in Seq(FileExcerpt)
      /\ \A k \in DOMAIN list : list[k] \in T /\ \E j \in DOMAIN e.excerpts : e.excerpts[j] = list[k]
  <2> HIDE DEF T
  <2> QED BY <1>2, SiftMembers
<1> HIDE DEF list
<1> DEFINE f == [e EXCEPT !.excerpts = list]
<1>4. /\ f.excerpts = list /\ DOMAIN f = DOMAIN e
      /\ \A x \in DOMAIN e \ {"excerpts"} : f[x] = e[x]
  BY EngineFields DEF EngineOK
<1>5. /\ f.inspected = e.inspected /\ f.modified = e.modified /\ f.userModified = e.userModified
      /\ f.summaries = e.summaries /\ f.work = e.work /\ f.fingerprints = e.fingerprints
  BY <1>4, EngineFields DEF EngineOK
<1> HIDE DEF f
<1>6. EngineOK(f)
  BY <1>3, <1>4, <1>5 DEF EngineOK
<1>7. Fewer(e, f, S)
  BY <1>3, <1>4 DEF Fewer
<1> QED BY <1>1, <1>5, <1>6, <1>7 DEF f

\* What a look at one file leaves in the engine.
Upserted(e, f, p, hash) ==
    /\ EngineOK(f) /\ f.fingerprints = e.fingerprints
    /\ p \in InspectedPaths(f)
    /\ p \in InspectedPaths(e) => InspectedPaths(f) = InspectedPaths(e)
    /\ hash # Unhashed => \E i \in DOMAIN f.inspected : f.inspected[i].path = p /\ f.inspected[i].hash = hash
    /\ \A X : HashedAsInspected(e, X) => HashedAsInspected(f, X \cup (InspectedPaths(e) \ InspectedPaths(f)))

LEMMA AddedFileOK ==
    ASSUME NEW e, EngineOK(e), NEW entry \in InspectedFile, entry.path \notin InspectedPaths(e),
           entry.present \/ entry.stale
    PROVE  Upserted(e, [e EXCEPT !.inspected = Newest(Append(e.inspected, entry), MaxInspectedFiles)],
                    entry.path, entry.hash)
<1> DEFINE more == Append(e.inspected, entry)
           list == Newest(more, MaxInspectedFiles)
           f == [e EXCEPT !.inspected = list]
           L == Len(e.inspected)
<1>1. e.inspected \in Seq(InspectedFile) /\ L \in Nat /\ DOMAIN e.inspected = 1 .. L
  BY DEF EngineOK
<1>2. /\ more \in Seq(InspectedFile) /\ Len(more) = L + 1 /\ more[L + 1] = entry
      /\ \A i \in 1 .. L : more[i] = e.inspected[i]
  BY <1>1
<1>3. \A i \in 1 .. L : e.inspected[i].path # entry.path
  BY <1>1 DEF InspectedPaths
<1> HIDE DEF more
<1>4. MaxInspectedFiles \in Nat /\ MaxInspectedFiles > 0
  BY PromptAssumption
<1>5. list \in Seq(InspectedFile)
  BY <1>2, <1>4, NewestType
<1>6. PICK d \in 0 .. Len(more) : /\ Len(list) = Len(more) - d
                                  /\ \A k \in 1 .. (Len(more) - d) : list[k] = more[k + d]
                                  /\ MaxInspectedFiles > 0 /\ Len(more) > 0 => d < Len(more)
  BY <1>2, <1>4, NewestType
<1> HIDE DEF list, L
<1>7. d \in Nat /\ d <= L /\ Len(list) = L + 1 - d /\ DOMAIN list = 1 .. (L + 1 - d)
  BY <1>1, <1>2, <1>4, <1>5, <1>6
<1>8. \A k \in DOMAIN list : list[k] = more[k + d] /\ k + d \in 1 .. (L + 1)
  BY <1>1, <1>2, <1>6, <1>7
<1>9. \A k \in DOMAIN list : k + d # L + 1 => k + d \in 1 .. L /\ list[k] = e.inspected[k + d]
  BY <1>1, <1>2, <1>7, <1>8
<1>10. f.inspected = list /\ DOMAIN f = DOMAIN e /\ \A x \in DOMAIN e \ {"inspected"} : f[x] = e[x]
  BY EngineFields DEF EngineOK
<1>11. /\ f.excerpts = e.excerpts /\ f.modified = e.modified /\ f.userModified = e.userModified
       /\ f.summaries = e.summaries /\ f.work = e.work /\ f.fingerprints = e.fingerprints
  BY <1>10, EngineFields DEF EngineOK
<1> HIDE DEF f
<1>12. \A k \in DOMAIN list : k + d = L + 1 => list[k] = entry
  BY <1>2, <1>8
<1>13. \A i, j \in DOMAIN list : list[i].path = list[j].path => i = j
  <2> TAKE i, j \in DOMAIN list
  <2> HAVE list[i].path = list[j].path
  <2>1. CASE i + d = L + 1 /\ j + d = L + 1
    BY <1>1, <1>7, <2>1
  <2>2. CASE i + d = L + 1 /\ j + d # L + 1
    BY <1>3, <1>9, <1>12, <2>2
  <2>3. CASE i + d # L + 1 /\ j + d = L + 1
    BY <1>3, <1>9, <1>12, <2>3
  <2>4. CASE i + d # L + 1 /\ j + d # L + 1
    <3>1. i + d = j + d
      BY <1>1, <1>9, <2>4 DEF EngineOK
    <3> QED BY <1>1, <1>7, <3>1
  <2> QED BY <2>1, <2>2, <2>3, <2>4
<1>14. \A i \in DOMAIN list : list[i].present \/ list[i].stale
  BY <1>1, <1>9, <1>12 DEF EngineOK
<1>15. EngineOK(f)
  BY <1>5, <1>10, <1>11, <1>13, <1>14 DEF EngineOK
<1>16. L + 1 - d \in DOMAIN list /\ list[L + 1 - d] = entry
  <2>1. L + 1 - d \in DOMAIN list /\ (L + 1 - d) + d = L + 1
    BY <1>1, <1>7
  <2> QED BY <2>1, <1>12
<1>17. \A X : HashedAsInspected(e, X) => HashedAsInspected(f, X \cup (InspectedPaths(e) \ InspectedPaths(f)))
  <2> TAKE X
  <2> HAVE HashedAsInspected(e, X)
  <2> SUFFICES ASSUME NEW k \in DOMAIN f.excerpts, f.excerpts[k].text = f.excerpts[k].hash,
                      f.excerpts[k].path \notin X \cup (InspectedPaths(e) \ InspectedPaths(f))
               PROVE  \E i \in DOMAIN f.inspected : /\ f.inspected[i].path = f.excerpts[k].path
                                                    /\ f.inspected[i].hash = f.excerpts[k].hash
    BY DEF HashedAsInspected
  <2>1. PICK i \in DOMAIN e.inspected : /\ e.inspected[i].path = e.excerpts[k].path
                                        /\ e.inspected[i].hash = e.excerpts[k].hash
    BY <1>11 DEF HashedAsInspected
  <2>2. f.excerpts[k].path \in InspectedPaths(e)
    BY <1>11, <2>1 DEF InspectedPaths
  <2>3. PICK j \in DOMAIN list : list[j].path = f.excerpts[k].path
    BY <1>10, <2>2 DEF InspectedPaths
  <2>4. j + d # L + 1
    BY <1>1, <1>3, <1>11, <1>12, <2>1, <2>3
  <2>5. j + d \in DOMAIN e.inspected /\ e.inspected[j + d].path = e.inspected[i].path
    BY <1>1, <1>9, <1>11, <2>1, <2>3, <2>4
  <2>6. j + d = i
    BY <2>5 DEF EngineOK
  <2> QED BY <1>9, <1>10, <1>11, <2>1, <2>3, <2>4, <2>6
<1>18. entry.path \in InspectedPaths(f)
  BY <1>10, <1>16 DEF InspectedPaths
<1> QED BY <1>10, <1>11, <1>15, <1>16, <1>17, <1>18 DEF Upserted, f, list, more

LEMMA KnownFileOK ==
    ASSUME NEW e, EngineOK(e), NEW i0 \in DOMAIN e.inspected, NEW hash \in Hashes, NEW lines \in SUBSET Int
    PROVE  LET p == e.inspected[i0].path
               changed == \E i \in DOMAIN e.inspected :
                             e.inspected[i].path = p /\ Unhashed \notin {hash, e.inspected[i].hash}
                                                     /\ e.inspected[i].hash # hash
               new == LookAgain(e.inspected[i0], hash, lines)
               now == [e EXCEPT !.inspected = [e.inspected EXCEPT ![i0] = new]]
           IN  Upserted(e, DropExcerpts(now, IF changed THEN {p} ELSE {}), p, hash)
<1> DEFINE p == e.inspected[i0].path
           changed == \E i \in DOMAIN e.inspected :
                         e.inspected[i].path = p /\ Unhashed \notin {hash, e.inspected[i].hash}
                                                 /\ e.inspected[i].hash # hash
           new == LookAgain(e.inspected[i0], hash, lines)
           list == [e.inspected EXCEPT ![i0] = new]
           now == [e EXCEPT !.inspected = list]
           S == IF changed THEN {p} ELSE {}
           f == DropExcerpts(now, S)
<1>1. e.inspected \in Seq(InspectedFile)
  BY DEF EngineOK
<1>2. e.inspected[i0] \in InspectedFile
  BY <1>1
<1>3. new \in InspectedFile
  BY <1>2 DEF InspectedFile, LookAgain
<1>4. /\ new.path = p /\ new.present = TRUE
      /\ new.hash = IF hash = Unhashed THEN e.inspected[i0].hash ELSE hash
  BY <1>2 DEF InspectedFile, LookAgain
<1> HIDE DEF new
<1>5. /\ list \in Seq(InspectedFile) /\ DOMAIN list = DOMAIN e.inspected /\ list[i0] = new
      /\ \A i \in DOMAIN list : i # i0 => list[i] = e.inspected[i]
  BY <1>1, <1>3
<1> HIDE DEF list
<1>6. \A i \in DOMAIN list : list[i].path = e.inspected[i].path /\ (list[i].present \/ list[i].stale)
  BY <1>4, <1>5 DEF EngineOK
<1>7. now.inspected = list /\ DOMAIN now = DOMAIN e /\ \A x \in DOMAIN e \ {"inspected", "changed"} : now[x] = e[x]
  BY EngineFields DEF EngineOK
<1> HIDE DEF now
<1>8. EngineOK(now) /\ SameFiles(e, now) /\ now.excerpts = e.excerpts /\ now.fingerprints = e.fingerprints
  BY <1>5, <1>6, <1>7, RelistedOK
<1>9. EngineOK(f) /\ f.inspected = list /\ f.fingerprints = e.fingerprints /\ Fewer(now, f, S)
  <2> HIDE DEF S
  <2> QED BY <1>7, <1>8, DropOK
<1> HIDE DEF f
<1>10. Fewer(e, f, S) /\ SameFiles(e, f)
  BY <1>7, <1>8, <1>9 DEF Fewer, SameFiles
<1>11. InspectedPaths(f) = InspectedPaths(e) /\ p \in InspectedPaths(f)
  <2>1. p \in InspectedPaths(e)
    BY DEF InspectedPaths
  <2> QED BY <2>1, <1>10, SameFilesPaths
<1>12. hash # Unhashed => \E i \in DOMAIN f.inspected : f.inspected[i].path = p /\ f.inspected[i].hash = hash
  BY <1>4, <1>5, <1>9
<1>13. \A i \in DOMAIN e.inspected : \/ f.inspected[i].hash = e.inspected[i].hash
                                     \/ e.inspected[i].hash = Unhashed
                                     \/ e.inspected[i].path \in S
  BY <1>4, <1>5, <1>9
<1>14. ASSUME NEW X, HashedAsInspected(e, X) PROVE HashedAsInspected(f, X)
  <2> HIDE DEF S
  <2> QED BY <1>10, <1>13, <1>14, HashesKept
<1>15. \A X : HashedAsInspected(e, X) => HashedAsInspected(f, X \cup (InspectedPaths(e) \ InspectedPaths(f)))
  <2> TAKE X
  <2> HAVE HashedAsInspected(e, X)
  <2>1. InspectedPaths(e) \ InspectedPaths(f) = {}
    BY <1>11
  <2>2. X \cup (InspectedPaths(e) \ InspectedPaths(f)) = X
    BY <2>1
  <2> QED BY <2>2, <1>14
<1>16. Upserted(e, f, p, hash)
  BY <1>9, <1>11, <1>12, <1>15 DEF Upserted
<1> QED BY <1>16 DEF f, S, now, list, new

\* A look at a file: the list stays in order, and no excerpt is left with a hash that is
\* not the listed one.
LEMMA UpsertOK ==
    ASSUME NEW e, EngineOK(e), NEW p \in Paths, NEW hash \in Hashes, NEW lines \in SUBSET Int
    PROVE  Upserted(e, UpsertInspected(e, p, hash, lines), p, hash)
<1> DEFINE known == {i \in DOMAIN e.inspected : e.inspected[i].path = p}
           entry == [path |-> p, hash |-> hash, lines |-> lines, present |-> TRUE, stale |-> FALSE]
           f == UpsertInspected(e, p, hash, lines)
<1>1. CASE known = {}
  <2>1. f = [e EXCEPT !.inspected = Newest(Append(e.inspected, entry), MaxInspectedFiles)]
    BY <1>1 DEF UpsertInspected
  <2>2. entry \in InspectedFile /\ entry.path = p /\ entry.hash = hash /\ entry.present
    BY DEF InspectedFile
  <2>3. entry.path \notin InspectedPaths(e)
    BY <1>1, <2>2 DEF InspectedPaths
  <2> HIDE DEF entry, f
  <2>4. Upserted(e, f, entry.path, entry.hash)
    BY <2>1, <2>2, <2>3, AddedFileOK
  <2> QED BY <2>2, <2>4 DEF f
<1>2. CASE known # {}
  <2> DEFINE i0 == CHOOSE i \in known : TRUE
             changed == \E i \in DOMAIN e.inspected :
                           e.inspected[i].path = p /\ Unhashed \notin {hash, e.inspected[i].hash}
                                                   /\ e.inspected[i].hash # hash
             new == LookAgain(e.inspected[i0], hash, lines)
             now == [e EXCEPT !.inspected = [e.inspected EXCEPT ![i0] = new]]
  <2>1. i0 \in DOMAIN e.inspected /\ e.inspected[i0].path = p
    BY <1>2
  <2>2. f = DropExcerpts([e EXCEPT !.inspected[i0] = LookAgain(@, hash, lines)], IF changed THEN {p} ELSE {})
    BY <1>2 DEF UpsertInspected
  <2> HIDE DEF i0, changed
  <2>3. f = DropExcerpts(now, IF changed THEN {p} ELSE {})
    BY <2>2
  <2> USE DEF changed
  <2> HIDE DEF f
  <2>4. Upserted(e, DropExcerpts(now, IF changed THEN {p} ELSE {}), p, hash)
    BY <2>1, KnownFileOK
  <2> QED BY <2>3, <2>4 DEF f
<1> QED BY <1>1, <1>2

\* An excerpt whose own hash is listed for its file may be stored.
LEMMA PushOK ==
    ASSUME NEW e, EngineOK(e), NEW x \in FileExcerpt,
           x.text = x.hash => \E i \in DOMAIN e.inspected : /\ e.inspected[i].path = x.path
                                                            /\ e.inspected[i].hash = x.hash
    PROVE  LET f == PushFileExcerpt(e, x)
           IN  /\ EngineOK(f) /\ f.inspected = e.inspected /\ f.fingerprints = e.fingerprints
               /\ \A X : HashedAsInspected(e, X) => HashedAsInspected(f, X)
<1> DEFINE T == {y \in ToSet(e.excerpts) : y.path # x.path \/ y.range # x.range}
           kept == Sift(e.excerpts, T)
           more == Append(kept, x)
           list == Newest(more, MaxFileExcerpts)
           f == [e EXCEPT !.excerpts = list]
<1>1. PushFileExcerpt(e, x) = f
  BY DEF PushFileExcerpt
<1>2. e.excerpts \in Seq(FileExcerpt)
  BY DEF EngineOK
<1>3. /\ kept \in Seq(FileExcerpt)
      /\ \A k \in DOMAIN kept : \E j \in DOMAIN e.excerpts : e.excerpts[j] = kept[k]
  <2> HIDE DEF T
  <2> QED BY <1>2, SiftMembers
<1> HIDE DEF kept
<1>4. /\ more \in Seq(FileExcerpt)
      /\ \A k \in DOMAIN more : more[k] = x \/ \E j \in DOMAIN kept : kept[j] = more[k]
  BY <1>3
<1> HIDE DEF more
<1>5. /\ list \in Seq(FileExcerpt)
      /\ \A k \in DOMAIN list : \E j \in DOMAIN more : more[j] = list[k]
  <2>1. MaxFileExcerpts \in Nat
    BY PromptAssumption
  <2>2. list \in Seq(FileExcerpt)
    BY <1>4, <2>1, NewestType
  <2>3. PICK d \in 0 .. Len(more) : /\ Len(list) = Len(more) - d
                                    /\ \A k \in 1 .. (Len(more) - d) : list[k] = more[k + d]
    BY <1>4, <2>1, NewestType
  <2> HIDE DEF list
  <2>4. DOMAIN list = 1 .. (Len(more) - d) /\ d \in Nat /\ DOMAIN more = 1 .. Len(more) /\ Len(more) \in Nat
    BY <1>4, <2>2, <2>3
  <2>5. \A k \in DOMAIN list : k + d \in DOMAIN more /\ more[k + d] = list[k]
    BY <2>3, <2>4
  <2> QED BY <2>2, <2>5
<1>6. \A k \in DOMAIN list : list[k] = x \/ \E j \in DOMAIN e.excerpts : e.excerpts[j] = list[k]
  <2> HIDE DEF list
  <2> TAKE k \in DOMAIN list
  <2>1. PICK m \in DOMAIN more : more[m] = list[k]
    BY <1>5
  <2> QED BY <2>1, <1>3, <1>4
<1> HIDE DEF list
<1>7. f.excerpts = list /\ DOMAIN f = DOMAIN e /\ \A y \in DOMAIN e \ {"excerpts"} : f[y] = e[y]
  BY EngineFields DEF EngineOK
<1>8. /\ f.inspected = e.inspected /\ f.modified = e.modified /\ f.userModified = e.userModified
      /\ f.summaries = e.summaries /\ f.work = e.work /\ f.fingerprints = e.fingerprints
  BY <1>7, EngineFields DEF EngineOK
<1> HIDE DEF f
<1>9. EngineOK(f)
  BY <1>5, <1>7, <1>8 DEF EngineOK
<1>10. ASSUME NEW X, HashedAsInspected(e, X) PROVE HashedAsInspected(f, X)
  <2> SUFFICES ASSUME NEW k \in DOMAIN list, list[k].text = list[k].hash, list[k].path \notin X
               PROVE  \E i \in DOMAIN e.inspected : /\ e.inspected[i].path = list[k].path
                                                    /\ e.inspected[i].hash = list[k].hash
    BY <1>7, <1>8 DEF HashedAsInspected
  <2>1. CASE list[k] = x
    BY <2>1
  <2>2. CASE list[k] # x
    <3>1. PICK j \in DOMAIN e.excerpts : e.excerpts[j] = list[k]
      BY <1>6, <2>2
    <3> QED BY <3>1, <1>10 DEF HashedAsInspected
  <2> QED BY <2>1, <2>2
<1> QED BY <1>1, <1>8, <1>9, <1>10

\* What was inspected, compared with the workspace.
LEMMA RehashType ==
    ASSUME NEW f \in InspectedFile, f.present \/ f.stale, files \in [Paths -> Contents \cup {0}]
    PROVE  /\ RehashFile(f) \in InspectedFile /\ RehashFile(f).path = f.path
           /\ RehashFile(f).present \/ RehashFile(f).stale
           /\ RehashFile(f).stale \/ RehashFile(f).hash = files[f.path]
           /\ \/ RehashFile(f).hash = f.hash \/ f.hash = Unhashed
              \/ files[f.path] # 0 /\ f.hash \notin {Unhashed, files[f.path]}
<1> DEFINE v == files[f.path]
<1>1. v \in Contents \cup {0} /\ (v # 0 => v \in Hashes)
  BY DEF InspectedFile, Hashes
<1> HIDE DEF v
<1>2. CASE v = 0
  <2>1. RehashFile(f) = [f EXCEPT !.stale = @ \/ f.present, !.present = FALSE]
    BY <1>2 DEF RehashFile, v
  <2> QED BY <2>1 DEF InspectedFile
<1>3. CASE v # 0 /\ f.hash \notin {Unhashed, v}
  <2>1. RehashFile(f) = [f EXCEPT !.stale = TRUE, !.hash = v]
    BY <1>3 DEF RehashFile, v
  <2>2. v = files[f.path]
    BY DEF v
  <2> QED BY <1>1, <1>3, <2>1, <2>2 DEF InspectedFile
<1>4. CASE v # 0 /\ ~(f.hash \notin {Unhashed, v}) /\ (f.stale \/ f.hash # Unhashed)
  <2>1. RehashFile(f) = [f EXCEPT !.present = TRUE]
    BY <1>4 DEF RehashFile, v
  <2>2. v = files[f.path]
    BY DEF v
  <2> QED BY <1>1, <1>4, <2>1, <2>2 DEF InspectedFile
<1>5. CASE v # 0 /\ ~(f.hash \notin {Unhashed, v}) /\ ~(f.stale \/ f.hash # Unhashed)
  <2>1. RehashFile(f) = [f EXCEPT !.hash = v]
    BY <1>5 DEF RehashFile, v
  <2>2. v = files[f.path]
    BY DEF v
  <2> QED BY <1>1, <1>5, <2>1, <2>2 DEF InspectedFile
<1> QED BY <1>2, <1>3, <1>4, <1>5

\* f is in order, lists the files that e lists, and has no excerpt with a hash it does not list.
Keeps(e, f) ==
    /\ EngineOK(f) /\ f.fingerprints = e.fingerprints /\ InspectedPaths(f) = InspectedPaths(e)
    /\ \A X : HashedAsInspected(e, X) => HashedAsInspected(f, X)

LEMMA SameKeeps ==
    ASSUME NEW e, NEW f, EngineOK(f), SameFacts(e, f)
    PROVE  Keeps(e, f)
BY DEF Keeps, SameFacts, InspectedPaths, HashedAsInspected

LEMMA KeepsTwice ==
    ASSUME NEW e, NEW f, NEW g, Keeps(e, f), Keeps(f, g)
    PROVE  Keeps(e, g)
BY DEF Keeps

LEMMA RefreshOK ==
    ASSUME NEW e, EngineOK(e), files \in [Paths -> Contents \cup {0}]
    PROVE  LET f == RefreshInspected(e)
           IN  /\ Keeps(e, f)
               /\ \A i \in DOMAIN f.inspected : \/ f.inspected[i].stale
                                                \/ f.inspected[i].hash = files[f.inspected[i].path]
<1> DEFINE list == [i \in DOMAIN e.inspected |-> RehashFile(e.inspected[i])]
           now == [e EXCEPT !.inspected = list]
           moved == [now EXCEPT !.changed = TRUE]
           S == DriftedPaths(e)
           less == DropExcerpts(moved, S)
           f == RefreshInspected(e)
<1>1. e.inspected \in Seq(InspectedFile) /\ \A i \in DOMAIN e.inspected : e.inspected[i].present \/ e.inspected[i].stale
  BY DEF EngineOK
<1>2. \A i \in DOMAIN e.inspected : e.inspected[i] \in InspectedFile
  BY <1>1
<1>3. f = IF S = {} THEN now ELSE ResetWorkflow(less)
  BY DEF RefreshInspected
<1>4. DOMAIN list = DOMAIN e.inspected /\ \A i \in DOMAIN e.inspected : list[i] = RehashFile(e.inspected[i])
  OBVIOUS
<1>5. list \in Seq(InspectedFile)
  <2>1. \A i \in DOMAIN e.inspected : RehashFile(e.inspected[i]) \in InspectedFile
    BY <1>1, <1>2, RehashType
  <2> QED BY <1>1, <2>1
<1> HIDE DEF list
<1>6. \A i \in DOMAIN list : /\ list[i].path = e.inspected[i].path /\ (list[i].present \/ list[i].stale)
                             /\ list[i].stale \/ list[i].hash = files[list[i].path]
  BY <1>1, <1>2, <1>4, RehashType
<1>7. \A i \in DOMAIN list : \/ list[i].hash = e.inspected[i].hash
                             \/ e.inspected[i].hash = Unhashed
                             \/ e.inspected[i].path \in S
  <2> TAKE i \in DOMAIN list
  <2>1. \/ list[i].hash = e.inspected[i].hash \/ e.inspected[i].hash = Unhashed
        \/ files[e.inspected[i].path] # 0 /\ e.inspected[i].hash \notin {Unhashed, files[e.inspected[i].path]}
    BY <1>1, <1>2, <1>4, RehashType
  <2>2. ASSUME files[e.inspected[i].path] # 0, e.inspected[i].hash \notin {Unhashed, files[e.inspected[i].path]}
        PROVE  e.inspected[i].path \in S
    BY <1>4, <2>2 DEF DriftedPaths
  <2> QED BY <2>1, <2>2
<1> HIDE DEF S
<1>8. /\ now.inspected = list /\ DOMAIN now = DOMAIN e /\ now = [now EXCEPT !.inspected = list]
      /\ \A x \in DOMAIN e \ {"inspected", "changed"} : now[x] = e[x]
  BY EngineFields DEF EngineOK
<1>9. /\ moved.inspected = list /\ DOMAIN moved = DOMAIN e
      /\ \A x \in DOMAIN e \ {"inspected", "changed"} : moved[x] = e[x]
  BY <1>8, EngineFields DEF EngineOK
<1> HIDE DEF now, moved
<1>10. EngineOK(now) /\ SameFiles(e, now) /\ now.excerpts = e.excerpts /\ now.fingerprints = e.fingerprints
  BY <1>4, <1>5, <1>6, <1>8, RelistedOK
<1>11. EngineOK(moved) /\ SameFiles(e, moved) /\ moved.excerpts = e.excerpts /\ moved.fingerprints = e.fingerprints
  BY <1>4, <1>5, <1>6, <1>9, RelistedOK
<1>12. EngineOK(less) /\ less.inspected = list /\ less.fingerprints = e.fingerprints /\ Fewer(moved, less, S)
  BY <1>9, <1>11, DropOK
<1> HIDE DEF less
<1>13. EngineOK(ResetWorkflow(less)) /\ SameFacts(less, ResetWorkflow(less))
  BY <1>12, ResetOK
<1> HIDE DEF f
<1>14. EngineOK(f) /\ f.inspected = list /\ f.fingerprints = e.fingerprints
  BY <1>3, <1>8, <1>10, <1>12, <1>13 DEF SameFacts
<1>15. SameFiles(e, f)
  BY <1>4, <1>6, <1>14 DEF SameFiles
<1>16. Fewer(e, f, S)
  <2>1. CASE S = {}
    BY <1>3, <1>10, <2>1 DEF Fewer
  <2>2. CASE S # {}
    BY <1>3, <1>11, <1>12, <1>13, <2>2 DEF Fewer, SameFacts
  <2> QED BY <2>1, <2>2
<1>17. ASSUME NEW X, HashedAsInspected(e, X) PROVE HashedAsInspected(f, X)
  BY <1>4, <1>7, <1>14, <1>15, <1>16, <1>17, HashesKept
<1>18. Keeps(e, f)
  BY <1>14, <1>15, <1>17, SameFilesPaths DEF Keeps
<1> QED BY <1>6, <1>14, <1>18 DEF f

LEMMA InvalidateOK ==
    ASSUME NEW e, EngineOK(e), NEW affected
    PROVE  Keeps(e, InvalidateCommand(e, affected))
<1> DEFINE all == affected = {}
           Hit(x) == [x EXCEPT !.stale = @ \/ all \/ x.path \in affected]
           list == [i \in DOMAIN e.inspected |-> Hit(e.inspected[i])]
           now == [e EXCEPT !.inspected = list, !.changed = TRUE]
           S == IF all THEN Paths ELSE affected
           f == InvalidateCommand(e, affected)
<1>1. f = DropExcerpts(now, S)
  BY DEF InvalidateCommand
<1>2. e.inspected \in Seq(InspectedFile) /\ \A i \in DOMAIN e.inspected : e.inspected[i].present \/ e.inspected[i].stale
  BY DEF EngineOK
<1>3. \A x \in InspectedFile : /\ Hit(x) \in InspectedFile /\ Hit(x).path = x.path /\ Hit(x).hash = x.hash
                               /\ x.present \/ x.stale => Hit(x).present \/ Hit(x).stale
  <2> TAKE x \in InspectedFile
  <2> HIDE DEF all
  <2> DEFINE b == x.stale \/ all \/ x.path \in affected
  <2>1. Hit(x) = [x EXCEPT !.stale = b]
    OBVIOUS
  <2>2. b \in BOOLEAN /\ (x.stale => b)
    OBVIOUS
  <2> HIDE DEF b, Hit
  <2> QED BY <2>1, <2>2 DEF InspectedFile
<1> HIDE DEF Hit
<1>4. DOMAIN list = DOMAIN e.inspected /\ \A i \in DOMAIN e.inspected : list[i] = Hit(e.inspected[i])
  OBVIOUS
<1>5. list \in Seq(InspectedFile)
  BY <1>2, <1>3
<1> HIDE DEF list
<1>6. \A i \in DOMAIN list : /\ list[i].path = e.inspected[i].path /\ list[i].hash = e.inspected[i].hash
                             /\ list[i].present \/ list[i].stale
  BY <1>2, <1>3, <1>4
<1>7. /\ now.inspected = list /\ DOMAIN now = DOMAIN e
      /\ \A x \in DOMAIN e \ {"inspected", "changed"} : now[x] = e[x]
  BY EngineFields DEF EngineOK
<1> HIDE DEF now, S
<1>8. EngineOK(now) /\ SameFiles(e, now) /\ now.excerpts = e.excerpts /\ now.fingerprints = e.fingerprints
  BY <1>4, <1>5, <1>6, <1>7, RelistedOK
<1>9. EngineOK(f) /\ f.inspected = list /\ f.fingerprints = e.fingerprints /\ Fewer(now, f, S)
  BY <1>1, <1>7, <1>8, DropOK
<1> HIDE DEF f
<1>10. Fewer(e, f, S) /\ SameFiles(e, f)
  BY <1>7, <1>8, <1>9 DEF Fewer, SameFiles
<1>11. ASSUME NEW X, HashedAsInspected(e, X) PROVE HashedAsInspected(f, X)
  BY <1>4, <1>6, <1>9, <1>10, <1>11, HashesKept
<1>12. Keeps(e, f)
  BY <1>9, <1>10, <1>11, SameFilesPaths DEF Keeps
<1> QED BY <1>12 DEF f

\* g gives the user's files after each of the first n dirty paths.
UsersNoted(g, e, dirty, n) ==
    g = [m \in 0 .. n |-> IF m = 0 THEN e.userModified ELSE RecordUserPath(g[m - 1], e.modified, dirty[m])]

LEMMA UsersNotedExist ==
    ASSUME NEW e, NEW dirty, NEW N \in Nat
    PROVE  \E g : UsersNoted(g, e, dirty, N)
<1> DEFINE T == {n \in Nat : \E g : UsersNoted(g, e, dirty, n)}
<1>1. 0 \in T
  <2> DEFINE g == [m \in 0 .. 0 |-> e.userModified]
  <2>1. g = [m \in 0 .. 0 |-> IF m = 0 THEN e.userModified
                              ELSE RecordUserPath(g[m - 1], e.modified, dirty[m])]
    OBVIOUS
  <2> HIDE DEF g
  <2>2. UsersNoted(g, e, dirty, 0)
    BY <2>1 DEF UsersNoted
  <2> QED BY <2>2
<1>2. ASSUME NEW n \in Nat, n \in T PROVE n + 1 \in T
  <2>1. PICK f : UsersNoted(f, e, dirty, n)
    BY <1>2
  <2> DEFINE more == RecordUserPath(f[n], e.modified, dirty[n + 1])
             g == [m \in 0 .. (n + 1) |-> IF m <= n THEN f[m] ELSE more]
             next(h, m) == IF m = 0 THEN e.userModified ELSE RecordUserPath(h[m - 1], e.modified, dirty[m])
  <2>2. \A m \in 0 .. n : f[m] = next(f, m)
    BY <2>1 DEF UsersNoted
  <2>3. (\A m \in 0 .. n : g[m] = f[m]) /\ g[n + 1] = more
    OBVIOUS
  <2>4. DOMAIN g = 0 .. (n + 1) /\ g = [m \in 0 .. (n + 1) |-> g[m]]
    OBVIOUS
  <2>5. \A m \in 0 .. (n + 1) : g[m] = next(g, m)
    <3> TAKE m \in 0 .. (n + 1)
    <3> HIDE DEF g
    <3>1. CASE m = n + 1
      <4>1. m # 0 /\ m - 1 = n /\ n \in 0 .. n
        BY <3>1
      <4> QED BY <3>1, <4>1, <2>3
    <3>2. CASE m \in 0 .. n
      <4>1. m = 0 \/ m - 1 \in 0 .. n
        BY <3>2
      <4>2. m = 0 => next(f, m) = next(g, m)
        OBVIOUS
      <4>3. m - 1 \in 0 .. n => f[m - 1] = g[m - 1]
        BY <2>3
      <4> HIDE DEF more
      <4> QED BY <3>2, <4>1, <4>2, <4>3, <2>2, <2>3
    <3> QED BY <3>1, <3>2
  <2> HIDE DEF g
  <2>6. UsersNoted(g, e, dirty, n + 1)
    BY <2>4, <2>5 DEF UsersNoted
  <2> QED BY <2>6
<1>3. N \in T
  <2> HIDE DEF T
  <2> QED BY <1>1, <1>2, Induction
<1> QED BY <1>3

LEMMA SetGitOK ==
    ASSUME NEW e, EngineOK(e), NEW dirty \in Seq(Paths)
    PROVE  EngineOK(SetGit(e, dirty)) /\ SameFacts(e, SetGit(e, dirty))
<1> DEFINE N == Len(dirty)
           users == CHOOSE g : UsersNoted(g, e, dirty, N)
           last == users[N]
<1>1. UsersNoted(users, e, dirty, N)
  BY UsersNotedExist
<1>2. SetGit(e, dirty) = [e EXCEPT !.git = dirty, !.userModified = last]
  BY DEF SetGit, UsersNoted
<1> HIDE DEF users
<1>3. \A m \in 0 .. N : users[m] = IF m = 0 THEN e.userModified
                                   ELSE RecordUserPath(users[m - 1], e.modified, dirty[m])
  BY <1>1 DEF UsersNoted
<1> DEFINE T == {n \in Nat : n <= N => users[n] \in Seq(Paths)}
<1>4. 0 \in T
  <2>1. 0 \in 0 .. N /\ e.userModified \in Seq(Paths)
    BY DEF EngineOK
  <2>2. users[0] \in Seq(Paths)
    BY <1>3, <2>1
  <2> HIDE DEF N
  <2> QED BY <2>2
<1>5. ASSUME NEW n \in Nat, n \in T PROVE n + 1 \in T
  <2> SUFFICES ASSUME n + 1 <= N PROVE users[n + 1] \in Seq(Paths)
    OBVIOUS
  <2>1. n <= N /\ n + 1 \in 0 .. N /\ n + 1 \in 1 .. N /\ (n + 1) - 1 = n /\ n + 1 # 0
    OBVIOUS
  <2>2. users[n] \in Seq(Paths)
    BY <1>5, <2>1
  <2>3. users[n + 1] = RecordUserPath(users[n], e.modified, dirty[n + 1])
    BY <1>3, <2>1
  <2>4. dirty[n + 1] \in Paths
    BY <2>1
  <2> HIDE DEF N
  <2>5. Append(users[n], dirty[n + 1]) \in Seq(Paths)
    BY <2>2, <2>4
  <2>6. Newest(Append(users[n], dirty[n + 1]), MaxUserModified) \in Seq(Paths)
    BY <2>5, NewestType, PromptAssumption
  <2> QED BY <2>2, <2>3, <2>6 DEF RecordUserPath
<1>6. N \in T
  <2> HIDE DEF T
  <2> QED BY <1>4, <1>5, Induction
<1>7. last \in Seq(Paths)
  BY <1>6
<1> HIDE DEF last
<1> QED BY <1>2, <1>7, EngineFields DEF EngineOK, SameFacts

LEMMA DirtyType == DirtyPaths \in Seq(Paths)
<1> DEFINE all == [p \in Paths |-> p]
           S == {p \in Paths : files[p] # 1}
<1>1. Paths = 1 .. Len(PromptPaths) /\ Len(PromptPaths) \in Nat
  BY PromptAssumption DEF Paths
<1>2. all \in Seq(Paths)
  BY <1>1
<1> HIDE DEF all, S
<1>3. Sift(all, S) \in Seq(Paths)
  BY <1>2, SiftMembers
<1> QED BY <1>3 DEF DirtyPaths, all, S

\* What a session gives back: no excerpt, and the recorded fingerprints at most.
LEMMA RestoreOK ==
    ASSUME NEW e, EngineOK(e), NEW given, RecordedIn(e, given)
    PROVE  LET f == RestoreEngine(Persistable(e))
           IN  EngineOK(f) /\ f.excerpts = <<>> /\ RecordedIn(f, given)
<1> DEFINE FP == {e.fingerprints[i] : i \in DOMAIN e.fingerprints}
           inspected == Oldest(e.inspected, MaxInspectedFiles)
           mods == Oldest(e.modified, MaxModified)
           once == Oldest(e.userModified, MaxUserModified)
           users == Oldest(once, MaxUserModified)
           shown == [i \in DOMAIN e.summaries |-> PersistableSummary(e.summaries[i])]
           summaries == Oldest(shown, MaxSummaries)
           some == Oldest(e.fingerprints, MaxFingerprints)
           prints == Oldest(some, MaxFingerprints)
           excerpts == Oldest(<<>>, MaxFileExcerpts)
           s == [e EXCEPT !.task = "", !.excerpts = <<>>, !.git = <<>>, !.userModified = once,
                          !.summaries = shown, !.fingerprints = some]
           f == [s EXCEPT !.inspected = inspected, !.excerpts = excerpts, !.summaries = summaries,
                          !.modified = mods, !.userModified = users, !.fingerprints = prints]
<1>1. Persistable(e) = s
  BY DEF Persistable
<1>2. /\ s.inspected = e.inspected /\ s.excerpts = <<>> /\ s.summaries = shown /\ s.modified = e.modified
      /\ s.userModified = once /\ s.fingerprints = some /\ s.work = e.work /\ DOMAIN s = DOMAIN e
  <2> HIDE DEF once, shown, some
  <2> QED BY EngineFields DEF EngineOK
<1>3. RestoreEngine(Persistable(e)) = f
  <2> HIDE DEF s, once, shown, some
  <2> QED BY <1>1, <1>2 DEF RestoreEngine
<1>4. e.inspected \in Seq(InspectedFile) /\ inspected \in Seq(InspectedFile)
      /\ \A k \in DOMAIN inspected : k \in DOMAIN e.inspected /\ inspected[k] = e.inspected[k]
  <2>1. e.inspected \in Seq(InspectedFile) /\ MaxInspectedFiles \in Nat
    BY PromptAssumption DEF EngineOK
  <2>2. /\ inspected \in Seq(InspectedFile) /\ Len(inspected) <= Len(e.inspected)
        /\ \A k \in 1 .. Len(inspected) : inspected[k] = e.inspected[k]
    BY <2>1, OldestType
  <2> HIDE DEF inspected
  <2> QED BY <2>1, <2>2
<1>5. mods \in Seq(Paths)
  BY OldestType, PromptAssumption DEF EngineOK
<1>6. users \in Seq(Paths)
  <2>1. once \in Seq(Paths)
    BY OldestType, PromptAssumption DEF EngineOK
  <2> HIDE DEF once
  <2> QED BY <2>1, OldestType, PromptAssumption
<1>7. summaries \in Seq(ToolSummary)
  <2>1. e.summaries \in Seq(ToolSummary)
    BY DEF EngineOK
  <2>2. \A x \in ToolSummary : PersistableSummary(x) \in ToolSummary
    <3> TAKE x \in ToolSummary
    <3>1. <<>> \in Seq(Paths)
      OBVIOUS
    <3>2. [x EXCEPT !.shown = <<>>] \in ToolSummary
      BY <3>1 DEF ToolSummary
    <3> QED BY <3>2 DEF PersistableSummary
  <2>3. shown \in Seq(ToolSummary)
    BY <2>1, <2>2
  <2> HIDE DEF shown
  <2> QED BY <2>3, OldestType, PromptAssumption
<1>8. /\ prints \in Seq(ToSet(e.fingerprints))
      /\ \A k \in DOMAIN prints : k \in DOMAIN e.fingerprints /\ prints[k] = e.fingerprints[k]
  <2> DEFINE FS == ToSet(e.fingerprints)
  <2>1. e.fingerprints \in Seq(FS)
    BY DEF RecordedIn
  <2> HIDE DEF FS
  <2>2. some \in Seq(FS) /\ Len(some) <= Len(e.fingerprints)
        /\ \A k \in 1 .. Len(some) : some[k] = e.fingerprints[k]
    BY <2>1, OldestType, PromptAssumption
  <2> HIDE DEF some
  <2>3. prints \in Seq(FS) /\ Len(prints) <= Len(some) /\ \A k \in 1 .. Len(prints) : prints[k] = some[k]
    BY <2>2, OldestType, PromptAssumption
  <2> HIDE DEF prints
  <2> QED BY <2>1, <2>2, <2>3 DEF FS
<1>9. excerpts = <<>>
  BY PromptAssumption DEF Oldest
<1> HIDE DEF inspected, mods, users, summaries, prints, excerpts
<1>10. /\ f.inspected = inspected /\ f.excerpts = <<>> /\ f.summaries = summaries /\ f.modified = mods
       /\ f.userModified = users /\ f.fingerprints = prints /\ f.work = e.work /\ DOMAIN f = DOMAIN e
  <2> HIDE DEF s
  <2> QED BY <1>2, <1>9, EngineFields DEF EngineOK
<1> HIDE DEF f
<1>11. \A i, j \in DOMAIN inspected : inspected[i].path = inspected[j].path => i = j
  BY <1>4 DEF EngineOK
<1>12. \A i \in DOMAIN inspected : inspected[i].present \/ inspected[i].stale
  BY <1>4 DEF EngineOK
<1>13. EngineOK(f)
  <2>1. <<>> \in Seq(FileExcerpt)
    OBVIOUS
  <2> QED BY <1>4, <1>5, <1>6, <1>7, <1>10, <1>11, <1>12, <2>1 DEF EngineOK
<1>14. RecordedIn(f, given)
  <2>1. f.fingerprints \in Seq(ToSet(f.fingerprints))
    BY <1>8, <1>10, OwnMembers
  <2> QED BY <2>1, <1>8, <1>10 DEF RecordedIn
<1> QED BY <1>3, <1>10, <1>13, <1>14

\* f comes of e by a call that looked at one file: files may have been pushed out.
Moves(e, f) ==
    /\ EngineOK(f) /\ f.fingerprints = e.fingerprints
    /\ \A X : HashedAsInspected(e, X) => HashedAsInspected(f, X \cup (InspectedPaths(e) \ InspectedPaths(f)))

LEMMA KeepsIsStep ==
    ASSUME NEW e, NEW f, Keeps(e, f)
    PROVE  Moves(e, f)
<1>1. \A X : X \cup (InspectedPaths(e) \ InspectedPaths(f)) = X
  BY DEF Keeps
<1> QED BY <1>1 DEF Keeps, Moves

LEMMA KeepsStep ==
    ASSUME NEW e, NEW f, NEW g, Keeps(e, f), Moves(f, g)
    PROVE  Moves(e, g)
BY DEF Keeps, Moves

LEMMA StepKeeps ==
    ASSUME NEW e, NEW f, NEW g, Moves(e, f), Keeps(f, g)
    PROVE  Moves(e, g)
BY DEF Keeps, Moves

LEMMA UpsertedStep ==
    ASSUME NEW e, NEW f, NEW p, NEW hash, Upserted(e, f, p, hash)
    PROVE  Moves(e, f) /\ (p \in InspectedPaths(e) => Keeps(e, f))
<1>1. Moves(e, f)
  BY DEF Upserted, Moves
<1>2. ASSUME p \in InspectedPaths(e) PROVE Keeps(e, f)
  <2>1. InspectedPaths(f) = InspectedPaths(e)
    BY <1>2 DEF Upserted
  <2>2. \A X : X \cup (InspectedPaths(e) \ InspectedPaths(f)) = X
    BY <2>1
  <2> QED BY <2>1, <2>2 DEF Upserted, Keeps
<1> QED BY <1>1, <1>2

\* The excerpt of a look at a file goes with the hash that the look left for it.
LEMMA LookAndPush ==
    ASSUME NEW e, NEW f, NEW x \in FileExcerpt, Upserted(e, f, x.path, x.hash)
    PROVE  Keeps(f, PushFileExcerpt(f, x))
<1>1. EngineOK(f)
  BY DEF Upserted
<1>2. x.text \in Contents
  BY DEF FileExcerpt
<1>3. x.text = x.hash => \E i \in DOMAIN f.inspected : /\ f.inspected[i].path = x.path
                                                       /\ f.inspected[i].hash = x.hash
  BY <1>2, UnhashedIsNoContent DEF Upserted
<1>4. LET g == PushFileExcerpt(f, x)
      IN  /\ EngineOK(g) /\ g.inspected = f.inspected /\ g.fingerprints = f.fingerprints
          /\ \A X : HashedAsInspected(f, X) => HashedAsInspected(g, X)
  BY <1>1, <1>3, PushOK
<1> QED BY <1>4 DEF Keeps, InspectedPaths

LEMMA StoreOK ==
    ASSUME NEW e, EngineOK(e), NEW p \in Paths, NEW text \in Contents
    PROVE  /\ Moves(e, StoreAutomaticExcerpt(e, p, text))
           /\ p \in InspectedPaths(e) => Keeps(e, StoreAutomaticExcerpt(e, p, text))
<1> DEFINE lines == AutoRange[1] .. AutoRange[2]
           x == [path |-> p, range |-> AutoRange, text |-> text, hash |-> text]
           f == UpsertInspected(e, p, text, lines)
           g == StoreAutomaticExcerpt(e, p, text)
<1>1. g = PushFileExcerpt(f, x)
  BY DEF StoreAutomaticExcerpt
<1>2. text \in Hashes
  BY UnhashedIsNoContent
<1>3. lines \in SUBSET Int
  OBVIOUS
<1>4. x \in FileExcerpt /\ x.path = p /\ x.hash = text
  BY <1>2 DEF FileExcerpt
<1> HIDE DEF lines, x, g
<1>5. Upserted(e, f, p, text)
  BY <1>2, <1>3, UpsertOK
<1> HIDE DEF f
<1>6. Keeps(f, g)
  BY <1>1, <1>4, <1>5, LookAndPush
<1>7. Moves(e, f) /\ (p \in InspectedPaths(e) => Keeps(e, f))
  BY <1>5, UpsertedStep
<1>8. Moves(e, g) /\ (p \in InspectedPaths(e) => Keeps(e, g))
  BY <1>6, <1>7, StepKeeps, KeepsTwice
<1> QED BY <1>8 DEF g

LEMMA ClearDriftKeeps ==
    ASSUME NEW e, EngineOK(e)
    PROVE  Keeps(e, ClearDrift(e))
BY ClearDriftOK, SameKeeps

LEMMA SummaryKeeps ==
    ASSUME NEW e, EngineOK(e), NEW tool \in {"read", "write", "shell"}, NEW shown \in Seq(Paths)
    PROVE  Keeps(e, PushSummary(e, tool, shown))
BY SummaryOK, SameKeeps

(***************************************************************************)
(* The calls of a turn, as they change the engine.                         *)
(***************************************************************************)

LEMMA ReadOK ==
    ASSUME NEW e, EngineOK(e), NEW x \in [path : Paths, range : ReadRanges \cup {AutoRange}, text : Contents],
           NEW hash \in Hashes
    PROVE  LET seen == UpsertInspected(PushSummary(e, "read", <<x.path>>), x.path, hash, x.range[1] .. x.range[2])
               y == [path |-> x.path, range |-> x.range, text |-> x.text, hash |-> hash]
           IN  Moves(e, ClearDrift(PushFileExcerpt(seen, y)))
<1> DEFINE lines == x.range[1] .. x.range[2]
           told == PushSummary(e, "read", <<x.path>>)
           seen == UpsertInspected(told, x.path, hash, lines)
           y == [path |-> x.path, range |-> x.range, text |-> x.text, hash |-> hash]
           put == PushFileExcerpt(seen, y)
<1>1. x.path \in Paths /\ <<x.path>> \in Seq(Paths) /\ lines \in SUBSET Int
  OBVIOUS
<1>2. y \in FileExcerpt /\ y.path = x.path /\ y.hash = hash
  BY DEF FileExcerpt
<1> HIDE DEF lines, y
<1>3. Keeps(e, told)
  BY <1>1, SummaryKeeps
<1> HIDE DEF told
<1>4. Upserted(told, seen, x.path, hash)
  <2>1. EngineOK(told)
    BY <1>3 DEF Keeps
  <2> QED BY <1>1, <2>1, UpsertOK
<1> HIDE DEF seen
<1>5. Keeps(seen, put)
  BY <1>2, <1>4, LookAndPush
<1> HIDE DEF put
<1>6. Keeps(put, ClearDrift(put))
  BY <1>5, ClearDriftKeeps DEF Keeps
<1>7. Moves(told, seen)
  BY <1>4, UpsertedStep
<1>8. Moves(e, ClearDrift(put))
  BY <1>3, <1>5, <1>6, <1>7, KeepsStep, StepKeeps
<1> QED BY <1>8 DEF put, seen, told, y, lines

LEMMA ReadNothingOK ==
    ASSUME NEW e, EngineOK(e), NEW p \in Paths
    PROVE  Moves(e, ClearDrift(UpsertInspected(PushSummary(e, "read", <<p>>), p, Unhashed, {})))
<1> DEFINE told == PushSummary(e, "read", <<p>>)
           seen == UpsertInspected(told, p, Unhashed, {})
<1>1. Keeps(e, told)
  <2>1. <<p>> \in Seq(Paths)
    OBVIOUS
  <2> QED BY <2>1, SummaryKeeps
<1> HIDE DEF told
<1>2. Unhashed \in Hashes /\ {} \in SUBSET Int
  BY DEF Hashes
<1>3. Upserted(told, seen, p, Unhashed)
  BY <1>1, <1>2, UpsertOK DEF Keeps
<1> HIDE DEF seen
<1>4. Moves(told, seen)
  BY <1>3, UpsertedStep
<1>5. Keeps(seen, ClearDrift(seen))
  BY <1>4, ClearDriftKeeps DEF Moves
<1>6. Moves(e, ClearDrift(seen))
  BY <1>1, <1>4, <1>5, KeepsStep, StepKeeps
<1> QED BY <1>6 DEF seen, told

LEMMA WriteOK ==
    ASSUME NEW e, EngineOK(e), NEW p \in Paths, NEW v \in Contents
    PROVE  LET wrote == DropExcerpts(RecordModifiedPath(
                           UpsertInspected(PushSummary(e, "write", <<p>>), p, v, {}), p), {p})
           IN  Moves(e, ClearDrift(StoreAutomaticExcerpt(wrote, p, v)))
<1> DEFINE told == PushSummary(e, "write", <<p>>)
           seen == UpsertInspected(told, p, v, {})
           noted == RecordModifiedPath(seen, p)
           wrote == DropExcerpts(noted, {p})
           put == StoreAutomaticExcerpt(wrote, p, v)
<1>1. Keeps(e, told)
  <2>1. <<p>> \in Seq(Paths)
    OBVIOUS
  <2> QED BY <2>1, SummaryKeeps
<1> HIDE DEF told
<1>2. v \in Hashes /\ {} \in SUBSET Int
  BY UnhashedIsNoContent
<1>3. Upserted(told, seen, p, v)
  BY <1>1, <1>2, UpsertOK DEF Keeps
<1> HIDE DEF seen
<1>4. Moves(told, seen) /\ EngineOK(seen) /\ p \in InspectedPaths(seen)
  BY <1>3, UpsertedStep DEF Upserted
<1>5. Keeps(seen, noted)
  BY <1>4, ModifiedOK, SameKeeps
<1> HIDE DEF noted
<1>6. Keeps(noted, wrote)
  <2>1. EngineOK(noted)
    BY <1>5 DEF Keeps
  <2>2. EngineOK(wrote) /\ wrote.inspected = noted.inspected /\ wrote.fingerprints = noted.fingerprints
        /\ Fewer(noted, wrote, {p})
    BY <2>1, DropOK
  <2> HIDE DEF wrote
  <2>3. SameFiles(noted, wrote)
    BY <2>2 DEF SameFiles
  <2>4. ASSUME NEW X, HashedAsInspected(noted, X) PROVE HashedAsInspected(wrote, X)
    BY <2>1, <2>2, <2>3, <2>4, HashesKept
  <2> QED BY <2>2, <2>3, <2>4, SameFilesPaths DEF Keeps
<1> HIDE DEF wrote
<1>7. Keeps(wrote, put)
  <2>1. p \in InspectedPaths(wrote) /\ EngineOK(wrote)
    BY <1>4, <1>5, <1>6 DEF Keeps
  <2> QED BY <2>1, StoreOK
<1> HIDE DEF put
<1>8. Keeps(put, ClearDrift(put))
  BY <1>7, ClearDriftKeeps DEF Keeps
<1>9. Moves(e, ClearDrift(put))
  BY <1>1, <1>4, <1>5, <1>6, <1>7, <1>8, KeepsStep, StepKeeps
<1> QED BY <1>9 DEF put, wrote, noted, seen, told

LEMMA RunOK ==
    ASSUME NEW e, EngineOK(e), NEW p \in Paths, NEW v \in Contents \cup {0}, NEW known \in BOOLEAN
    PROVE  LET named == IF known THEN {p} ELSE {}
               ran == InvalidateCommand(IF known THEN RecordModifiedPath(PushSummary(e, "shell", <<p>>), p)
                                        ELSE PushSummary(e, "shell", <<>>), named)
           IN  Moves(e, IF known /\ v # 0 THEN ClearDrift(StoreAutomaticExcerpt(ran, p, v)) ELSE ran)
<1> DEFINE one == PushSummary(e, "shell", <<p>>)
           none == PushSummary(e, "shell", <<>>)
           noted == RecordModifiedPath(one, p)
           told == IF known THEN noted ELSE none
           ran == InvalidateCommand(told, IF known THEN {p} ELSE {})
           put == StoreAutomaticExcerpt(ran, p, v)
<1>1. Keeps(e, one) /\ Keeps(e, none)
  <2>1. <<p>> \in Seq(Paths) /\ <<>> \in Seq(Paths)
    OBVIOUS
  <2> QED BY <2>1, SummaryKeeps
<1> HIDE DEF one, none
<1>2. Keeps(one, noted)
  BY <1>1, ModifiedOK, SameKeeps DEF Keeps
<1> HIDE DEF noted
<1>3. Keeps(e, told)
  BY <1>1, <1>2, KeepsTwice
<1> HIDE DEF told
<1>4. Keeps(told, ran)
  BY <1>3, InvalidateOK DEF Keeps
<1> HIDE DEF ran
<1>5. Keeps(e, ran)
  BY <1>3, <1>4, KeepsTwice
<1>6. ASSUME v # 0 PROVE Moves(e, ClearDrift(put))
  <2>1. Moves(ran, put)
    BY <1>5, <1>6, StoreOK DEF Keeps
  <2> HIDE DEF put
  <2>2. Keeps(put, ClearDrift(put))
    BY <2>1, ClearDriftKeeps DEF Moves
  <2> QED BY <1>5, <2>1, <2>2, KeepsStep, StepKeeps
<1>7. Moves(e, ran)
  BY <1>5, KeepsIsStep
<1> HIDE DEF put
<1>8. Moves(e, IF known /\ v # 0 THEN ClearDrift(put) ELSE ran)
  BY <1>6, <1>7
<1> QED BY <1>8 DEF put, ran, told, noted, one, none

(***************************************************************************)
(* What is selected is a candidate.                                        *)
(***************************************************************************)

Chosen(C) == [item : C, truncated : BOOLEAN]

\* Candidates of C are open or taken.
TakenOK(acc, C) ==
    /\ DOMAIN acc = {"open", "items", "used"}
    /\ acc.items \in Seq(Chosen(C))
    /\ \A r \in acc.open : r.c \in C

LEMMA TakeOK ==
    ASSUME NEW acc, NEW C, TakenOK(acc, C), NEW c \in C, NEW budget
    PROVE  TakenOK(TakeCandidate(acc, c, budget), C) /\ TakeCandidate(acc, c, budget).open = acc.open
<1> DEFINE left == budget - acc.used
           bytes == IF ByteLen(c) < left THEN ByteLen(c) ELSE left
           cut == bytes < ByteLen(c)
           s == [item |-> c, truncated |-> cut]
           used == acc.used + bytes
           more == [acc EXCEPT !.items = Append(acc.items, s), !.used = used]
<1>1. cut \in BOOLEAN
  OBVIOUS
<1>2. TakeCandidate(acc, c, budget) = acc \/ TakeCandidate(acc, c, budget) = more
  BY DEF TakeCandidate
<1> HIDE DEF cut, used
<1>3. s \in Chosen(C)
  BY <1>1 DEF Chosen
<1> HIDE DEF s
<1>4. Append(acc.items, s) \in Seq(Chosen(C))
  BY <1>3 DEF TakenOK
<1>5. DOMAIN more = DOMAIN acc /\ more.items = Append(acc.items, s) /\ more.open = acc.open
  BY DEF TakenOK
<1> HIDE DEF more
<1> QED BY <1>2, <1>4, <1>5 DEF TakenOK

LEMMA TakeBestOK ==
    ASSUME NEW acc, NEW C, TakenOK(acc, C), NEW budget
    PROVE  TakenOK(TakeBest(acc, budget), C)
<1> DEFINE best == {r \in acc.open : \A s \in acc.open \ {r} : RanksBefore(r, s)}
           r == CHOOSE r \in best : TRUE
           took == TakeCandidate(acc, r.c, budget)
           next == [took EXCEPT !.open = took.open \ {r}]
<1>1. TakeBest(acc, budget) = IF best = {} THEN acc ELSE next
  BY DEF TakeBest
<1>2. ASSUME best # {} PROVE TakenOK(next, C)
  <2>1. r \in acc.open
    BY <1>2
  <2> HIDE DEF r
  <2>2. r.c \in C
    BY <2>1 DEF TakenOK
  <2>3. TakenOK(took, C)
    BY <2>2, TakeOK
  <2> HIDE DEF took
  <2>4. DOMAIN next = DOMAIN took /\ next.items = took.items /\ next.open \subseteq took.open
    BY <2>3 DEF TakenOK
  <2> HIDE DEF next
  <2> QED BY <2>3, <2>4 DEF TakenOK
<1> QED BY <1>1, <1>2

\* g takes the first m candidates, for every m up to n.
Takes(g, candidates, budget, n) ==
    g = [m \in 0 .. n |-> IF m = 0 THEN [open |-> Scored(candidates), items |-> <<>>, used |-> 0]
                          ELSE TakeBest(g[m - 1], budget)]

LEMMA TakesExist ==
    ASSUME NEW candidates, NEW budget, NEW N \in Nat
    PROVE  \E g : Takes(g, candidates, budget, N)
<1> DEFINE first == [open |-> Scored(candidates), items |-> <<>>, used |-> 0]
           T == {n \in Nat : \E g : Takes(g, candidates, budget, n)}
<1>1. 0 \in T
  <2> DEFINE g == [m \in 0 .. 0 |-> first]
  <2> HIDE DEF first
  <2>1. g = [m \in 0 .. 0 |-> IF m = 0 THEN first ELSE TakeBest(g[m - 1], budget)]
    OBVIOUS
  <2> HIDE DEF g
  <2>2. Takes(g, candidates, budget, 0)
    BY <2>1 DEF Takes, first
  <2> QED BY <2>2
<1>2. ASSUME NEW n \in Nat, n \in T PROVE n + 1 \in T
  <2>1. PICK f : Takes(f, candidates, budget, n)
    BY <1>2
  <2> DEFINE more == TakeBest(f[n], budget)
             g == [m \in 0 .. (n + 1) |-> IF m <= n THEN f[m] ELSE more]
             next(h, m) == IF m = 0 THEN first ELSE TakeBest(h[m - 1], budget)
  <2>2. \A m \in 0 .. n : f[m] = next(f, m)
    BY <2>1 DEF Takes
  <2> HIDE DEF first
  <2>3. (\A m \in 0 .. n : g[m] = f[m]) /\ g[n + 1] = more
    OBVIOUS
  <2>4. DOMAIN g = 0 .. (n + 1) /\ g = [m \in 0 .. (n + 1) |-> g[m]]
    OBVIOUS
  <2>5. \A m \in 0 .. (n + 1) : g[m] = next(g, m)
    <3> TAKE m \in 0 .. (n + 1)
    <3> HIDE DEF g
    <3>1. CASE m = n + 1
      <4>1. m # 0 /\ m - 1 = n /\ n \in 0 .. n
        BY <3>1
      <4> QED BY <3>1, <4>1, <2>3
    <3>2. CASE m \in 0 .. n
      <4>1. m = 0 \/ m - 1 \in 0 .. n
        BY <3>2
      <4>2. m = 0 => next(f, m) = next(g, m)
        OBVIOUS
      <4>3. m - 1 \in 0 .. n => f[m - 1] = g[m - 1]
        BY <2>3
      <4> HIDE DEF more
      <4> QED BY <3>2, <4>1, <4>2, <4>3, <2>2, <2>3
    <3> QED BY <3>1, <3>2
  <2> HIDE DEF g
  <2>6. Takes(g, candidates, budget, n + 1)
    BY <2>4, <2>5 DEF Takes, first
  <2> QED BY <2>6
<1>3. N \in T
  <2> HIDE DEF T
  <2> QED BY <1>1, <1>2, Induction
<1> QED BY <1>3

LEMMA SelectedAreCandidates ==
    ASSUME NEW candidates, NEW budget
    PROVE  SelectContext(candidates, budget) \in Seq(Chosen(ToSet(candidates)))
<1> DEFINE C == ToSet(candidates)
           N == 4 * MaxItems
           taken == CHOOSE g : Takes(g, candidates, budget, N)
           first == [open |-> Scored(candidates), items |-> <<>>, used |-> 0]
<1>1. MaxItems \in Nat /\ N \in Nat
  BY PromptAssumption
<1> HIDE DEF N
<1>2. Takes(taken, candidates, budget, N)
  BY <1>1, TakesExist
<1>3. SelectContext(candidates, budget) = IF budget <= 0 THEN <<>> ELSE taken[N].items
  BY DEF SelectContext, Takes, N
<1> HIDE DEF taken
<1>4. \A m \in 0 .. N : taken[m] = IF m = 0 THEN first ELSE TakeBest(taken[m - 1], budget)
  BY <1>2 DEF Takes
<1>5. TakenOK(first, C)
  <2>1. \A r \in Scored(candidates) : r.c \in C
    BY DEF Scored
  <2>2. <<>> \in Seq(Chosen(C))
    OBVIOUS
  <2> HIDE DEF C
  <2> QED BY <2>1, <2>2 DEF TakenOK
<1> HIDE DEF first, C
<1> DEFINE T == {n \in Nat : n <= N => TakenOK(taken[n], C)}
<1>6. 0 \in T
  <2>1. taken[0] = first
    BY <1>1, <1>4
  <2> QED BY <2>1, <1>5
<1>7. ASSUME NEW n \in Nat, n \in T PROVE n + 1 \in T
  <2> SUFFICES ASSUME n + 1 <= N PROVE TakenOK(taken[n + 1], C)
    OBVIOUS
  <2>1. n <= N /\ n + 1 \in 0 .. N /\ (n + 1) - 1 = n /\ n + 1 # 0
    BY <1>1
  <2>2. TakenOK(taken[n], C)
    BY <1>7, <2>1
  <2>3. taken[n + 1] = TakeBest(taken[n], budget)
    BY <1>4, <2>1
  <2> QED BY <2>2, <2>3, TakeBestOK
<1>8. N \in T
  <2> HIDE DEF T
  <2> QED BY <1>1, <1>6, <1>7, Induction
<1>9. taken[N].items \in Seq(Chosen(C))
  BY <1>1, <1>8 DEF TakenOK
<1> QED BY <1>3, <1>9 DEF C

ItemFields == {"kind", "path", "content", "range", "task", "phase", "modified", "stale", "targeted",
               "diagnostic", "recency", "delta"}

\* An item has every field, and an excerpt is marked stale when its file is.
ItemOK(e, c) ==
    /\ DOMAIN c = ItemFields
    /\ c.kind = "excerpt" => c.stale = StaleIn(e, c.path)

LEMMA NewItemOK ==
    ASSUME NEW e, NEW kind, NEW p, NEW content
    PROVE  /\ DOMAIN NewItem(e, kind, p, content) = ItemFields
           /\ NewItem(e, kind, p, content).kind = kind /\ NewItem(e, kind, p, content).path = p
BY DEF NewItem, ItemFields

LEMMA ItemsOK ==
    ASSUME NEW e
    PROVE  /\ \A f : ItemOK(e, InspectedItem(e, f))
           /\ \A p : ItemOK(e, ModifiedItem(e, p)) /\ ItemOK(e, UserModifiedItem(e, p))
           /\ \A s : ItemOK(e, SummaryItem(e, s)) /\ ItemOK(e, InstructionItem(e, s))
           /\ \A x : ItemOK(e, ExcerptItem(e, x))
           /\ ItemOK(e, GitItem(e)) /\ ItemOK(e, RepositoryItem(e))
<1>1. ASSUME NEW f PROVE ItemOK(e, InspectedItem(e, f))
  BY NewItemOK DEF InspectedItem, ItemOK, ItemFields
<1>2. ASSUME NEW p PROVE ItemOK(e, ModifiedItem(e, p)) /\ ItemOK(e, UserModifiedItem(e, p))
  BY NewItemOK DEF ModifiedItem, UserModifiedItem, ItemOK, ItemFields
<1>3. ASSUME NEW s PROVE ItemOK(e, SummaryItem(e, s)) /\ ItemOK(e, InstructionItem(e, s))
  BY NewItemOK DEF SummaryItem, InstructionItem, ItemOK, ItemFields
<1>4. ASSUME NEW x PROVE ItemOK(e, ExcerptItem(e, x))
  <2> DEFINE new == NewItem(e, "excerpt", x.path, x.text)
             c == ExcerptItem(e, x)
             stale == StaleIn(e, x.path)
  <2>1. DOMAIN new = ItemFields /\ new.kind = "excerpt" /\ new.path = x.path
    BY NewItemOK
  <2> HIDE DEF new, stale
  <2>2. c = [new EXCEPT !.range = x.range, !.stale = stale, !.modified = x.path \in ToSet(e.modified)]
    BY DEF ExcerptItem, new, stale
  <2> HIDE DEF c
  <2>3. DOMAIN c = ItemFields /\ c.path = x.path /\ c.stale = stale
    BY <2>1, <2>2 DEF ItemFields
  <2>4. c.stale = StaleIn(e, c.path)
    BY <2>3 DEF stale
  <2> QED BY <2>3, <2>4 DEF ItemOK, c
<1>5. ItemOK(e, GitItem(e)) /\ ItemOK(e, RepositoryItem(e))
  BY NewItemOK DEF GitItem, RepositoryItem, ItemOK, ItemFields
<1> QED BY <1>1, <1>2, <1>3, <1>4, <1>5

\* scoped holds the instructions of the first m ones of near, for every m up to n.
Scopes(scoped, near, n) ==
    scoped = [m \in 0 .. n |-> IF m = 0 THEN <<>> ELSE AddInstruction(scoped[m - 1], near[m])]

LEMMA ScopesExist ==
    ASSUME NEW near, NEW N \in Nat
    PROVE  \E g : Scopes(g, near, N)
<1> DEFINE T == {n \in Nat : \E g : Scopes(g, near, n)}
<1>1. 0 \in T
  <2> DEFINE g == [m \in 0 .. 0 |-> <<>>]
  <2>1. g = [m \in 0 .. 0 |-> IF m = 0 THEN <<>> ELSE AddInstruction(g[m - 1], near[m])]
    OBVIOUS
  <2> HIDE DEF g
  <2>2. Scopes(g, near, 0)
    BY <2>1 DEF Scopes
  <2> QED BY <2>2
<1>2. ASSUME NEW n \in Nat, n \in T PROVE n + 1 \in T
  <2>1. PICK f : Scopes(f, near, n)
    BY <1>2
  <2> DEFINE more == AddInstruction(f[n], near[n + 1])
             g == [m \in 0 .. (n + 1) |-> IF m <= n THEN f[m] ELSE more]
             next(h, m) == IF m = 0 THEN <<>> ELSE AddInstruction(h[m - 1], near[m])
  <2>2. \A m \in 0 .. n : f[m] = next(f, m)
    BY <2>1 DEF Scopes
  <2>3. (\A m \in 0 .. n : g[m] = f[m]) /\ g[n + 1] = more
    OBVIOUS
  <2>4. DOMAIN g = 0 .. (n + 1) /\ g = [m \in 0 .. (n + 1) |-> g[m]]
    OBVIOUS
  <2>5. \A m \in 0 .. (n + 1) : g[m] = next(g, m)
    <3> TAKE m \in 0 .. (n + 1)
    <3> HIDE DEF g
    <3>1. CASE m = n + 1
      <4>1. m # 0 /\ m - 1 = n /\ n \in 0 .. n
        BY <3>1
      <4> QED BY <3>1, <4>1, <2>3
    <3>2. CASE m \in 0 .. n
      <4>1. m = 0 \/ m - 1 \in 0 .. n
        BY <3>2
      <4>2. m = 0 => next(f, m) = next(g, m)
        OBVIOUS
      <4>3. m - 1 \in 0 .. n => f[m - 1] = g[m - 1]
        BY <2>3
      <4> HIDE DEF more
      <4> QED BY <3>2, <4>1, <4>2, <4>3, <2>2, <2>3
    <3> QED BY <3>1, <3>2
  <2> HIDE DEF g
  <2>6. Scopes(g, near, n + 1)
    BY <2>4, <2>5 DEF Scopes
  <2> QED BY <2>6
<1>3. N \in T
  <2> HIDE DEF T
  <2> QED BY <1>1, <1>2, Induction
<1> QED BY <1>3

\* The list of instructions is one.
LEMMA InstructionsAreListed ==
    ASSUME NEW e, EngineOK(e)
    PROVE  \E n \in Nat : DOMAIN ScopedInstructions(e) = 1 .. n
<1> DEFINE listed == [i \in DOMAIN e.inspected |-> e.inspected[i].path] \o e.modified \o e.work.relevant
           known == RelevantPaths(e)
           active == IF known = <<>> THEN <<0>> ELSE known
           near == Oldest(active, MaxInstructionPaths)
<1>1. listed \in Seq(Paths)
  <2>1. e.inspected \in Seq(InspectedFile) /\ e.modified \in Seq(Paths) /\ e.work.relevant \in Seq(Paths)
    BY DEF EngineOK
  <2>2. [i \in DOMAIN e.inspected |-> e.inspected[i].path] \in Seq(Paths)
    <3>1. \A f \in InspectedFile : f.path \in Paths
      BY DEF InspectedFile
    <3>2. \A i \in DOMAIN e.inspected : e.inspected[i].path \in Paths
      BY <2>1, <3>1
    <3> QED BY <2>1, <3>2
  <2> QED BY <2>1, <2>2
<1>2. known \in Seq(Paths)
  <2>1. known = Oldest(Distinct(listed), MaxSymbolPaths)
    BY DEF RelevantPaths
  <2> HIDE DEF listed, known
  <2>2. Distinct(listed) \in Seq(Paths)
    BY <1>1, DistinctType
  <2> QED BY <2>1, <2>2, OldestType, PromptAssumption
<1> HIDE DEF known
<1>3. active \in Seq(Paths \cup {0})
  <2>1. <<0>> \in Seq(Paths \cup {0})
    OBVIOUS
  <2>2. known \in Seq(Paths \cup {0})
    <3> DEFINE A == Paths \cup {0}
    <3>1. known \in [1 .. Len(known) -> A] /\ Len(known) \in Nat
      BY <1>2
    <3> HIDE DEF A
    <3> QED BY <3>1 DEF A
  <2> QED BY <2>1, <2>2
<1> HIDE DEF active
<1>4. near \in Seq(Paths \cup {0})
  BY <1>3, OldestType, PromptAssumption
<1> DEFINE N == Len(near)
           scoped == CHOOSE g : Scopes(g, near, N)
           I == {[path |-> p, text |-> InstructionsFrom[p]] : p \in Paths \cup {0}}
<1>5. ScopedInstructions(e) = scoped[N]
  BY DEF ScopedInstructions, Scopes, active, known
<1> HIDE DEF near
<1>6. N \in Nat /\ \A n \in 1 .. N : near[n] \in Paths \cup {0}
  BY <1>4
<1>7. Scopes(scoped, near, N)
  BY <1>6, ScopesExist
<1> HIDE DEF scoped, N
<1>8. \A m \in 0 .. N : scoped[m] = IF m = 0 THEN <<>> ELSE AddInstruction(scoped[m - 1], near[m])
  BY <1>7 DEF Scopes
<1> DEFINE T == {n \in Nat : n <= N => scoped[n] \in Seq(I)}
<1>9. 0 \in T
  <2>1. 0 \in 0 .. N
    BY <1>6
  <2>2. scoped[0] = <<>>
    BY <1>8, <2>1
  <2>3. scoped[0] \in Seq(I)
    BY <2>2
  <2> QED BY <2>3
<1>10. ASSUME NEW n \in Nat, n \in T PROVE n + 1 \in T
  <2> SUFFICES ASSUME n + 1 <= N PROVE scoped[n + 1] \in Seq(I)
    OBVIOUS
  <2>1. n <= N /\ n + 1 \in 0 .. N /\ n + 1 \in 1 .. N /\ (n + 1) - 1 = n /\ n + 1 # 0
    BY <1>6
  <2>2. scoped[n] \in Seq(I)
    BY <1>10, <2>1
  <2>3. scoped[n + 1] = AddInstruction(scoped[n], near[n + 1])
    BY <1>8, <2>1
  <2> DEFINE new == [path |-> near[n + 1], text |-> InstructionsFrom[near[n + 1]]]
  <2>4. new \in I
    BY <1>6, <2>1
  <2> HIDE DEF I
  <2>5. AddInstruction(scoped[n], near[n + 1]) \in Seq(I)
    <3>1. AddInstruction(scoped[n], near[n + 1]) \in {scoped[n], Append(scoped[n], new)}
      BY DEF AddInstruction
    <3> HIDE DEF new
    <3> QED BY <2>2, <2>4, <3>1
  <2> QED BY <2>3, <2>5
<1>11. scoped[N] \in Seq(I)
  <2>1. N \in T
    <3> HIDE DEF T
    <3> QED BY <1>6, <1>9, <1>10, Induction
  <2> QED BY <1>6, <2>1
<1>12. DOMAIN scoped[N] = 1 .. Len(scoped[N]) /\ Len(scoped[N]) \in Nat
  <2> HIDE DEF I
  <2> QED BY <1>11
<1> QED BY <1>5, <1>12

\* What is known of a candidate: it is an item, and it is no news only when its
\* fingerprint is recorded.
CandidateOK(e, deltaOnly, c) ==
    /\ ItemOK(e, c)
    /\ ~c.delta => deltaOnly /\ ItemFingerprint(c) \in ToSet(e.fingerprints)

LEMMA CandidatesOK ==
    ASSUME NEW e, EngineOK(e), NEW deltaOnly
    PROVE  \A c \in ToSet(PacketCandidates(e, deltaOnly)) : CandidateOK(e, deltaOnly, c)
<1> DEFINE F == ToSet(e.fingerprints)
           I == [i \in DOMAIN e.inspected |-> InspectedItem(e, e.inspected[i])]
           M == [i \in DOMAIN e.modified |-> ModifiedItem(e, e.modified[i])]
           U == [i \in DOMAIN e.userModified |-> UserModifiedItem(e, e.userModified[i])]
           S == [i \in DOMAIN e.summaries |-> SummaryItem(e, e.summaries[i])]
           X == [i \in DOMAIN e.excerpts |-> ExcerptItem(e, e.excerpts[i])]
           N == [i \in DOMAIN ScopedInstructions(e) |-> InstructionItem(e, ScopedInstructions(e)[i])]
           G == <<GitItem(e), RepositoryItem(e)>>
           all == I \o M \o U \o S \o X \o N \o G
           R == ToSet(I) \cup ToSet(M) \cup ToSet(U) \cup ToSet(S) \cup ToSet(X) \cup ToSet(N) \cup ToSet(G)
           Marked(a, i) == [a EXCEPT !.recency = i - 1, !.delta = ~deltaOnly \/ ItemFingerprint(a) \notin F]
<1>1. PacketCandidates(e, deltaOnly) = [i \in DOMAIN all |-> Marked(all[i], i)]
  BY DEF PacketCandidates
<1>2. /\ I \in Seq(ToSet(I)) /\ M \in Seq(ToSet(M)) /\ U \in Seq(ToSet(U)) /\ S \in Seq(ToSet(S))
      /\ X \in Seq(ToSet(X)) /\ N \in Seq(ToSet(N)) /\ G \in Seq(ToSet(G))
  <2>1. \A f, n : n \in Nat /\ DOMAIN f = 1 .. n => [i \in DOMAIN f |-> f[i]] \in Seq(ToSet(f))
    BY DEF ToSet
  <2>2. \E n \in Nat : DOMAIN e.inspected = 1 .. n
    BY DEF EngineOK
  <2>3. \E n \in Nat : DOMAIN e.modified = 1 .. n
    BY DEF EngineOK
  <2>4. \E n \in Nat : DOMAIN e.userModified = 1 .. n
    BY DEF EngineOK
  <2>5. \E n \in Nat : DOMAIN e.summaries = 1 .. n
    BY DEF EngineOK
  <2>6. \E n \in Nat : DOMAIN e.excerpts = 1 .. n
    BY DEF EngineOK
  <2>7. \E n \in Nat : DOMAIN ScopedInstructions(e) = 1 .. n
    BY InstructionsAreListed
  <2>8. I \in Seq(ToSet(I))
    <3>1. DOMAIN I = DOMAIN e.inspected /\ I = [i \in DOMAIN I |-> I[i]]
      OBVIOUS
    <3> HIDE DEF I
    <3> QED BY <2>1, <2>2, <3>1
  <2>9. M \in Seq(ToSet(M))
    <3>1. DOMAIN M = DOMAIN e.modified /\ M = [i \in DOMAIN M |-> M[i]]
      OBVIOUS
    <3> HIDE DEF M
    <3> QED BY <2>1, <2>3, <3>1
  <2>10. U \in Seq(ToSet(U))
    <3>1. DOMAIN U = DOMAIN e.userModified /\ U = [i \in DOMAIN U |-> U[i]]
      OBVIOUS
    <3> HIDE DEF U
    <3> QED BY <2>1, <2>4, <3>1
  <2>11. S \in Seq(ToSet(S))
    <3>1. DOMAIN S = DOMAIN e.summaries /\ S = [i \in DOMAIN S |-> S[i]]
      OBVIOUS
    <3> HIDE DEF S
    <3> QED BY <2>1, <2>5, <3>1
  <2>12. X \in Seq(ToSet(X))
    <3>1. DOMAIN X = DOMAIN e.excerpts /\ X = [i \in DOMAIN X |-> X[i]]
      OBVIOUS
    <3> HIDE DEF X
    <3> QED BY <2>1, <2>6, <3>1
  <2>13. N \in Seq(ToSet(N))
    <3>1. DOMAIN N = DOMAIN ScopedInstructions(e) /\ N = [i \in DOMAIN N |-> N[i]]
      OBVIOUS
    <3> HIDE DEF N
    <3> QED BY <2>1, <2>7, <3>1
  <2>14. G \in Seq(ToSet(G))
    <3> DEFINE D == {GitItem(e), RepositoryItem(e)}
    <3>1. G \in Seq(D)
      OBVIOUS
    <3> HIDE DEF G
    <3> QED BY <3>1, OwnMembers
  <2> HIDE DEF I, M, U, S, X, N, G
  <2> QED BY <2>8, <2>9, <2>10, <2>11, <2>12, <2>13, <2>14
<1>3. \A c \in R : ItemOK(e, c)
  <2>1. \A c \in ToSet(I) : ItemOK(e, c)
    BY ItemsOK DEF ToSet
  <2>2. \A c \in ToSet(M) : ItemOK(e, c)
    BY ItemsOK DEF ToSet
  <2>3. \A c \in ToSet(U) : ItemOK(e, c)
    BY ItemsOK DEF ToSet
  <2>4. \A c \in ToSet(S) : ItemOK(e, c)
    BY ItemsOK DEF ToSet
  <2>5. \A c \in ToSet(X) : ItemOK(e, c)
    BY ItemsOK DEF ToSet
  <2>6. \A c \in ToSet(N) : ItemOK(e, c)
    BY ItemsOK DEF ToSet
  <2>7. \A c \in ToSet(G) : ItemOK(e, c)
    BY ItemsOK DEF ToSet
  <2> HIDE DEF I, M, U, S, X, N, G
  <2> QED BY <2>1, <2>2, <2>3, <2>4, <2>5, <2>6, <2>7
<1>4. all \in Seq(R)
  <2> HIDE DEF I, M, U, S, X, N, G
  <2> HIDE DEF R
  <2>1. /\ I \in Seq(R) /\ M \in Seq(R) /\ U \in Seq(R) /\ S \in Seq(R)
        /\ X \in Seq(R) /\ N \in Seq(R) /\ G \in Seq(R)
    BY <1>2 DEF R
  <2>2. \A a, b \in Seq(R) : a \o b \in Seq(R)
    OBVIOUS
  <2> QED BY <2>1, <2>2
<1> HIDE DEF R, all
<1>5. \A i \in DOMAIN all : ItemOK(e, all[i])
  BY <1>3, <1>4
<1>6. \A a, i : ItemOK(e, a) => CandidateOK(e, deltaOnly, Marked(a, i))
  <2> TAKE a, i
  <2> HAVE ItemOK(e, a)
  <2> DEFINE delta == ~deltaOnly \/ ItemFingerprint(a) \notin F
             c == [a EXCEPT !.recency = i - 1, !.delta = delta]
  <2> HIDE DEF delta
  <2>1. /\ DOMAIN c = DOMAIN a /\ c.delta = delta
        /\ \A x \in {"kind", "path", "content", "range", "task", "modified", "stale"} : c[x] = a[x]
    BY DEF ItemOK, ItemFields
  <2>2. c = Marked(a, i)
    BY DEF delta
  <2> HIDE DEF c
  <2>3. ItemOK(e, c)
    BY <2>1 DEF ItemOK
  <2>4. ItemFingerprint(c) = ItemFingerprint(a)
    BY <2>1 DEF ItemFingerprint
  <2>5. ~c.delta => deltaOnly /\ ItemFingerprint(c) \in F
    BY <2>1, <2>4 DEF delta
  <2> HIDE DEF F, Marked
  <2>6. CandidateOK(e, deltaOnly, c)
    BY <2>3, <2>5 DEF CandidateOK, F
  <2> QED BY <2>2, <2>6
<1> HIDE DEF Marked
<1>7. \A c \in ToSet(PacketCandidates(e, deltaOnly)) : \E i \in DOMAIN all : c = Marked(all[i], i)
  BY <1>1 DEF ToSet
<1> QED BY <1>5, <1>6, <1>7

\* What a rendered packet leaves: what it omits was given, what it records it gives,
\* and an excerpt is marked stale when its file is.
RenderedOK(e, r, given) ==
    /\ EngineOK(r.engine) /\ r.engine.inspected = e.inspected /\ r.engine.excerpts = e.excerpts
    /\ RecordedIn(r.engine, given \cup r.whole \cup r.lost)
    /\ r.packet.omitted \subseteq given
    /\ \A i \in DOMAIN r.packet.items : LET c == r.packet.items[i].item
                                        IN  c.kind = "excerpt" => c.stale = StaleIn(e, c.path)

LEMMA WholeIsGiven ==
    ASSUME NEW C, NEW selected \in Seq(Chosen(C)), NEW whole, NEW lost,
           whole = {ItemFingerprint(selected[i].item) : i \in
                      {i \in DOMAIN selected : ~selected[i].truncated /\ (EndsInside(selected, i) <=> TRUE)}},
           lost = {ItemFingerprint(selected[i].item) : i \in
                     {i \in DOMAIN selected : ~selected[i].truncated /\ (EndsInside(selected, i) <=> FALSE)}}
    PROVE  /\ RecordWhole(selected) \in Seq(Chosen(C))
           /\ \A k \in DOMAIN RecordWhole(selected) :
                 ItemFingerprint(RecordWhole(selected)[k].item) \in whole \cup lost
<1> DEFINE T == {s \in ToSet(selected) : ~s.truncated}
           kept == Sift(selected, T)
<1>1. RecordWhole(selected) = kept
  BY DEF RecordWhole
<1>2. /\ kept \in Seq(Chosen(C))
      /\ \A k \in DOMAIN kept : kept[k] \in T /\ \E j \in DOMAIN selected : selected[j] = kept[k]
  <2> HIDE DEF T
  <2> QED BY SiftMembers
<1> HIDE DEF kept
<1>3. ASSUME NEW k \in DOMAIN kept PROVE ItemFingerprint(kept[k].item) \in whole \cup lost
  <2>1. PICK j \in DOMAIN selected : selected[j] = kept[k]
    BY <1>2
  <2>2. ~selected[j].truncated
    BY <1>2, <2>1
  <2>3. CASE EndsInside(selected, j)
    BY <2>1, <2>2, <2>3
  <2>4. CASE ~EndsInside(selected, j)
    BY <2>1, <2>2, <2>4
  <2> QED BY <2>3, <2>4
<1> QED BY <1>1, <1>2, <1>3

LEMMA RecordOK ==
    ASSUME NEW e, EngineOK(e), NEW C, NEW selected \in Seq(Chosen(C)), NEW showsSet \in BOOLEAN,
           NEW given, RecordedIn(e, given), NEW shown,
           RecordWhole(selected) \in Seq(Chosen(C)),
           \A k \in DOMAIN RecordWhole(selected) : ItemFingerprint(RecordWhole(selected)[k].item) \in shown
    PROVE  LET f == RecordRendered(e, selected, showsSet)
           IN  /\ EngineOK(f) /\ f.inspected = e.inspected /\ f.excerpts = e.excerpts
               /\ RecordedIn(f, given \cup shown)
<1> DEFINE F == ToSet(e.fingerprints)
           W == RecordWhole(selected)
           marks == [i \in DOMAIN W |-> ItemFingerprint(W[i].item)]
           ws == <<"working set", WorkingSetOf(e)>>
           some == Oldest(marks, MaxFingerprints)
           added == Distinct(e.fingerprints \o some)
           all == IF showsSet THEN Append(added, ws) ELSE added
           list == Newest(all, MaxFingerprints)
           V == F \cup shown \cup {ws}
           f == [e EXCEPT !.fingerprints = list]
<1>1. RecordRendered(e, selected, showsSet) = f
  BY DEF RecordRendered
<1>2. e.fingerprints \in Seq(F) /\ \A x \in F : x \in given \/ Len(x) = 2
  <2>1. \A x \in F : \E i \in DOMAIN e.fingerprints : e.fingerprints[i] = x
    BY DEF ToSet
  <2> QED BY <2>1 DEF RecordedIn
<1>3. Len(ws) = 2
  OBVIOUS
<1> HIDE DEF F, W, ws
<1>4. marks \in Seq(shown)
  <2>1. W \in Seq(Chosen(C)) /\ \A k \in DOMAIN W : ItemFingerprint(W[k].item) \in shown
    BY DEF W
  <2> QED BY <2>1
<1> HIDE DEF marks
<1>5. some \in Seq(shown)
  BY <1>4, OldestType, PromptAssumption
<1> HIDE DEF some
<1>6. \A A \in SUBSET V : \A s \in Seq(A) : s \in Seq(V)
  <2> HIDE DEF V
  <2> QED OBVIOUS
<1>7. e.fingerprints \in Seq(V) /\ some \in Seq(V) /\ ws \in V
  BY <1>2, <1>5, <1>6
<1>8. \A x \in V : x \in given \cup shown \/ Len(x) = 2
  BY <1>2, <1>3
<1> HIDE DEF V
<1>9. added \in Seq(V)
  <2>1. e.fingerprints \o some \in Seq(V)
    BY <1>7
  <2> QED BY <2>1, DistinctType
<1> HIDE DEF added
<1>10. all \in Seq(V)
  BY <1>7, <1>9
<1> HIDE DEF all
<1>11. list \in Seq(V)
  BY <1>10, NewestType, PromptAssumption
<1> HIDE DEF list
<1>12. f.fingerprints = list /\ DOMAIN f = DOMAIN e /\ \A y \in DOMAIN e \ {"fingerprints"} : f[y] = e[y]
  BY EngineFields DEF EngineOK
<1>13. /\ f.inspected = e.inspected /\ f.modified = e.modified /\ f.userModified = e.userModified
       /\ f.summaries = e.summaries /\ f.work = e.work /\ f.excerpts = e.excerpts
  BY <1>12, EngineFields DEF EngineOK
<1> HIDE DEF f
<1>14. EngineOK(f)
  BY <1>12, <1>13 DEF EngineOK
<1>15. RecordedIn(f, given \cup shown)
  <2>1. list \in Seq(ToSet(list))
    BY <1>11, OwnMembers
  <2>2. \A i \in DOMAIN list : list[i] \in V
    BY <1>11
  <2> QED BY <1>8, <1>12, <2>1, <2>2 DEF RecordedIn
<1> QED BY <1>1, <1>13, <1>14, <1>15

LEMMA RenderOK ==
    ASSUME NEW e, EngineOK(e), NEW deltaOnly \in BOOLEAN, NEW given, RecordedIn(e, given)
    PROVE  RenderedOK(e, RenderPacket(e, deltaOnly), given)
<1> DEFINE candidates == PacketCandidates(e, deltaOnly)
           C == ToSet(candidates)
           selected == SelectContext(candidates, PacketBudget(e))
           showsSet == ~deltaOnly \/ <<"working set", WorkingSetOf(e)>> \notin ToSet(e.fingerprints)
           Marks(inside) == {ItemFingerprint(selected[i].item) : i \in
                               {i \in DOMAIN selected : ~selected[i].truncated /\ (EndsInside(selected, i) <=> inside)}}
           whole == Marks(TRUE)
           lost == Marks(FALSE)
           recorded == RecordRendered(e, selected, showsSet)
           omitted == {ItemFingerprint(c) : c \in {c \in C : ~c.delta}}
           r == RenderPacket(e, deltaOnly)
<1>1. /\ r.engine = recorded /\ r.whole = whole /\ r.lost = lost
      /\ r.packet.omitted = omitted /\ r.packet.items = selected
  BY DEF RenderPacket
<1> HIDE DEF r
<1>2. \A c \in C : CandidateOK(e, deltaOnly, c)
  BY CandidatesOK
<1>3. selected \in Seq(Chosen(C))
  BY SelectedAreCandidates
<1>4. showsSet \in BOOLEAN
  OBVIOUS
<1> HIDE DEF candidates, C, showsSet
<1>5. /\ RecordWhole(selected) \in Seq(Chosen(C))
      /\ \A k \in DOMAIN RecordWhole(selected) :
            ItemFingerprint(RecordWhole(selected)[k].item) \in whole \cup lost
  <2> HIDE DEF selected
  <2> QED BY <1>3, WholeIsGiven
<1> HIDE DEF selected, whole, lost
<1>6. /\ EngineOK(recorded) /\ recorded.inspected = e.inspected /\ recorded.excerpts = e.excerpts
      /\ RecordedIn(recorded, given \cup (whole \cup lost))
  <2> DEFINE shown == whole \cup lost
  <2>1. \A k \in DOMAIN RecordWhole(selected) : ItemFingerprint(RecordWhole(selected)[k].item) \in shown
    BY <1>5
  <2> HIDE DEF shown
  <2>2. RecordedIn(recorded, given \cup shown) /\ EngineOK(recorded) /\ recorded.inspected = e.inspected
        /\ recorded.excerpts = e.excerpts
    BY <1>3, <1>4, <1>5, <2>1, RecordOK
  <2> QED BY <2>2 DEF shown
<1> HIDE DEF recorded
<1>7. omitted \subseteq given
  <2>1. \A c : Len(ItemFingerprint(c)) = 7
    BY DEF ItemFingerprint
  <2>2. ASSUME NEW c \in C, ~c.delta PROVE ItemFingerprint(c) \in given
    <3>1. ItemFingerprint(c) \in ToSet(e.fingerprints)
      BY <1>2, <2>2 DEF CandidateOK
    <3>2. PICK i \in DOMAIN e.fingerprints : e.fingerprints[i] = ItemFingerprint(c)
      BY <3>1 DEF ToSet
    <3>3. ItemFingerprint(c) \in given \/ Len(ItemFingerprint(c)) = 2
      BY <3>2 DEF RecordedIn
    <3>4. 7 # 2
      OBVIOUS
    <3> QED BY <2>1, <3>3, <3>4
  <2> QED BY <2>2
<1>8. \A i \in DOMAIN selected : selected[i].item \in C
  <2>1. \A s \in Chosen(C) : s.item \in C
    BY DEF Chosen
  <2> QED BY <1>3, <2>1
<1>9. \A c \in C : c.kind = "excerpt" => c.stale = StaleIn(e, c.path)
  BY <1>2 DEF CandidateOK, ItemOK
<1>10. given \cup (whole \cup lost) = given \cup whole \cup lost
  OBVIOUS
<1> HIDE DEF omitted
<1> QED BY <1>1, <1>6, <1>7, <1>8, <1>9, <1>10 DEF RenderedOK, r

HashStep(e, f) ==
    \A X : HashedAsInspected(e, X) => HashedAsInspected(f, X \cup (InspectedPaths(e) \ InspectedPaths(f)))

PushedOutStep == pushedOut' = (pushedOut \cup (InspectedPaths(engine) \ InspectedPaths(engine'))) \cap ExcerptPaths(engine')

LEMMA HashStays ==
    ASSUME HashedAsInspected(engine, pushedOut), PushedOutStep, HashStep(engine, engine')
    PROVE  HashedAsInspected(engine, pushedOut)'
<1> DEFINE Y == pushedOut \cup (InspectedPaths(engine) \ InspectedPaths(engine'))
           f == engine'
<1>1. HashedAsInspected(f, Y)
  BY DEF HashStep
<1>2. pushedOut' = Y \cap ExcerptPaths(f)
  BY DEF PushedOutStep
<1> HIDE DEF Y, f
<1>3. \A k \in DOMAIN f.excerpts : f.excerpts[k].path \in ExcerptPaths(f)
  BY DEF ExcerptPaths
<1>4. HashedAsInspected(f, pushedOut')
  BY <1>1, <1>2, <1>3 DEF HashedAsInspected
<1> QED BY <1>4 DEF f, HashedAsInspected

LEMMA SameHashes ==
    ASSUME NEW e, NEW f, f.inspected = e.inspected, f.excerpts = e.excerpts
    PROVE  HashStep(e, f)
<1>1. InspectedPaths(e) = InspectedPaths(f)
  BY DEF InspectedPaths
<1>2. \A X : X \cup (InspectedPaths(e) \ InspectedPaths(f)) = X
  BY <1>1
<1>3. \A X : HashedAsInspected(e, X) => HashedAsInspected(f, X)
  BY DEF HashedAsInspected
<1> QED BY <1>2, <1>3 DEF HashStep

LEMMA EmptyOK == EngineOK(EmptyEngine) /\ EmptyEngine.fingerprints = <<>> /\ EmptyEngine.excerpts = <<>>
<1> DEFINE w == CHOOSE w \in WorkStates : TRUE
<1>1. w \in WorkStates
  BY PromptAssumption
<1>2. {"phase", "relevant", "recovery"} \subseteq DOMAIN w /\ w.relevant \in Seq(Paths)
  BY <1>1, PromptAssumption DEF Paths
<1>3. /\ EmptyEngine.inspected = <<>> /\ EmptyEngine.excerpts = <<>> /\ EmptyEngine.modified = <<>>
      /\ EmptyEngine.userModified = <<>> /\ EmptyEngine.summaries = <<>> /\ EmptyEngine.fingerprints = <<>>
      /\ EmptyEngine.work = w
  BY DEF EmptyEngine
<1> HIDE DEF w
<1>4. \A A : <<>> \in Seq(A)
  OBVIOUS
<1>5. DOMAIN <<>> = {}
  OBVIOUS
<1> QED BY <1>2, <1>3, <1>4, <1>5 DEF EngineOK

LEMMA ContextInitOK == PromptInit => ContextInv
<1> SUFFICES ASSUME PromptInit PROVE ContextInv
  OBVIOUS
<1> USE DEF PromptInit
<1>1. EngineOK(engine) /\ engine.fingerprints = <<>> /\ engine.excerpts = <<>>
  BY EmptyOK
<1>2. files \in [Paths -> Contents \cup {0}] /\ lookedAt = files
  BY PromptAssumption
<1>3. turn = NoTurn /\ turn.pc = "idle" /\ packet.mode = "none" /\ DOMAIN rendered = {"whole", "lost"}
  BY DEF NoTurn, NoPacket
<1>4. ContextTypes
  BY <1>1, <1>2, <1>3 DEF ContextTypes
<1>5. RecordedIn(engine, rendered.whole \cup rendered.lost)
  BY <1>1 DEF RecordedIn
<1>6. HashedAsInspected(engine, pushedOut)
  BY <1>1 DEF HashedAsInspected
<1> QED BY <1>3, <1>4, <1>5, <1>6 DEF ContextInv, TurnPacket

\* A call: the model is told nothing, and one file at most is looked at.
LEMMA CallKeepsPrompt ==
    ASSUME ContextInv, PushedOutStep, Moves(engine, engine'), files' \in [Paths -> Contents \cup {0}],
           DOMAIN turn' = DOMAIN NoTurn, turn'.pc = "running", UNCHANGED <<packet, rendered, lookedAt>>
    PROVE  ContextInv'
<1> USE DEF ContextInv
<1>1. EngineOK(engine)' /\ (engine.fingerprints)' = engine.fingerprints
  BY DEF Moves, EngineOK
<1>2. ContextTypes'
  BY <1>1 DEF ContextTypes
<1>3. RecordedIn(engine, rendered.whole \cup rendered.lost)'
  BY <1>1 DEF RecordedIn
<1>4. HashedAsInspected(engine, pushedOut)'
  <2>1. HashStep(engine, engine')
    BY DEF Moves, HashStep
  <2> QED BY <2>1, HashStays
<1> QED BY <1>2, <1>3, <1>4 DEF TurnPacket

LEMMA TurnFields == DOMAIN NoTurn = {"pc", "continuation", "pending"}
BY DEF NoTurn

\* The engine of the next state, seen as one value.
LEMMA NextEngine ==
    ASSUME EngineOK(engine')
    PROVE  EngineOK(engine)'
BY DEF EngineOK

LEMMA BeginKeepsPrompt ==
    ASSUME ContextInv, PushedOutStep, BeginPrompt
    PROVE  ContextInv'
<1> USE DEF ContextInv, BeginPrompt
<1>1. PICK t \in PromptTasks, w \in WorkStates :
         engine' = [engine EXCEPT !.task = t, !.work = IF engine.work.recovery.active THEN @ ELSE w]
  OBVIOUS
<1> DEFINE work == IF engine.work.recovery.active THEN engine.work ELSE w
<1>2. {"phase", "relevant", "recovery"} \subseteq DOMAIN work /\ work.relevant \in Seq(Paths)
  <2>1. {"phase", "relevant", "recovery"} \subseteq DOMAIN w /\ w.relevant \in Seq(Paths)
    BY PromptAssumption DEF Paths
  <2>2. {"phase", "relevant", "recovery"} \subseteq DOMAIN engine.work /\ engine.work.relevant \in Seq(Paths)
    BY DEF ContextTypes, EngineOK
  <2> QED BY <2>1, <2>2
<1>3. engine' = [engine EXCEPT !.task = t, !.work = work]
  BY <1>1
<1> HIDE DEF work
<1>4. EngineOK(engine)
  BY DEF ContextTypes
<1>5. /\ DOMAIN engine' = DOMAIN engine /\ engine'.work = work
      /\ engine'.inspected = engine.inspected /\ engine'.excerpts = engine.excerpts
      /\ engine'.modified = engine.modified /\ engine'.userModified = engine.userModified
      /\ engine'.summaries = engine.summaries /\ engine'.fingerprints = engine.fingerprints
  BY <1>3, <1>4, EngineFields DEF EngineOK
<1>6. EngineOK(engine')
  BY <1>2, <1>4, <1>5 DEF EngineOK
<1>7. DOMAIN turn' = DOMAIN NoTurn /\ turn'.pc = "look"
  BY TurnFields DEF ContextTypes
<1>8. ContextTypes'
  BY <1>6, <1>7, NextEngine DEF ContextTypes
<1>9. RecordedIn(engine, rendered.whole \cup rendered.lost)'
  BY <1>5 DEF RecordedIn
<1>10. HashedAsInspected(engine, pushedOut)'
  BY <1>5, SameHashes, HashStays
<1> QED BY <1>7, <1>8, <1>9, <1>10 DEF TurnPacket

LEMMA LookKeepsPrompt ==
    ASSUME ContextInv, PushedOutStep, LookAround
    PROVE  ContextInv'
<1> USE DEF ContextInv, LookAround
<1> DEFINE now == RefreshInspected(engine)
<1>1. engine' = SetGit(now, DirtyPaths) /\ lookedAt' = files /\ files' = files
  OBVIOUS
<1>2. EngineOK(engine) /\ files \in [Paths -> Contents \cup {0}]
  BY DEF ContextTypes
<1>3. /\ Keeps(engine, now)
      /\ \A i \in DOMAIN now.inspected : \/ now.inspected[i].stale
                                         \/ now.inspected[i].hash = files[now.inspected[i].path]
  BY <1>2, RefreshOK
<1> HIDE DEF now
<1>4. EngineOK(engine') /\ SameFacts(now, engine')
  BY <1>1, <1>3, SetGitOK, DirtyType DEF Keeps
<1>5. Keeps(engine, engine')
  BY <1>3, <1>4, SameKeeps, KeepsTwice
<1>6. DOMAIN turn' = DOMAIN NoTurn /\ turn'.pc = "attach"
  BY TurnFields DEF ContextTypes
<1>7. ContextTypes'
  BY <1>1, <1>2, <1>4, <1>6, NextEngine DEF ContextTypes
<1>8. RecordedIn(engine, rendered.whole \cup rendered.lost)'
  BY <1>5 DEF RecordedIn, Keeps
<1>9. HashedAsInspected(engine, pushedOut)'
  <2>1. HashStep(engine, engine')
    BY <1>5, KeepsIsStep DEF Moves, HashStep
  <2> QED BY <2>1, HashStays
<1>10. AsLookedAt(engine)'
  BY <1>1, <1>3, <1>4 DEF AsLookedAt, SameFacts
<1> QED BY <1>6, <1>7, <1>8, <1>9, <1>10 DEF TurnPacket

\* A packet is delivered to a turn that has looked at the workspace.
LEMMA DeliverKeepsPrompt ==
    ASSUME ContextInv, PushedOutStep, NEW deltaOnly \in BOOLEAN, Deliver(RenderPacket(engine, deltaOnly)),
           turn.pc \in {"attach", "sent"}, DOMAIN turn' = DOMAIN NoTurn, turn'.pc = "sent",
           UNCHANGED <<files, lookedAt>>
    PROVE  ContextInv'
<1> USE DEF ContextInv
<1> DEFINE r == RenderPacket(engine, deltaOnly)
           given == rendered.whole \cup rendered.lost
<1>1. /\ packet' = r.packet /\ engine' = r.engine
      /\ rendered' = [whole |-> rendered.whole \cup r.whole, lost |-> rendered.lost \cup r.lost]
  BY DEF Deliver
<1>2. EngineOK(engine) /\ RecordedIn(engine, given)
  BY DEF ContextTypes
<1>3. RenderedOK(engine, r, given)
  BY <1>2, RenderOK
<1> HIDE DEF r
<1>4. /\ EngineOK(engine') /\ engine'.inspected = engine.inspected /\ engine'.excerpts = engine.excerpts
      /\ RecordedIn(engine', given \cup r.whole \cup r.lost) /\ r.packet.omitted \subseteq given
  BY <1>1, <1>3 DEF RenderedOK
<1>5. /\ rendered'.whole \cup rendered'.lost = given \cup r.whole \cup r.lost
      /\ DOMAIN rendered' = {"whole", "lost"}
  BY <1>1
<1>6. ContextTypes'
  BY <1>4, <1>5, NextEngine DEF ContextTypes
<1>7. RecordedIn(engine, rendered.whole \cup rendered.lost)'
  BY <1>4, <1>5 DEF RecordedIn
<1>8. HashedAsInspected(engine, pushedOut)'
  BY <1>4, SameHashes, HashStays
<1>9. AsLookedAt(engine)'
  BY <1>4 DEF AsLookedAt
<1>10. packet'.omitted \subseteq rendered'.whole \cup rendered'.lost
  BY <1>1, <1>4, <1>5
<1>11. (\A x \in ShownExcerpts : ~StaleIn(engine, x.path))'
  <2> SUFFICES ASSUME NEW i \in DOMAIN packet'.items, packet'.items[i].item.kind = "excerpt",
                      ~packet'.items[i].item.stale
               PROVE  ~StaleIn(engine, packet.items[i].item.path)'
    BY DEF ShownExcerpts
  <2>1. packet'.items[i].item.stale = StaleIn(engine, packet'.items[i].item.path)
    BY <1>1, <1>3 DEF RenderedOK
  <2>2. ~StaleIn(engine, packet'.items[i].item.path)
    BY <2>1
  <2> QED BY <2>2, <1>4 DEF StaleIn
<1> QED BY <1>6, <1>7, <1>8, <1>9, <1>10, <1>11 DEF TurnPacket

LEMMA AttachKeepsPrompt ==
    ASSUME ContextInv, PushedOutStep, AttachPacket
    PROVE  ContextInv'
<1> USE DEF AttachPacket
<1>1. DOMAIN turn' = DOMAIN NoTurn /\ turn'.pc = "sent"
  BY TurnFields DEF ContextInv, ContextTypes
<1>2. CASE ~turn.continuation \/ engine.changed \/ AnyStaleFile(engine)
  <2>1. Deliver(RenderPacket(engine, TRUE))
    BY <1>2
  <2> QED BY <1>1, <2>1, DeliverKeepsPrompt
<1>3. CASE ~(~turn.continuation \/ engine.changed \/ AnyStaleFile(engine))
  <2>1. packet' = NoPacket /\ rendered' = rendered /\ engine' = engine
    BY <1>3
  <2>2. packet'.mode = "none"
    BY <2>1 DEF NoPacket
  <2>3. ContextTypes'
    BY <1>1, <2>1 DEF ContextInv, ContextTypes, EngineOK
  <2>4. RecordedIn(engine, rendered.whole \cup rendered.lost)'
    BY <2>1 DEF ContextInv, RecordedIn
  <2>5. HashedAsInspected(engine, pushedOut)'
    <3>1. engine'.inspected = engine.inspected /\ engine'.excerpts = engine.excerpts
      BY <2>1
    <3> QED BY <3>1, SameHashes, HashStays DEF ContextInv
  <2>6. AsLookedAt(engine)'
    BY <2>1 DEF ContextInv, AsLookedAt
  <2> QED BY <2>2, <2>3, <2>4, <2>5, <2>6 DEF ContextInv, TurnPacket
<1> QED BY <1>2, <1>3

LEMMA ReconstructKeepsPrompt ==
    ASSUME ContextInv, PushedOutStep, Reconstruct
    PROVE  ContextInv'
<1>1. DOMAIN turn' = DOMAIN NoTurn /\ turn'.pc = "sent"
  BY TurnFields DEF ContextInv, ContextTypes, Reconstruct
<1> QED BY <1>1, DeliverKeepsPrompt DEF Reconstruct

\* A step that neither looks at a file nor tells the model anything.
LEMMA AsideKeepsPrompt ==
    ASSUME ContextInv, PushedOutStep, engine' = engine, rendered' = rendered, lookedAt' = lookedAt,
           files' \in [Paths -> Contents \cup {0}], DOMAIN turn' = DOMAIN NoTurn,
           turn'.pc = "hash" =>
              turn'.pending \in [path : Paths, range : ReadRanges \cup {AutoRange}, text : Contents],
           turn'.pc \in {"attach", "sent"} => turn' = turn,
           packet'.mode \in {"delta", "full"} => packet' = packet
    PROVE  ContextInv'
<1>1. ContextTypes'
  BY DEF ContextInv, ContextTypes, EngineOK
<1>2. RecordedIn(engine, rendered.whole \cup rendered.lost)'
  BY DEF ContextInv, RecordedIn
<1>3. HashedAsInspected(engine, pushedOut)'
  <2>1. engine'.inspected = engine.inspected /\ engine'.excerpts = engine.excerpts
    OBVIOUS
  <2> QED BY <2>1, SameHashes, HashStays DEF ContextInv
<1>4. turn'.pc \in {"attach", "sent"} => AsLookedAt(engine)'
  BY DEF ContextInv, AsLookedAt
<1>5. TurnPacket' => (\A x \in ShownExcerpts : ~StaleIn(engine, x.path))'
  BY DEF ContextInv, TurnPacket, ShownExcerpts, StaleIn
<1> QED BY <1>1, <1>2, <1>3, <1>4, <1>5 DEF ContextInv

LEMMA NoExcerptsHashed ==
    ASSUME NEW e, e.excerpts = <<>>
    PROVE  \A X : HashedAsInspected(e, X)
<1>1. DOMAIN <<>> = {}
  OBVIOUS
<1> QED BY <1>1 DEF HashedAsInspected

LEMMA ResumeKeepsPrompt ==
    ASSUME ContextInv, PushedOutStep, ResumeSession
    PROVE  ContextInv'
<1> USE DEF ContextInv, ResumeSession
<1> DEFINE stored == RestoreEngine(Persistable(engine))
           given == rendered.whole \cup rendered.lost
<1>1. engine' = RefreshInspected(stored)
  OBVIOUS
<1>2. EngineOK(stored) /\ stored.excerpts = <<>> /\ RecordedIn(stored, given)
  BY RestoreOK DEF ContextTypes
<1> HIDE DEF stored
<1>3. Keeps(stored, engine')
  BY <1>1, <1>2, RefreshOK DEF ContextTypes
<1>4. DOMAIN turn' = DOMAIN NoTurn /\ turn'.pc = "idle"
  BY TurnFields DEF ContextTypes
<1>5. ContextTypes'
  BY <1>3, <1>4, NextEngine DEF ContextTypes, Keeps
<1>6. RecordedIn(engine, rendered.whole \cup rendered.lost)'
  BY <1>2, <1>3 DEF RecordedIn, Keeps
<1>7. HashedAsInspected(engine, pushedOut)'
  <2>1. \A X : HashedAsInspected(stored, X)
    BY <1>2, NoExcerptsHashed
  <2>2. \A X : HashedAsInspected(engine', X)
    BY <1>3, <2>1 DEF Keeps
  <2> QED BY <2>2 DEF HashedAsInspected
<1> QED BY <1>4, <1>5, <1>6, <1>7 DEF TurnPacket

LEMMA ContextStep ==
    ASSUME ContextInv, [ContextNext]_contextVars
    PROVE  ContextInv'
<1>1. CASE ContextNext
  <2> USE <1>1
  <2>1. PushedOutStep
    BY DEF ContextNext, PushedOutStep
  <2>2. EngineOK(engine) /\ files \in [Paths -> Contents \cup {0}]
    BY DEF ContextInv, ContextTypes
  <2>3. CASE BeginPrompt
    BY <2>1, <2>3, BeginKeepsPrompt
  <2>4. CASE LookAround
    BY <2>1, <2>4, LookKeepsPrompt
  <2>5. CASE AttachPacket
    BY <2>1, <2>5, AttachKeepsPrompt
  <2>6. CASE Reconstruct
    BY <2>1, <2>6, ReconstructKeepsPrompt
  <2>7. CASE ReadLines
    <3> USE DEF ReadLines
    <3>1. PICK p \in Paths, r \in ReadRanges :
             /\ files[p] # 0
             /\ turn' = [turn EXCEPT !.pc = "hash", !.pending = [path |-> p, range |-> r, text |-> files[p]]]
      BY <2>7
    <3>2. files[p] \in Contents
      BY <2>2, <3>1
    <3>3. /\ DOMAIN turn' = DOMAIN NoTurn /\ turn'.pc = "hash"
          /\ turn'.pending = [path |-> p, range |-> r, text |-> files[p]]
      BY <3>1, TurnFields DEF ContextInv, ContextTypes
    <3>4. turn'.pending \in [path : Paths, range : ReadRanges \cup {AutoRange}, text : Contents]
      BY <3>2, <3>3
    <3>5. engine' = engine /\ rendered' = rendered /\ lookedAt' = lookedAt /\ packet' = packet /\ files' = files
      BY <2>7
    <3> QED BY <2>1, <2>2, <3>3, <3>4, <3>5, AsideKeepsPrompt
  <2>8. CASE HashFile
    <3> DEFINE x == turn.pending
               hash == IF files[x.path] = 0 THEN Unhashed ELSE files[x.path]
               seen == UpsertInspected(PushSummary(engine, "read", <<x.path>>), x.path, hash,
                                       x.range[1] .. x.range[2])
               y == [path |-> x.path, range |-> x.range, text |-> x.text, hash |-> hash]
    <3>1. engine' = ClearDrift(PushFileExcerpt(seen, y))
      BY <2>8 DEF HashFile
    <3>2. x \in [path : Paths, range : ReadRanges \cup {AutoRange}, text : Contents]
      BY <2>8 DEF HashFile, ContextInv, ContextTypes
    <3>3. hash \in Hashes
      BY <2>2, <3>2 DEF Hashes
    <3> HIDE DEF hash, x
    <3>4. Moves(engine, engine')
      BY <2>2, <3>1, <3>2, <3>3, ReadOK
    <3>5. /\ DOMAIN turn' = DOMAIN NoTurn /\ turn'.pc = "running" /\ UNCHANGED <<packet, rendered, lookedAt>>
          /\ files' = files
      BY <2>8, TurnFields DEF HashFile, ContextInv, ContextTypes
    <3> QED BY <2>1, <2>2, <3>4, <3>5, CallKeepsPrompt
  <2>9. CASE ReadNothing
    <3>1. PICK p \in Paths :
             engine' = ClearDrift(UpsertInspected(PushSummary(engine, "read", <<p>>), p, Unhashed, {}))
      BY <2>9 DEF ReadNothing
    <3>2. Moves(engine, engine')
      BY <2>2, <3>1, ReadNothingOK
    <3>3. /\ DOMAIN turn' = DOMAIN NoTurn /\ turn'.pc = "running" /\ UNCHANGED <<packet, rendered, lookedAt>>
          /\ files' = files
      BY <2>9, TurnFields DEF ReadNothing, ContextInv, ContextTypes
    <3> QED BY <2>1, <2>2, <3>2, <3>3, CallKeepsPrompt
  <2>10. CASE AgentWrites
    <3>1. PICK p \in Paths : \E v \in Contents \ {files[p]} :
             LET wrote == DropExcerpts(RecordModifiedPath(
                             UpsertInspected(PushSummary(engine, "write", <<p>>), p, v, {}), p), {p})
             IN  /\ files' = [files EXCEPT ![p] = v]
                 /\ engine' = ClearDrift(StoreAutomaticExcerpt(wrote, p, v))
      BY <2>10 DEF AgentWrites
    <3>2. PICK v \in Contents \ {files[p]} :
             LET wrote == DropExcerpts(RecordModifiedPath(
                             UpsertInspected(PushSummary(engine, "write", <<p>>), p, v, {}), p), {p})
             IN  /\ files' = [files EXCEPT ![p] = v]
                 /\ engine' = ClearDrift(StoreAutomaticExcerpt(wrote, p, v))
      BY <3>1
    <3>3. Moves(engine, engine')
      BY <2>2, <3>2, WriteOK
    <3>4. files' \in [Paths -> Contents \cup {0}]
      BY <2>2, <3>2
    <3>5. DOMAIN turn' = DOMAIN NoTurn /\ turn'.pc = "running" /\ UNCHANGED <<packet, rendered, lookedAt>>
      BY <2>10, TurnFields DEF AgentWrites, ContextInv, ContextTypes
    <3> QED BY <2>1, <3>3, <3>4, <3>5, CallKeepsPrompt
  <2>11. CASE CommandRuns
    <3>1. PICK p \in Paths, v \in Contents \cup {0}, known \in BOOLEAN :
             LET named == IF known THEN {p} ELSE {}
                 ran == InvalidateCommand(IF known THEN RecordModifiedPath(PushSummary(engine, "shell", <<p>>), p)
                                          ELSE PushSummary(engine, "shell", <<>>), named)
             IN  /\ files' = [files EXCEPT ![p] = v]
                 /\ engine' = IF known /\ v # 0
                              THEN ClearDrift(StoreAutomaticExcerpt(ran, p, v)) ELSE ran
      BY <2>11 DEF CommandRuns
    <3>2. Moves(engine, engine')
      BY <2>2, <3>1, RunOK
    <3>3. files' \in [Paths -> Contents \cup {0}]
      BY <2>2, <3>1
    <3>4. DOMAIN turn' = DOMAIN NoTurn /\ turn'.pc = "running" /\ UNCHANGED <<packet, rendered, lookedAt>>
      BY <2>11, TurnFields DEF CommandRuns, ContextInv, ContextTypes
    <3> QED BY <2>1, <3>2, <3>3, <3>4, CallKeepsPrompt
  <2>12. CASE UpdateEvidence
    <3>1. /\ engine' = engine /\ rendered' = rendered /\ lookedAt' = lookedAt /\ files' = files /\ turn' = turn
          /\ turn.pc = "running" /\ packet' = [NoPacket EXCEPT !.mode = "evidence", !.items = EvidenceDelta(engine)]
      BY <2>12 DEF UpdateEvidence
    <3>2. packet'.mode = "evidence"
      BY <3>1 DEF NoPacket
    <3>3. DOMAIN turn' = DOMAIN NoTurn /\ turn'.pc = "running"
      BY <3>1 DEF ContextInv, ContextTypes
    <3> QED BY <2>1, <2>2, <3>1, <3>2, <3>3, AsideKeepsPrompt
  <2>13. CASE EndPrompt
    <3>1. /\ engine' = engine /\ rendered' = rendered /\ lookedAt' = lookedAt /\ files' = files
          /\ packet' = NoPacket /\ \E c \in BOOLEAN : turn' = [NoTurn EXCEPT !.continuation = c]
      BY <2>13 DEF EndPrompt
    <3>2. packet'.mode = "none" /\ DOMAIN turn' = DOMAIN NoTurn /\ turn'.pc = "idle"
      BY <3>1 DEF NoPacket, NoTurn
    <3> QED BY <2>1, <2>2, <3>1, <3>2, AsideKeepsPrompt
  <2>14. CASE ResumeSession
    BY <2>1, <2>14, ResumeKeepsPrompt
  <2>15. CASE UserEdits
    <3>1. /\ engine' = engine /\ rendered' = rendered /\ lookedAt' = lookedAt /\ packet' = packet /\ turn' = turn
          /\ \E p \in Paths : \E v \in (Contents \cup {0}) \ {files[p]} : files' = [files EXCEPT ![p] = v]
      BY <2>15 DEF UserEdits
    <3>2. files' \in [Paths -> Contents \cup {0}]
      BY <2>2, <3>1
    <3>3. DOMAIN turn' = DOMAIN NoTurn
      BY <3>1 DEF ContextInv, ContextTypes
    <3>4. turn'.pc = "hash" =>
              turn'.pending \in [path : Paths, range : ReadRanges \cup {AutoRange}, text : Contents]
      BY <3>1 DEF ContextInv, ContextTypes
    <3> QED BY <2>1, <3>1, <3>2, <3>3, <3>4, AsideKeepsPrompt
  <2> QED
    BY <2>3, <2>4, <2>5, <2>6, <2>7, <2>8, <2>9, <2>10, <2>11, <2>12, <2>13, <2>14, <2>15 DEF ContextNext
<1>2. CASE UNCHANGED contextVars
  <2>1. /\ files' = files /\ engine' = engine /\ turn' = turn /\ packet' = packet /\ rendered' = rendered
        /\ lookedAt' = lookedAt /\ pushedOut' = pushedOut
    BY <1>2 DEF contextVars
  <2>2. ContextTypes'
    BY <2>1 DEF ContextInv, ContextTypes, EngineOK
  <2> QED
    BY <2>1, <2>2 DEF ContextInv, RecordedIn, HashedAsInspected, AsLookedAt, TurnPacket, ShownExcerpts, StaleIn
<1> QED BY <1>1, <1>2

\* In every state of a session's turns the engine is in order: what is recorded as shown was
\* given, what a packet leaves out was given, and an excerpt has the hash its file was last
\* seen with unless the file was pushed out of the list (context.rs).
THEOREM ContextInvHolds == PromptSpec => []ContextInv
<1>1. PromptInit => ContextInv
  BY ContextInitOK
<1>2. ContextInv /\ [ContextNext]_contextVars => ContextInv'
  BY ContextStep
<1> QED BY <1>1, <1>2, PTL DEF PromptSpec

\* What a delta leaves out, an earlier packet was to hold in full (render_internal).
THEOREM NothingNewIsOmitted == PromptSpec => []OmittedWasGiven
<1>1. ContextInv => OmittedWasGiven
  BY DEF ContextInv, OmittedWasGiven, TurnPacket
<1> QED BY <1>1, ContextInvHolds, PTL

\* An excerpt that a packet calls current shows its file as this turn's look at the
\* workspace found it (upsert_inspected, refresh_against_workspace).
THEOREM CurrentExcerptsAreCurrent == PromptSpec => []OwnHashIsCurrent
<1>1. ContextInv => OwnHashIsCurrent
  <2> SUFFICES ASSUME ContextInv, TurnPacket, NEW x \in ShownExcerpts, x.path \notin pushedOut,
                      NEW k \in DOMAIN engine.excerpts, engine.excerpts[k].path = x.path,
                      engine.excerpts[k].text = x.content, engine.excerpts[k].hash = x.content
               PROVE  x.content = lookedAt[x.path]
    BY DEF OwnHashIsCurrent
  <2>1. PICK i \in DOMAIN engine.inspected : /\ engine.inspected[i].path = x.path
                                             /\ engine.inspected[i].hash = x.content
    BY DEF ContextInv, HashedAsInspected
  <2>2. ~StaleIn(engine, x.path)
    BY DEF ContextInv
  <2>3. ~engine.inspected[i].stale
    BY <2>1, <2>2 DEF StaleIn
  <2>4. AsLookedAt(engine)
    BY DEF ContextInv, TurnPacket
  <2> QED BY <2>1, <2>3, <2>4 DEF AsLookedAt
<1> QED BY <1>1, ContextInvHolds, PTL

(***************************************************************************)
(* The repository planner.                                                 *)
(***************************************************************************)

\* A list, of whatever its members are.
IsList(s) == \E U : s \in Seq(U)

LEMMA ListFacts ==
    ASSUME NEW s, IsList(s)
    PROVE  /\ Len(s) \in Nat /\ DOMAIN s = 1 .. Len(s)
           /\ s \in Seq(ToSet(s))
           /\ ToSet(s) = {s[i] : i \in 1 .. Len(s)}
<1>1. PICK U : s \in Seq(U)  BY DEF IsList
<1>2. s \in Seq(ToSet(s))  BY <1>1, OwnMembers
<1>3. Len(s) \in Nat /\ DOMAIN s = 1 .. Len(s)  BY <1>1
<1> QED BY <1>2, <1>3 DEF ToSet

LEMMA EmptyList == IsList(<<>>) /\ Len(<<>>) = 0
<1>1. <<>> \in Seq({})  OBVIOUS
<1> QED BY <1>1 DEF IsList

LEMMA ListAppend ==
    ASSUME NEW s, IsList(s), NEW x
    PROVE  /\ IsList(Append(s, x)) /\ Len(Append(s, x)) = Len(s) + 1
           /\ \A i \in 1 .. Len(s) : Append(s, x)[i] = s[i]
           /\ Append(s, x)[Len(s) + 1] = x
<1> DEFINE U == ToSet(s) \cup {x}
<1>1. s \in Seq(ToSet(s)) /\ Len(s) \in Nat  BY ListFacts
<1>2. ToSet(s) \subseteq U /\ x \in U  OBVIOUS
<1> HIDE DEF U
<1>3. s \in Seq(U)  BY <1>1, <1>2
<1>4. Append(s, x) \in Seq(U)  BY <1>2, <1>3
<1>5. /\ Len(Append(s, x)) = Len(s) + 1
      /\ \A i \in 1 .. Len(s) : Append(s, x)[i] = s[i]
      /\ Append(s, x)[Len(s) + 1] = x
  BY <1>2, <1>3
<1> QED BY <1>4, <1>5 DEF IsList

\* Everything in a list stays in it when it grows, and there is one member more.
LEMMA AppendMembers ==
    ASSUME NEW s, IsList(s), NEW x
    PROVE  /\ \A i \in DOMAIN s : i \in DOMAIN Append(s, x) /\ Append(s, x)[i] = s[i]
           /\ Len(s) + 1 \in DOMAIN Append(s, x) /\ Append(s, x)[Len(s) + 1] = x
           /\ \A i \in DOMAIN Append(s, x) : i \in DOMAIN s \/ Append(s, x)[i] = x
<1>1. Len(s) \in Nat /\ DOMAIN s = 1 .. Len(s)  BY ListFacts
<1>2. /\ IsList(Append(s, x)) /\ Len(Append(s, x)) = Len(s) + 1
      /\ \A i \in 1 .. Len(s) : Append(s, x)[i] = s[i]
      /\ Append(s, x)[Len(s) + 1] = x
  BY ListAppend
<1> DEFINE t == Append(s, x)
<1>3. DOMAIN t = 1 .. (Len(s) + 1)  BY <1>2, ListFacts
<1> HIDE DEF t
<1>4. \A i \in 1 .. (Len(s) + 1) : i \in 1 .. Len(s) \/ i = Len(s) + 1  BY <1>1
<1>5. \A i \in 1 .. Len(s) : i \in 1 .. (Len(s) + 1)  BY <1>1
<1>6. Len(s) + 1 \in 1 .. (Len(s) + 1)  BY <1>1
<1> QED BY <1>1, <1>2, <1>3, <1>4, <1>5, <1>6 DEF t

\* A limit that a list does not reach leaves it as it is.
LEMMA AtMostAll ==
    ASSUME NEW s, IsList(s), NEW n \in Nat, Len(s) <= n
    PROVE  AtMost(n, s) = s
<1>1. s \in Seq(ToSet(s)) /\ Len(s) \in Nat  BY ListFacts
<1> DEFINE k == IF Len(s) < n THEN Len(s) ELSE n
<1>2. k = Len(s)  BY <1>1
<1>3. AtMost(n, s) = SubSeq(s, 1, k)  BY DEF AtMost
<1> HIDE DEF k
<1>4. SubSeq(s, 1, Len(s)) = s  BY <1>1
<1> QED BY <1>2, <1>3, <1>4

\* A cut list is one of the first members.
LEMMA AtMostList ==
    ASSUME NEW s, IsList(s), NEW n \in Nat
    PROVE  /\ IsList(AtMost(n, s)) /\ Len(AtMost(n, s)) <= n /\ Len(AtMost(n, s)) <= Len(s)
           /\ \A i \in DOMAIN AtMost(n, s) : i \in DOMAIN s /\ AtMost(n, s)[i] = s[i]
<1>1. s \in Seq(ToSet(s)) /\ Len(s) \in Nat /\ DOMAIN s = 1 .. Len(s)  BY ListFacts
<1> DEFINE k == IF Len(s) < n THEN Len(s) ELSE n
           t == SubSeq(s, 1, k)
<1>2. k \in 0 .. Len(s) /\ k <= n  BY <1>1
<1>3. AtMost(n, s) = t  BY DEF AtMost
<1> HIDE DEF k
<1>4. t \in Seq(ToSet(s)) /\ Len(t) = k /\ \A i \in 1 .. k : t[i] = s[i]  BY <1>1, <1>2
<1>5. IsList(t)  BY <1>4 DEF IsList
<1>6. DOMAIN t = 1 .. k  BY <1>4, <1>5, ListFacts
<1>7. \A i \in 1 .. k : i \in 1 .. Len(s)  BY <1>1, <1>2
<1> HIDE DEF t
<1> QED BY <1>1, <1>2, <1>3, <1>4, <1>5, <1>6, <1>7

\* One more step of a loop over a list: the values so far, and the next.
Longer(f, n, x) == [i \in 0 .. n |-> IF i < n THEN f[i] ELSE x]

LEMMA LongerLoop ==
    ASSUME NEW n \in Nat, NEW f, NEW x
    PROVE  LET g == Longer(f, n + 1, x)
           IN  /\ DOMAIN g = 0 .. (n + 1) /\ g = [i \in 0 .. (n + 1) |-> g[i]]
               /\ \A i \in 0 .. n : g[i] = f[i]
               /\ g[n + 1] = x
<1>1. \A i \in 0 .. n : i \in 0 .. (n + 1) /\ i < n + 1  OBVIOUS
<1>2. n + 1 \in 0 .. (n + 1) /\ ~(n + 1 < n + 1)  OBVIOUS
<1> QED BY <1>1, <1>2 DEF Longer

\* The loops of the planner give their values in the order of their lists.
PlannedInOrder(after, context, targets) ==
    /\ after[0] = [seen |-> <<>>, plan |-> EmptyPlan]
    /\ \A i \in 1 .. Len(targets) : after[i] = PlanTarget(context, after[i - 1], targets[i])
    /\ PlanTargets(context, targets) = after[Len(targets)]

LEMMA PlansInOrder ==
    ASSUME NEW context, NEW targets, Len(targets) \in Nat
    PROVE  \E after : PlannedInOrder(after, context, targets)
<1> DEFINE next(f, i) == IF i = 0 THEN [seen |-> <<>>, plan |-> EmptyPlan] ELSE PlanTarget(context, f[i - 1], targets[i])
           Goes(f, m) == f = [i \in 0 .. m |-> next(f, i)]
           S == {m \in Nat : \E f : Goes(f, m)}
           N == Len(targets)
           after == CHOOSE f : Goes(f, N)
<1>1. PlanTargets(context, targets) = after[N]  BY DEF PlanTargets
<1>2. 0 \in S
  <2> DEFINE f == [i \in 0 .. 0 |-> [seen |-> <<>>, plan |-> EmptyPlan]]
  <2>1. Goes(f, 0)  OBVIOUS
  <2> QED BY <2>1
<1>3. ASSUME NEW m \in Nat, m \in S PROVE m + 1 \in S
  <2>1. PICK f : Goes(f, m)  BY <1>3
  <2> DEFINE g == Longer(f, m + 1, next(f, m + 1))
  <2>2. /\ DOMAIN g = 0 .. (m + 1) /\ g = [i \in 0 .. (m + 1) |-> g[i]]
        /\ \A i \in 0 .. m : g[i] = f[i]
        /\ g[m + 1] = next(f, m + 1)
    BY LongerLoop
  <2> HIDE DEF g
  <2>3. \A i \in 0 .. m : f[i] = next(f, i)  BY <2>1
  <2>4. \A i \in 0 .. (m + 1) : i = 0 \/ i - 1 \in 0 .. m  OBVIOUS
  <2>5. \A i \in 0 .. (m + 1) : next(g, i) = next(f, i)  BY <2>2, <2>4
  <2>6. \A i \in 0 .. (m + 1) : i \in 0 .. m \/ i = m + 1  OBVIOUS
  <2> HIDE DEF next
  <2>7. \A i \in 0 .. (m + 1) : g[i] = next(g, i)  BY <2>2, <2>3, <2>5, <2>6
  <2>8. Goes(g, m + 1)  BY <2>2, <2>7
  <2> QED BY <2>8
<1>4. N \in S
  <2> HIDE DEF S
  <2> QED BY <1>2, <1>3, Induction
<1>5. Goes(after, N)  BY <1>4
<1> HIDE DEF after
<1>6. 0 \in 0 .. N /\ \A i \in 1 .. N : i \in 0 .. N /\ i # 0  BY DEF N
<1>7. \A i \in 0 .. N : after[i] = next(after, i)  BY <1>5
<1> QED BY <1>1, <1>6, <1>7 DEF PlannedInOrder

PushedInOrder(after, observation, excerpts) ==
    /\ after[0] = observation
    /\ \A i \in 1 .. Len(excerpts) : after[i] = PushExcerpt(after[i - 1], excerpts[i])
    /\ PushExcerpts(observation, excerpts) = after[Len(excerpts)]

LEMMA PushesInOrder ==
    ASSUME NEW observation, NEW excerpts, Len(excerpts) \in Nat
    PROVE  \E after : PushedInOrder(after, observation, excerpts)
<1> DEFINE next(f, i) == IF i = 0 THEN observation ELSE PushExcerpt(f[i - 1], excerpts[i])
           Goes(f, m) == f = [i \in 0 .. m |-> next(f, i)]
           S == {m \in Nat : \E f : Goes(f, m)}
           N == Len(excerpts)
           after == CHOOSE f : Goes(f, N)
<1>1. PushExcerpts(observation, excerpts) = after[N]  BY DEF PushExcerpts
<1>2. 0 \in S
  <2> DEFINE f == [i \in 0 .. 0 |-> observation]
  <2>1. Goes(f, 0)  OBVIOUS
  <2> QED BY <2>1
<1>3. ASSUME NEW m \in Nat, m \in S PROVE m + 1 \in S
  <2>1. PICK f : Goes(f, m)  BY <1>3
  <2> DEFINE g == Longer(f, m + 1, next(f, m + 1))
  <2>2. /\ DOMAIN g = 0 .. (m + 1) /\ g = [i \in 0 .. (m + 1) |-> g[i]]
        /\ \A i \in 0 .. m : g[i] = f[i]
        /\ g[m + 1] = next(f, m + 1)
    BY LongerLoop
  <2> HIDE DEF g
  <2>3. \A i \in 0 .. m : f[i] = next(f, i)  BY <2>1
  <2>4. \A i \in 0 .. (m + 1) : i = 0 \/ i - 1 \in 0 .. m  OBVIOUS
  <2>5. \A i \in 0 .. (m + 1) : next(g, i) = next(f, i)  BY <2>2, <2>4
  <2>6. \A i \in 0 .. (m + 1) : i \in 0 .. m \/ i = m + 1  OBVIOUS
  <2> HIDE DEF next
  <2>7. \A i \in 0 .. (m + 1) : g[i] = next(g, i)  BY <2>2, <2>3, <2>5, <2>6
  <2>8. Goes(g, m + 1)  BY <2>2, <2>7
  <2> QED BY <2>8
<1>4. N \in S
  <2> HIDE DEF S
  <2> QED BY <1>2, <1>3, Induction
<1>5. Goes(after, N)  BY <1>4
<1> HIDE DEF after
<1>6. 0 \in 0 .. N /\ \A i \in 1 .. N : i \in 0 .. N /\ i # 0  BY DEF N
<1>7. \A i \in 0 .. N : after[i] = next(after, i)  BY <1>5
<1> QED BY <1>1, <1>6, <1>7 DEF PushedInOrder

ActedInOrder(after, actions, new) ==
    /\ after[0] = actions
    /\ \A i \in 1 .. Len(new) : after[i] = WithAction(after[i - 1], new[i])
    /\ WithActions(actions, new) = after[Len(new)]

LEMMA ActionsInOrder ==
    ASSUME NEW actions, NEW new, Len(new) \in Nat
    PROVE  \E after : ActedInOrder(after, actions, new)
<1> DEFINE next(f, i) == IF i = 0 THEN actions ELSE WithAction(f[i - 1], new[i])
           Goes(f, m) == f = [i \in 0 .. m |-> next(f, i)]
           S == {m \in Nat : \E f : Goes(f, m)}
           N == Len(new)
           after == CHOOSE f : Goes(f, N)
<1>1. WithActions(actions, new) = after[N]  BY DEF WithActions
<1>2. 0 \in S
  <2> DEFINE f == [i \in 0 .. 0 |-> actions]
  <2>1. Goes(f, 0)  OBVIOUS
  <2> QED BY <2>1
<1>3. ASSUME NEW m \in Nat, m \in S PROVE m + 1 \in S
  <2>1. PICK f : Goes(f, m)  BY <1>3
  <2> DEFINE g == Longer(f, m + 1, next(f, m + 1))
  <2>2. /\ DOMAIN g = 0 .. (m + 1) /\ g = [i \in 0 .. (m + 1) |-> g[i]]
        /\ \A i \in 0 .. m : g[i] = f[i]
        /\ g[m + 1] = next(f, m + 1)
    BY LongerLoop
  <2> HIDE DEF g
  <2>3. \A i \in 0 .. m : f[i] = next(f, i)  BY <2>1
  <2>4. \A i \in 0 .. (m + 1) : i = 0 \/ i - 1 \in 0 .. m  OBVIOUS
  <2>5. \A i \in 0 .. (m + 1) : next(g, i) = next(f, i)  BY <2>2, <2>4
  <2>6. \A i \in 0 .. (m + 1) : i \in 0 .. m \/ i = m + 1  OBVIOUS
  <2> HIDE DEF next
  <2>7. \A i \in 0 .. (m + 1) : g[i] = next(g, i)  BY <2>2, <2>3, <2>5, <2>6
  <2>8. Goes(g, m + 1)  BY <2>2, <2>7
  <2> QED BY <2>8
<1>4. N \in S
  <2> HIDE DEF S
  <2> QED BY <1>2, <1>3, Induction
<1>5. Goes(after, N)  BY <1>4
<1> HIDE DEF after
<1>6. 0 \in 0 .. N /\ \A i \in 1 .. N : i \in 0 .. N /\ i # 0  BY DEF N
<1>7. \A i \in 0 .. N : after[i] = next(after, i)  BY <1>5
<1> QED BY <1>1, <1>6, <1>7 DEF ActedInOrder

ReadsInOrder(after, calls) ==
    /\ after[0] = <<>>
    /\ \A i \in 1 .. Len(calls) :
          after[i] = IF calls[i].tool = "read" THEN after[i - 1] \o calls[i].targets ELSE after[i - 1]
    /\ ReadTargets(calls) = after[Len(calls)]

LEMMA TargetsInOrder ==
    ASSUME NEW calls, Len(calls) \in Nat
    PROVE  \E after : ReadsInOrder(after, calls)
<1> DEFINE next(f, i) == IF i = 0 THEN <<>> ELSE IF calls[i].tool = "read" THEN f[i - 1] \o calls[i].targets ELSE f[i - 1]
           Goes(f, m) == f = [i \in 0 .. m |-> next(f, i)]
           S == {m \in Nat : \E f : Goes(f, m)}
           N == Len(calls)
           after == CHOOSE f : Goes(f, N)
<1>1. ReadTargets(calls) = after[N]  BY DEF ReadTargets
<1>2. 0 \in S
  <2> DEFINE f == [i \in 0 .. 0 |-> <<>>]
  <2>1. Goes(f, 0)  OBVIOUS
  <2> QED BY <2>1
<1>3. ASSUME NEW m \in Nat, m \in S PROVE m + 1 \in S
  <2>1. PICK f : Goes(f, m)  BY <1>3
  <2> DEFINE g == Longer(f, m + 1, next(f, m + 1))
  <2>2. /\ DOMAIN g = 0 .. (m + 1) /\ g = [i \in 0 .. (m + 1) |-> g[i]]
        /\ \A i \in 0 .. m : g[i] = f[i]
        /\ g[m + 1] = next(f, m + 1)
    BY LongerLoop
  <2> HIDE DEF g
  <2>3. \A i \in 0 .. m : f[i] = next(f, i)  BY <2>1
  <2>4. \A i \in 0 .. (m + 1) : i = 0 \/ i - 1 \in 0 .. m  OBVIOUS
  <2>5. \A i \in 0 .. (m + 1) : next(g, i) = next(f, i)  BY <2>2, <2>4
  <2>6. \A i \in 0 .. (m + 1) : i \in 0 .. m \/ i = m + 1  OBVIOUS
  <2> HIDE DEF next
  <2>7. \A i \in 0 .. (m + 1) : g[i] = next(g, i)  BY <2>2, <2>3, <2>5, <2>6
  <2>8. Goes(g, m + 1)  BY <2>2, <2>7
  <2> QED BY <2>8
<1>4. N \in S
  <2> HIDE DEF S
  <2> QED BY <1>2, <1>3, Induction
<1>5. Goes(after, N)  BY <1>4
<1> HIDE DEF after
<1>6. 0 \in 0 .. N /\ \A i \in 1 .. N : i \in 0 .. N /\ i # 0  BY DEF N
<1>7. \A i \in 0 .. N : after[i] = next(after, i)  BY <1>5
<1> QED BY <1>1, <1>6, <1>7 DEF ReadsInOrder

NarrowedInOrder(after, map, modified) ==
    /\ after[0] = [broader |-> FALSE, commands |-> <<>>]
    /\ \A i \in 1 .. Len(modified) : after[i] = PlanModified(map, after[i - 1], modified[i])
    /\ NarrowPlan(map, modified) = after[Len(modified)]

LEMMA ModifiedInOrder ==
    ASSUME NEW map, NEW modified, Len(modified) \in Nat
    PROVE  \E after : NarrowedInOrder(after, map, modified)
<1> DEFINE next(f, i) == IF i = 0 THEN [broader |-> FALSE, commands |-> <<>>] ELSE PlanModified(map, f[i - 1], modified[i])
           Goes(f, m) == f = [i \in 0 .. m |-> next(f, i)]
           S == {m \in Nat : \E f : Goes(f, m)}
           N == Len(modified)
           after == CHOOSE f : Goes(f, N)
<1>1. NarrowPlan(map, modified) = after[N]  BY DEF NarrowPlan
<1>2. 0 \in S
  <2> DEFINE f == [i \in 0 .. 0 |-> [broader |-> FALSE, commands |-> <<>>]]
  <2>1. Goes(f, 0)  OBVIOUS
  <2> QED BY <2>1
<1>3. ASSUME NEW m \in Nat, m \in S PROVE m + 1 \in S
  <2>1. PICK f : Goes(f, m)  BY <1>3
  <2> DEFINE g == Longer(f, m + 1, next(f, m + 1))
  <2>2. /\ DOMAIN g = 0 .. (m + 1) /\ g = [i \in 0 .. (m + 1) |-> g[i]]
        /\ \A i \in 0 .. m : g[i] = f[i]
        /\ g[m + 1] = next(f, m + 1)
    BY LongerLoop
  <2> HIDE DEF g
  <2>3. \A i \in 0 .. m : f[i] = next(f, i)  BY <2>1
  <2>4. \A i \in 0 .. (m + 1) : i = 0 \/ i - 1 \in 0 .. m  OBVIOUS
  <2>5. \A i \in 0 .. (m + 1) : next(g, i) = next(f, i)  BY <2>2, <2>4
  <2>6. \A i \in 0 .. (m + 1) : i \in 0 .. m \/ i = m + 1  OBVIOUS
  <2> HIDE DEF next
  <2>7. \A i \in 0 .. (m + 1) : g[i] = next(g, i)  BY <2>2, <2>3, <2>5, <2>6
  <2>8. Goes(g, m + 1)  BY <2>2, <2>7
  <2> QED BY <2>8
<1>4. N \in S
  <2> HIDE DEF S
  <2> QED BY <1>2, <1>3, Induction
<1>5. Goes(after, N)  BY <1>4
<1> HIDE DEF after
<1>6. 0 \in 0 .. N /\ \A i \in 1 .. N : i \in 0 .. N /\ i # 0  BY DEF N
<1>7. \A i \in 0 .. N : after[i] = next(after, i)  BY <1>5
<1> QED BY <1>1, <1>6, <1>7 DEF NarrowedInOrder

\* What is sifted from a list of one member.
LEMMA SiftOne ==
    ASSUME NEW r, NEW S
    PROVE  Sift(<<r>>, S) = IF r \in S THEN <<r>> ELSE <<>>
<1> DEFINE kept == CHOOSE g : Sifts(g, <<r>>, S, 1)
<1>1. Sifts(kept, <<r>>, S, 1)  BY SiftExists
<1>2. Sift(<<r>>, S) = kept[1]  BY DEF Sift, Sifts
<1> HIDE DEF kept
<1> DEFINE s == <<r>>
<1>3. \A m \in 0 .. 1 : kept[m] = IF m = 0 THEN <<>> ELSE IF s[m] \in S THEN Append(kept[m - 1], s[m]) ELSE kept[m - 1]
  BY <1>1 DEF Sifts
<1>5. s[1] = r  OBVIOUS
<1> HIDE DEF s
<1>6. 0 \in 0 .. 1 /\ 1 \in 0 .. 1 /\ 1 # 0 /\ 1 - 1 = 0  OBVIOUS
<1>7. kept[0] = <<>> /\ kept[1] = IF r \in S THEN Append(kept[0], r) ELSE kept[0]
  BY <1>3, <1>5, <1>6
<1>4. Append(<<>>, r) = <<r>>  OBVIOUS
<1> QED BY <1>2, <1>4, <1>7

LEMMA SiftNone ==
    ASSUME NEW S
    PROVE  Sift(<<>>, S) = <<>>
<1> DEFINE s == Sift(<<>>, S)
<1>1. <<>> \in Seq({})  OBVIOUS
<1>2. s \in Seq({} \cap S)  BY <1>1, SiftType
<1> HIDE DEF s
<1>3. s \in Seq({})  BY <1>2
<1>4. Len(s) \in Nat /\ \A i \in 1 .. Len(s) : s[i] \in {}  BY <1>3
<1>5. Len(s) = 0  BY <1>4
<1>6. s = <<>>  BY <1>3, <1>5
<1> QED BY <1>6 DEF s

\* The ranges of a target are not longer than the planner reads at once.
IsShort(target) ==
    \A k \in DOMAIN target.ranges : target.ranges[k][2] <= target.ranges[k][1] + MaxRangeLines

ReadOf(target) == [path |-> target.path, ranges |-> NormalizeRanges(target.ranges)]

\* What is read for a target is one range, and what was asked for is in it.
LEMMA OneRange ==
    ASSUME NEW t \in ReadTargetType
    PROVE  \E a, b \in Nat : /\ NormalizeRanges(t.ranges) = << <<a, b>> >> /\ 0 < a /\ a <= b
                             /\ IsShort(t) => \A n \in Asked(t) : n \in 1 .. FileLines /\ a <= n /\ n <= b
<1>0. FileLines \in Nat /\ MaxRangeLines \in Nat  BY PlanAssumption
<1>1. t.ranges \in Seq(Nat \X Nat) /\ Len(t.ranges) <= 1  BY DEF ReadTargetType
<1>2. IsList(t.ranges)  BY <1>1 DEF IsList
<1>3. AtMost(16, t.ranges) = t.ranges  BY <1>1, <1>2, AtMostAll
<1> DEFINE first == AtMost(16, t.ranges)
           S == {r \in ToSet(first) : 0 < r[1] /\ r[1] <= r[2]}
           cut(r) == <<r[1], IF r[2] <= r[1] + MaxRangeLines THEN r[2] ELSE r[1] + MaxRangeLines>>
           valid == Sift(first, S)
<1>4. NormalizeRanges(t.ranges) = IF valid = <<>> THEN << <<1, FileLines + 1>> >> ELSE [i \in DOMAIN valid |-> cut(valid[i])]
  BY DEF NormalizeRanges
<1>5. \A n \in Asked(t) : n \in 1 .. FileLines  BY DEF Asked
<1>6. ASSUME valid = <<>>
      PROVE  \E a, b \in Nat : /\ NormalizeRanges(t.ranges) = << <<a, b>> >> /\ 0 < a /\ a <= b
                               /\ IsShort(t) => \A n \in Asked(t) : n \in 1 .. FileLines /\ a <= n /\ n <= b
  <2>1. NormalizeRanges(t.ranges) = << <<1, FileLines + 1>> >>  BY <1>4, <1>6
  <2>2. \A n \in Asked(t) : n \in 1 .. FileLines /\ 1 <= n /\ n <= FileLines + 1  BY <1>0, <1>5
  <2>3. FileLines + 1 \in Nat /\ 1 \in Nat /\ 0 < 1 /\ 1 <= FileLines + 1  BY <1>0
  <2> QED BY <2>1, <2>2, <2>3
<1>7. CASE t.ranges = <<>>
  <2>1. valid = <<>>  BY <1>3, <1>7, SiftNone
  <2> QED BY <1>6, <2>1
<1>8. CASE t.ranges # <<>>
  <2>1. Len(t.ranges) = 1
    <3>1. Len(t.ranges) \in Nat /\ (Len(t.ranges) = 0 => t.ranges = <<>>)  BY <1>1
    <3>2. Len(t.ranges) # 0  BY <1>8, <3>1
    <3>3. Len(t.ranges) <= 1  BY <1>1
    <3> DEFINE n == Len(t.ranges)
    <3>4. n \in Nat /\ n # 0 /\ n <= 1  BY <3>1, <3>2, <3>3
    <3> HIDE DEF n
    <3>5. n = 1  BY <3>4
    <3> QED BY <3>5 DEF n
  <2> DEFINE r == t.ranges[1]
  <2>2. t.ranges = <<r>>  BY <1>1, <2>1
  <2>3. r \in Nat \X Nat  BY <1>1, <2>1
  <2>4. PICK c, d \in Nat : r = <<c, d>>  BY <2>3
  <2>5. DOMAIN t.ranges = {1}  BY <1>1, <2>1
  <2> HIDE DEF r
  <2>6. ToSet(first) = {r}  BY <1>3, <2>2, <2>5 DEF ToSet
  <2>7. valid = IF r \in S THEN <<r>> ELSE <<>>  BY <1>3, <2>2, SiftOne
  <2>8. CASE r \notin S
    BY <1>6, <2>7, <2>8
  <2>9. CASE r \in S
    <3>1. valid = <<r>> /\ 0 < c /\ c <= d  BY <2>4, <2>7, <2>9
    <3> DEFINE e == IF d <= c + MaxRangeLines THEN d ELSE c + MaxRangeLines
    <3>2. cut(r) = <<c, e>>  BY <2>4
    <3>3. valid # <<>> /\ DOMAIN valid = {1} /\ valid[1] = r  BY <3>1
    <3>4. NormalizeRanges(t.ranges) = [i \in {1} |-> cut(r)]  BY <1>4, <3>3
    <3>5. NormalizeRanges(t.ranges) = << <<c, e>> >>  BY <3>2, <3>4
    <3>6. e \in Nat /\ c <= e  BY <1>0, <3>1
    <3>7. ASSUME IsShort(t) PROVE e = d
      <4>1. r[2] <= r[1] + MaxRangeLines  BY <2>5, <3>7 DEF IsShort, r
      <4> QED BY <2>4, <4>1
    <3>8. \A n \in Asked(t) : n \in 1 .. FileLines /\ c <= n /\ n <= d
      <4>1. \A n \in Asked(t) : r[1] <= n /\ n <= r[2]  BY <1>8, <2>5 DEF Asked, r
      <4> QED BY <1>5, <2>4, <4>1
    <3> HIDE DEF e
    <3> QED BY <3>1, <3>5, <3>6, <3>7, <3>8
  <2> QED BY <2>8, <2>9
<1> QED BY <1>7, <1>8

\* An excerpt that holds the lines it says; an observation of such excerpts.
Fits(e) == e.start \in Nat /\ e.end \in Nat /\ IsWhole(e)

InOrder(o) ==
    /\ DOMAIN o = DOMAIN EmptyObservation
    /\ IsList(o.excerpts) /\ \A i \in DOMAIN o.excerpts : Fits(o.excerpts[i])

LEMMA Shown ==
    ASSUME NEW o, NEW p, NEW n
    PROVE  n \in ShownLines(o, p) <=>
             \E i \in DOMAIN o.excerpts : /\ o.excerpts[i].path = p /\ n \in o.excerpts[i].lines
                                          /\ o.excerpts[i].start <= n /\ n <= o.excerpts[i].end
BY DEF ShownLines

\* An excerpt that an observation takes up adds its lines and hides no other.
TakesUp(o, q, e) ==
    /\ InOrder(q) /\ q.bytes = o.bytes /\ Len(q.excerpts) <= Len(o.excerpts) + 1
    /\ \A p : ShownLines(o, p) \subseteq ShownLines(q, p)
    /\ \A n \in 1 .. FileLines : e.start <= n /\ n <= e.end => n \in ShownLines(q, e.path)

LEMMA AppendShows ==
    ASSUME NEW o, InOrder(o), NEW e, Fits(e), NEW q, DOMAIN q = DOMAIN o, q.excerpts = Append(o.excerpts, e)
    PROVE  /\ InOrder(q) /\ Len(q.excerpts) = Len(o.excerpts) + 1
           /\ \A p : ShownLines(o, p) \subseteq ShownLines(q, p)
           /\ \A n \in 1 .. FileLines : e.start <= n /\ n <= e.end => n \in ShownLines(q, e.path)
<1>1. IsList(o.excerpts)  BY DEF InOrder
<1> DEFINE xs == o.excerpts
           ys == q.excerpts
<1>2. /\ \A i \in DOMAIN xs : i \in DOMAIN ys /\ ys[i] = xs[i]
      /\ Len(xs) + 1 \in DOMAIN ys /\ ys[Len(xs) + 1] = e
      /\ \A i \in DOMAIN ys : i \in DOMAIN xs \/ ys[i] = e
  BY <1>1, AppendMembers
<1>3. IsList(ys) /\ Len(ys) = Len(xs) + 1  BY <1>1, ListAppend
<1>4. \A i \in DOMAIN ys : Fits(ys[i])  BY <1>2 DEF InOrder
<1>5. InOrder(q)  BY <1>3, <1>4 DEF InOrder
<1>6. \A p : ShownLines(o, p) \subseteq ShownLines(q, p)
  <2> SUFFICES ASSUME NEW p, NEW n \in ShownLines(o, p) PROVE n \in ShownLines(q, p)
    OBVIOUS
  <2>1. PICK i \in DOMAIN xs : xs[i].path = p /\ n \in xs[i].lines /\ xs[i].start <= n /\ n <= xs[i].end
    BY Shown
  <2>2. i \in DOMAIN ys /\ ys[i] = xs[i]  BY <1>2
  <2> QED BY <2>1, <2>2, Shown
<1>7. ASSUME NEW n \in 1 .. FileLines, e.start <= n, n <= e.end PROVE n \in ShownLines(q, e.path)
  <2>1. n \in e.lines  BY <1>7 DEF Fits, IsWhole
  <2> QED BY <1>2, <1>7, <2>1, Shown
<1> QED BY <1>3, <1>5, <1>6, <1>7

LEMMA PushShows ==
    ASSUME NEW o, InOrder(o), NEW e, Fits(e), Len(o.excerpts) < MaxPlanFiles
    PROVE  TakesUp(o, PushExcerpt(o, e), e)
<1>1. IsList(o.excerpts) /\ Len(o.excerpts) \in Nat  BY ListFacts DEF InOrder
<1> DEFINE known == \E i \in DOMAIN o.excerpts : /\ o.excerpts[i].path = e.path
                                                 /\ o.excerpts[i].start = e.start
                                                 /\ o.excerpts[i].end = e.end
           q == [o EXCEPT !.excerpts = AtMost(MaxPlanFiles, Append(@, e)), !.cacheHit = TRUE]
<1>2. PushExcerpt(o, e) = IF e.lines = {} \/ known THEN o ELSE q  BY DEF PushExcerpt
<1>3. CASE e.lines = {}
  <2>1. PushExcerpt(o, e) = o  BY <1>2, <1>3
  <2>2. \A n \in 1 .. FileLines : ~(e.start <= n /\ n <= e.end)  BY <1>3 DEF Fits, IsWhole
  <2>3. TakesUp(o, o, e)  BY <1>1, <2>2 DEF TakesUp
  <2> QED BY <2>1, <2>3
<1>4. CASE known
  <2>1. PushExcerpt(o, e) = o  BY <1>2, <1>4
  <2>2. PICK i \in DOMAIN o.excerpts : /\ o.excerpts[i].path = e.path /\ o.excerpts[i].start = e.start
                                       /\ o.excerpts[i].end = e.end
    BY <1>4
  <2>3. \A n \in 1 .. FileLines : e.start <= n /\ n <= e.end => n \in o.excerpts[i].lines
    BY <2>2 DEF InOrder, Fits, IsWhole
  <2>4. \A n \in 1 .. FileLines : e.start <= n /\ n <= e.end => n \in ShownLines(o, e.path)
    BY <2>2, <2>3, Shown
  <2>5. TakesUp(o, o, e)  BY <1>1, <2>4 DEF TakesUp
  <2> QED BY <2>1, <2>5
<1>5. CASE e.lines # {} /\ ~known
  <2>1. IsList(Append(o.excerpts, e)) /\ Len(Append(o.excerpts, e)) = Len(o.excerpts) + 1
    BY <1>1, ListAppend
  <2>2. MaxPlanFiles \in Nat /\ Len(Append(o.excerpts, e)) <= MaxPlanFiles
    BY <1>1, <2>1, PlanAssumption
  <2>3. AtMost(MaxPlanFiles, Append(o.excerpts, e)) = Append(o.excerpts, e)
    BY <2>1, <2>2, AtMostAll
  <2>4. "excerpts" \in DOMAIN o /\ "bytes" \in DOMAIN o  BY DEF InOrder, EmptyObservation
  <2>5. DOMAIN q = DOMAIN o /\ q.excerpts = Append(o.excerpts, e) /\ q.bytes = o.bytes
    BY <2>3, <2>4
  <2> HIDE DEF q
  <2>6. /\ InOrder(q) /\ Len(q.excerpts) = Len(o.excerpts) + 1
        /\ \A p : ShownLines(o, p) \subseteq ShownLines(q, p)
        /\ \A n \in 1 .. FileLines : e.start <= n /\ n <= e.end => n \in ShownLines(q, e.path)
    BY <2>5, AppendShows
  <2>7. TakesUp(o, q, e)  BY <1>1, <2>5, <2>6 DEF TakesUp
  <2> QED BY <1>2, <1>5, <2>7
<1> QED BY <1>3, <1>4, <1>5

LEMMA LastOne ==
    ASSUME NEW N \in Nat, NEW S, S \subseteq 1 .. N, S # {}
    PROVE  \E i \in S : \A j \in S : j <= i
<1> DEFINE T == {N - j : j \in S}
<1>0. \A j \in S : j \in 1 .. N  OBVIOUS
<1>a. \A j \in 1 .. N : N - j \in Nat  OBVIOUS
<1>1. T \subseteq Nat /\ T # {}  BY <1>0, <1>a
<1>2. PICK x \in T : \A y \in T : x <= y  BY <1>1, NatLeast
<1>3. PICK i \in S : x = N - i  OBVIOUS
<1>4. \A j \in S : N - j \in T  OBVIOUS
<1>5. \A j \in S : j \in 1 .. N /\ N - i <= N - j  BY <1>2, <1>3, <1>4
<1>6. i \in 1 .. N  BY <1>3
<1>7. \A j \in S : j <= i  BY <1>5, <1>6
<1> QED BY <1>3, <1>7

\* A retained excerpt stands for a range only if it holds the whole of it.
IsKnown(context) ==
    /\ context \in PlannerContexts
    /\ \A i \in DOMAIN context.excerpts : IsWhole(context.excerpts[i])

LEMMA RetainedExcerpt ==
    ASSUME NEW context, IsKnown(context), NEW p, NEW a, NEW b,
           CurrentExcerpt(context, p, << <<a, b>> >>) # <<>>
    PROVE  \E e : /\ CurrentExcerpt(context, p, << <<a, b>> >>) = <<e>>
                  /\ Fits(e) /\ e.path = p /\ e.start <= a /\ b <= e.end
<1> DEFINE xs == context.excerpts
           ranges == << <<a, b>> >>
           hits == {i \in DOMAIN xs :
                      /\ xs[i].path = p /\ IsCurrentFile(context, p)
                      /\ \A k \in DOMAIN ranges : Covers(<<xs[i].start, xs[i].end>>, ranges[k])}
           last == CHOOSE i \in hits : \A j \in hits : j <= i
<1>1. CurrentExcerpt(context, p, ranges) = IF hits = {} THEN <<>> ELSE <<xs[last]>>
  BY DEF CurrentExcerpt
<1>2. hits # {}  BY <1>1
<1>3. xs \in Seq(ExcerptType)  BY PlanAssumption DEF IsKnown
<1>4. Len(xs) \in Nat /\ DOMAIN xs = 1 .. Len(xs)  BY <1>3
<1>5. hits \subseteq 1 .. Len(xs)  BY <1>4
<1>6. last \in hits
  <2> HIDE DEF hits
  <2>1. \E i \in hits : \A j \in hits : j <= i  BY <1>2, <1>4, <1>5, LastOne
  <2> QED BY <2>1
<1> HIDE DEF last
<1>7. 1 \in DOMAIN ranges /\ ranges[1] = <<a, b>>  OBVIOUS
<1>8. /\ last \in DOMAIN xs /\ xs[last].path = p
      /\ Covers(<<xs[last].start, xs[last].end>>, <<a, b>>)
  BY <1>6, <1>7
<1>9. xs[last].start <= a /\ b <= xs[last].end  BY <1>8 DEF Covers
<1>10. xs[last] \in ExcerptType /\ IsWhole(xs[last])  BY <1>3, <1>8 DEF IsKnown
<1>11. Fits(xs[last])  BY <1>10 DEF Fits, ExcerptType
<1> QED BY <1>1, <1>2, <1>8, <1>9, <1>11

\* What is planned of the first k targets: each is shown, or will be read.
Served(plan, t) ==
    \/ Asked(t) \subseteq ShownLines(plan.observation, t.path)
    \/ \E i \in DOMAIN plan.actions : plan.actions[i] = ReadOf(t)

IsReadPlan(plan) ==
    /\ DOMAIN plan = DOMAIN EmptyPlan
    /\ InOrder(plan.observation) /\ plan.observation.bytes = 0
    /\ IsList(plan.actions)
    /\ \A i \in DOMAIN plan.actions : \E t \in ReadTargetType : plan.actions[i] = ReadOf(t)

PlannedSoFar(acc, targets, k) ==
    /\ DOMAIN acc = {"seen", "plan"}
    /\ IsList(acc.seen) /\ Len(acc.seen) <= k
    /\ \A x \in ToSet(acc.seen) : \E j \in 1 .. k : targets[j].path = x
    /\ IsReadPlan(acc.plan)
    /\ Len(acc.plan.actions) + Len(acc.plan.observation.excerpts) <= Len(acc.seen)
    /\ \A j \in 1 .. k : Served(acc.plan, targets[j])

\* Targets that the planner has room for.
Fitting(targets) ==
    /\ targets \in Seq(ReadTargetType)
    /\ Len(targets) <= MaxPlanFiles /\ Len(targets) <= MaxPlanActions /\ Len(targets) <= MaxPlanCandidates
    /\ \A i, j \in DOMAIN targets : targets[i].path = targets[j].path => targets[i] = targets[j]
    /\ \A i \in DOMAIN targets : IsShort(targets[i])

LEMMA NothingPlanned ==
    ASSUME NEW targets
    PROVE  PlannedSoFar([seen |-> <<>>, plan |-> EmptyPlan], targets, 0)
<1>1. InOrder(EmptyObservation) /\ EmptyObservation.bytes = 0 /\ EmptyObservation.excerpts = <<>>
  BY EmptyList DEF InOrder, EmptyObservation
<1>2. EmptyPlan.actions = <<>> /\ EmptyPlan.observation = EmptyObservation  BY DEF EmptyPlan
<1>3. DOMAIN <<>> = {} /\ ToSet(<<>>) = {}  BY DEF ToSet
<1>4. IsReadPlan(EmptyPlan)  BY <1>1, <1>2, <1>3, EmptyList DEF IsReadPlan
<1> DEFINE acc == [seen |-> <<>>, plan |-> EmptyPlan]
<1>5. DOMAIN acc = {"seen", "plan"} /\ acc.seen = <<>> /\ acc.plan = EmptyPlan  OBVIOUS
<1>6. Len(acc.plan.actions) + Len(acc.plan.observation.excerpts) <= Len(acc.seen) /\ Len(acc.seen) <= 0
  <2>1. Len(acc.plan.actions) = 0 /\ Len(acc.plan.observation.excerpts) = 0 /\ Len(acc.seen) = 0
    BY <1>1, <1>2, <1>5, EmptyList
  <2>2. 0 + 0 <= 0  OBVIOUS
  <2> HIDE DEF acc
  <2> QED BY <2>1, <2>2
<1>7. 1 .. 0 = {}  OBVIOUS
<1> HIDE DEF acc
<1>8. PlannedSoFar(acc, targets, 0)  BY <1>3, <1>4, <1>5, <1>6, <1>7, EmptyList DEF PlannedSoFar
<1> QED BY <1>8 DEF acc

\* What is planned stays planned when the actions and the shown lines grow.
LEMMA StillServed ==
    ASSUME NEW plan, NEW more, NEW t, Served(plan, t),
           ShownLines(plan.observation, t.path) \subseteq ShownLines(more.observation, t.path),
           \A i \in DOMAIN plan.actions : i \in DOMAIN more.actions /\ more.actions[i] = plan.actions[i]
    PROVE  Served(more, t)
BY DEF Served

LEMMA TargetIsPlanned ==
    ASSUME NEW context, IsKnown(context), NEW targets, Fitting(targets),
           NEW k \in Nat, k < Len(targets), NEW acc, PlannedSoFar(acc, targets, k)
    PROVE  PlannedSoFar(PlanTarget(context, acc, targets[k + 1]), targets, k + 1)
<1> DEFINE t == targets[k + 1]
           p == t.path
           ranges == NormalizeRanges(t.ranges)
           cached == IF RangesCovered(context, p, ranges) THEN CurrentExcerpt(context, p, ranges) ELSE <<>>
           noted == [acc EXCEPT !.seen = Append(@, p),
                                !.plan.observation.files = Append(@, Observed(context, p, 100))]
           known == [noted EXCEPT !.plan.observation = PushExcerpt(@, cached[1])]
           toRead == [noted EXCEPT !.plan.actions = Append(@, [path |-> p, ranges |-> ranges])]
           out == PlanTarget(context, acc, t)
<1>0. /\ {MaxPlanFiles, MaxPlanActions} \subseteq Nat
      /\ Len(targets) \in Nat /\ DOMAIN targets = 1 .. Len(targets) /\ k + 1 \in DOMAIN targets
      /\ t \in ReadTargetType /\ IsShort(t)
  BY PlanAssumption DEF Fitting
<1>1. out = IF p \in ToSet(acc.seen) \/ Len(acc.seen) >= MaxPlanFiles THEN acc
            ELSE IF cached # <<>> THEN known
            ELSE IF Len(acc.plan.actions) >= MaxPlanActions THEN noted ELSE toRead
  BY DEF PlanTarget
<1>2. \A j \in 1 .. (k + 1) : j \in 1 .. k \/ j = k + 1  OBVIOUS
<1>3. \A j \in 1 .. k : j \in 1 .. (k + 1)  OBVIOUS
<1> DEFINE o == acc.plan.observation
           acts == acc.plan.actions
<1>4. /\ DOMAIN acc = {"seen", "plan"} /\ IsReadPlan(acc.plan) /\ InOrder(o) /\ o.bytes = 0
      /\ IsList(acc.seen) /\ Len(acc.seen) \in Nat /\ Len(acc.seen) <= k
      /\ IsList(acts) /\ Len(acts) \in Nat /\ Len(o.excerpts) \in Nat
      /\ Len(acts) + Len(o.excerpts) <= Len(acc.seen)
  BY ListFacts DEF PlannedSoFar, IsReadPlan, InOrder
<1>5. Len(acc.seen) < MaxPlanFiles /\ Len(acts) < MaxPlanActions /\ Len(o.excerpts) < MaxPlanFiles
  <2>1. Len(targets) <= MaxPlanFiles /\ Len(targets) <= MaxPlanActions  BY DEF Fitting
  <2> DEFINE x == Len(acts)
             y == Len(o.excerpts)
             z == Len(acc.seen)
  <2>2. x \in Nat /\ y \in Nat /\ z \in Nat /\ x + y <= z /\ z <= k  BY <1>4
  <2> HIDE DEF x, y, z
  <2>3. z < MaxPlanFiles /\ x < MaxPlanActions /\ y < MaxPlanFiles  BY <1>0, <2>1, <2>2
  <2> QED BY <2>3 DEF x, y, z
<1>6. CASE p \in ToSet(acc.seen)
  <2>1. out = acc  BY <1>1, <1>6
  <2>2. PICK j \in 1 .. k : targets[j].path = p  BY <1>6 DEF PlannedSoFar
  <2>3. j \in DOMAIN targets  BY <1>0, <2>2
  <2>4. targets[j] = t  BY <1>0, <2>2, <2>3 DEF Fitting
  <2>5. Served(acc.plan, t)  BY <2>2, <2>4 DEF PlannedSoFar
  <2>6. \A i \in 1 .. (k + 1) : Served(acc.plan, targets[i])  BY <1>2, <2>5 DEF PlannedSoFar
  <2>7. Len(acc.seen) <= k + 1  BY <1>4
  <2>8. \A x \in ToSet(acc.seen) : \E i \in 1 .. (k + 1) : targets[i].path = x
    BY <1>3 DEF PlannedSoFar
  <2> HIDE DEF out, t, o, acts
  <2> QED BY <2>1, <2>6, <2>7, <2>8 DEF PlannedSoFar, t, out
<1>7. CASE p \notin ToSet(acc.seen)
  <2>0. out = IF cached # <<>> THEN known ELSE toRead
    <3> HIDE DEF known, toRead, noted, cached, out, t
    <3>1. ~(Len(acc.seen) >= MaxPlanFiles) /\ ~(Len(acc.plan.actions) >= MaxPlanActions)
      BY <1>0, <1>4, <1>5
    <3> QED BY <1>1, <1>7, <3>1
  <2> DEFINE seen == Append(acc.seen, p)
             o1 == [o EXCEPT !.files = Append(@, Observed(context, p, 100))]
  <2>1. /\ DOMAIN noted = {"seen", "plan"} /\ noted.seen = seen
        /\ noted.plan = [acc.plan EXCEPT !.observation.files = Append(@, Observed(context, p, 100))]
    BY <1>4
  <2>2. DOMAIN acc.plan = DOMAIN EmptyPlan /\ DOMAIN o = DOMAIN EmptyObservation
    BY <1>4 DEF IsReadPlan, InOrder
  <2>3. DOMAIN noted.plan = DOMAIN EmptyPlan /\ noted.plan.observation = o1 /\ noted.plan.actions = acts
    BY <2>1, <2>2 DEF EmptyPlan
  <2>4. DOMAIN o1 = DOMAIN EmptyObservation /\ o1.excerpts = o.excerpts /\ o1.bytes = 0
    BY <1>4, <2>2 DEF EmptyObservation
  <2> HIDE DEF noted, o1
  <2>5. InOrder(o1)  BY <1>4, <2>4 DEF InOrder
  <2>6. \A q : ShownLines(o1, q) = ShownLines(o, q)  BY <2>4 DEF ShownLines
  <2>7. /\ IsList(seen) /\ Len(seen) = Len(acc.seen) + 1 /\ Len(seen) <= k + 1
    BY <1>4, ListAppend
  <2>8. \A x \in ToSet(seen) : \E j \in 1 .. (k + 1) : targets[j].path = x
    <3> SUFFICES ASSUME NEW x \in ToSet(seen) PROVE \E j \in 1 .. (k + 1) : targets[j].path = x
      OBVIOUS
    <3>1. PICK i \in DOMAIN seen : seen[i] = x  BY DEF ToSet
    <3> HIDE DEF seen
    <3>2. i \in DOMAIN acc.seen \/ seen[i] = p  BY <1>4, AppendMembers DEF seen
    <3>3. CASE x = p  BY <1>0, <3>3
    <3>4. CASE i \in DOMAIN acc.seen
      <4>1. seen[i] = acc.seen[i]  BY <1>4, <3>4, AppendMembers DEF seen
      <4>2. x \in ToSet(acc.seen)  BY <3>1, <3>4, <4>1 DEF ToSet
      <4> QED BY <1>3, <4>2 DEF PlannedSoFar
    <3> QED BY <3>1, <3>2, <3>3, <3>4
  <2>9. PICK a \in Nat, b \in Nat : /\ ranges = << <<a, b>> >>
                                    /\ \A n \in Asked(t) : n \in 1 .. FileLines /\ a <= n /\ n <= b
    BY <1>0, OneRange
  <2> HIDE DEF t, ranges, seen
  <2>10. CASE cached # <<>>
    <3>1. cached = CurrentExcerpt(context, p, << <<a, b>> >>)  BY <2>9, <2>10
    <3>2. PICK e : cached = <<e>> /\ Fits(e) /\ e.path = p /\ e.start <= a /\ b <= e.end
      BY <2>10, <3>1, RetainedExcerpt
    <3> DEFINE o2 == PushExcerpt(o1, e)
    <3>3. TakesUp(o1, o2, e)  BY <1>5, <2>4, <2>5, <3>2, PushShows
    <3>4. cached[1] = e  BY <3>2
    <3> HIDE DEF o2, cached
    <3>5. known = [noted EXCEPT !.plan.observation = o2]  BY <2>3, <3>4 DEF o2
    <3>6. /\ DOMAIN known = {"seen", "plan"} /\ known.seen = seen
          /\ DOMAIN known.plan = DOMAIN EmptyPlan /\ known.plan.observation = o2 /\ known.plan.actions = acts
      BY <2>1, <2>3, <3>5 DEF EmptyPlan
    <3>7. InOrder(o2) /\ o2.bytes = 0 /\ Len(o2.excerpts) <= Len(o.excerpts) + 1 /\ Len(o2.excerpts) \in Nat
      BY <2>4, <3>3, ListFacts DEF TakesUp, InOrder
    <3>8. \A n \in Asked(t) : n \in ShownLines(o2, p)
      <4>1. \A n \in 1 .. FileLines : a <= n /\ n <= b => e.start <= n /\ n <= e.end
        BY <3>2, PlanAssumption DEF Fits
      <4> QED BY <2>9, <3>2, <3>3, <4>1 DEF TakesUp
    <3> DEFINE w == known
    <3> HIDE DEF w, known
    <3>9. w = out  BY <2>0, <2>10 DEF w
    <3>10. Served(w.plan, t)  BY <3>6, <3>8 DEF Served, w
    <3>11. \A j \in 1 .. k : Served(w.plan, targets[j])
      <4> TAKE j \in 1 .. k
      <4>1. Served(acc.plan, targets[j])  BY DEF PlannedSoFar
      <4>2. ShownLines(o, targets[j].path) \subseteq ShownLines(o2, targets[j].path)
        BY <2>6, <3>3 DEF TakesUp
      <4> QED BY <3>6, <4>1, <4>2, StillServed DEF w
    <3>12. \A j \in 1 .. (k + 1) : Served(w.plan, targets[j])  BY <1>2, <3>10, <3>11 DEF t
    <3>13. IsReadPlan(w.plan)  BY <1>4, <3>6, <3>7 DEF IsReadPlan, w
    <3>14. Len(w.plan.actions) + Len(w.plan.observation.excerpts) <= Len(w.seen)
      <4> DEFINE x == Len(acts)
                 y == Len(o.excerpts)
                 z == Len(acc.seen)
      <4>1. x \in Nat /\ y \in Nat /\ z \in Nat /\ x + y <= z  BY <1>4
      <4>2. Len(o2.excerpts) \in Nat /\ Len(o2.excerpts) <= y + 1 /\ Len(seen) = z + 1
        BY <2>7, <3>7
      <4> HIDE DEF x, y, z
      <4>3. x + Len(o2.excerpts) <= Len(seen)  BY <4>1, <4>2
      <4> QED BY <3>6, <4>3 DEF w, x
    <3>15. PlannedSoFar(w, targets, k + 1)
      BY <2>7, <2>8, <3>6, <3>12, <3>13, <3>14 DEF PlannedSoFar, w
    <3> QED BY <3>9, <3>15 DEF t
  <2>11. CASE cached = <<>>
    <3> DEFINE r == [path |-> p, ranges |-> ranges]
               more == Append(acts, r)
    <3>1. r = ReadOf(t)  BY DEF ReadOf, ranges
    <3> HIDE DEF r
    <3>2. toRead = [noted EXCEPT !.plan.actions = more]  BY <2>3 DEF r
    <3>3. /\ \A i \in DOMAIN acts : i \in DOMAIN more /\ more[i] = acts[i]
          /\ Len(acts) + 1 \in DOMAIN more /\ more[Len(acts) + 1] = r
          /\ \A i \in DOMAIN more : i \in DOMAIN acts \/ more[i] = r
      BY <1>4, AppendMembers
    <3>4. IsList(more) /\ Len(more) = Len(acts) + 1  BY <1>4, ListAppend
    <3> HIDE DEF more
    <3>5. /\ DOMAIN toRead = {"seen", "plan"} /\ toRead.seen = seen
          /\ DOMAIN toRead.plan = DOMAIN EmptyPlan /\ toRead.plan.observation = o1 /\ toRead.plan.actions = more
      BY <2>1, <2>3, <3>2 DEF EmptyPlan
    <3> DEFINE w == toRead
    <3> HIDE DEF w, toRead
    <3>6. w = out  BY <2>0, <2>11 DEF w
    <3>7. Served(w.plan, t)  BY <3>1, <3>3, <3>5 DEF Served, w
    <3>8. \A j \in 1 .. k : Served(w.plan, targets[j])
      <4> TAKE j \in 1 .. k
      <4>1. Served(acc.plan, targets[j])  BY DEF PlannedSoFar
      <4> QED BY <2>6, <3>3, <3>5, <4>1, StillServed DEF w
    <3>9. \A j \in 1 .. (k + 1) : Served(w.plan, targets[j])  BY <1>2, <3>7, <3>8 DEF t
    <3>10. \A i \in DOMAIN more : \E u \in ReadTargetType : more[i] = ReadOf(u)
      BY <1>0, <1>4, <3>1, <3>3 DEF IsReadPlan
    <3>11. IsReadPlan(w.plan)  BY <2>4, <2>5, <3>4, <3>5, <3>10 DEF IsReadPlan, w
    <3>12. Len(w.plan.actions) + Len(w.plan.observation.excerpts) <= Len(w.seen)
      <4> DEFINE x == Len(acts)
                 y == Len(o.excerpts)
                 z == Len(acc.seen)
      <4>1. x \in Nat /\ y \in Nat /\ z \in Nat /\ x + y <= z  BY <1>4
      <4>2. Len(more) = x + 1 /\ Len(seen) = z + 1  BY <2>7, <3>4
      <4> HIDE DEF x, y, z
      <4>3. Len(more) + y <= Len(seen)  BY <4>1, <4>2
      <4> QED BY <2>4, <3>5, <4>3 DEF w, y
    <3>13. PlannedSoFar(w, targets, k + 1)
      BY <2>7, <2>8, <3>5, <3>9, <3>11, <3>12 DEF PlannedSoFar, w
    <3> QED BY <3>6, <3>13 DEF t
  <2> QED BY <2>10, <2>11
<1> QED BY <1>6, <1>7

LEMMA TargetsArePlanned ==
    ASSUME NEW context, IsKnown(context), NEW targets, Fitting(targets)
    PROVE  PlannedSoFar(PlanTargets(context, targets), targets, Len(targets))
<1> DEFINE N == Len(targets)
<1>1. N \in Nat  BY DEF Fitting
<1>2. PICK after : PlannedInOrder(after, context, targets)  BY <1>1, PlansInOrder
<1>3. /\ after[0] = [seen |-> <<>>, plan |-> EmptyPlan]
      /\ \A i \in 1 .. N : after[i] = PlanTarget(context, after[i - 1], targets[i])
      /\ PlanTargets(context, targets) = after[N]
  BY <1>2 DEF PlannedInOrder
<1> HIDE DEF N
<1> DEFINE T == {k \in Nat : k <= N => PlannedSoFar(after[k], targets, k)}
<1>4. 0 \in T  BY <1>3, NothingPlanned
<1>5. ASSUME NEW k \in Nat, k \in T PROVE k + 1 \in T
  <2> SUFFICES ASSUME k + 1 <= N PROVE PlannedSoFar(after[k + 1], targets, k + 1)
    OBVIOUS
  <2>1. k < N /\ k <= N /\ k + 1 \in 1 .. N /\ (k + 1) - 1 = k  BY <1>1
  <2>2. PlannedSoFar(after[k], targets, k)  BY <1>5, <2>1
  <2>3. after[k + 1] = PlanTarget(context, after[k], targets[k + 1])  BY <1>3, <2>1
  <2>4. k < Len(targets)  BY <2>1 DEF N
  <2> HIDE DEF T
  <2> QED BY <2>2, <2>3, <2>4, TargetIsPlanned
<1>6. N \in T
  <2> HIDE DEF T
  <2> QED BY <1>1, <1>4, <1>5, Induction
<1>7. N <= N  BY <1>1
<1>8. PlannedSoFar(after[N], targets, N)  BY <1>6, <1>7
<1> QED BY <1>3, <1>8 DEF N

\* The targets of a batch of reads, one call after the other.
LEMMA TargetsAreListed ==
    ASSUME NEW calls \in Batches, \A i \in DOMAIN calls : calls[i].tool = "read"
    PROVE  /\ ReadTargets(calls) \in Seq(ReadTargetType)
           /\ \A t \in TargetsOf(calls) : \E j \in DOMAIN ReadTargets(calls) : ReadTargets(calls)[j] = t
<1> DEFINE N == Len(calls)
<1>1. N \in Nat /\ DOMAIN calls = 1 .. N /\ \A i \in 1 .. N : calls[i].targets \in Seq(ReadTargetType)
  BY PlanAssumption
<1>2. PICK after : ReadsInOrder(after, calls)  BY <1>1, TargetsInOrder
<1>3. after[0] = <<>> /\ ReadTargets(calls) = after[N]  BY <1>2 DEF ReadsInOrder
<1>4. \A i \in 1 .. N : after[i] = after[i - 1] \o calls[i].targets
  BY <1>1, <1>2 DEF ReadsInOrder
<1> HIDE DEF N
<1> DEFINE Lists(s, k) == /\ s \in Seq(ReadTargetType)
                          /\ \A i \in 1 .. k : \A j \in DOMAIN calls[i].targets :
                                \E n \in DOMAIN s : s[n] = calls[i].targets[j]
           T == {k \in Nat : k <= N => Lists(after[k], k)}
<1>5. Lists(<<>>, 0)
  <2>1. <<>> \in Seq(ReadTargetType) /\ 1 .. 0 = {}  OBVIOUS
  <2> QED BY <2>1
<1>6. ASSUME NEW k \in Nat, k + 1 <= N, Lists(after[k], k) PROVE Lists(after[k + 1], k + 1)
  <2> DEFINE s == after[k]
             new == calls[k + 1].targets
             both == s \o new
  <2>1. k + 1 \in 1 .. N /\ (k + 1) - 1 = k /\ \A i \in 1 .. (k + 1) : i \in 1 .. k \/ i = k + 1
    BY <1>1, <1>6
  <2>2. after[k + 1] = both /\ new \in Seq(ReadTargetType)  BY <1>1, <1>4, <2>1
  <2>3. s \in Seq(ReadTargetType)  BY <1>6
  <2>4. \A i \in 1 .. k : \A j \in DOMAIN calls[i].targets : \E n \in DOMAIN s : s[n] = calls[i].targets[j]
    BY <1>6
  <2> HIDE DEF s, new
  <2>5. /\ both \in Seq(ReadTargetType) /\ Len(both) = Len(s) + Len(new)
        /\ \A n \in 1 .. Len(s) : both[n] = s[n]
        /\ \A n \in 1 .. Len(new) : both[Len(s) + n] = new[n]
    BY <2>2, <2>3, ConcatProperties
  <2>6. /\ Len(s) \in Nat /\ DOMAIN s = 1 .. Len(s) /\ Len(new) \in Nat /\ DOMAIN new = 1 .. Len(new)
        /\ DOMAIN both = 1 .. (Len(s) + Len(new))
    BY <2>2, <2>3, <2>5
  <2> HIDE DEF both
  <2>7. \A n \in DOMAIN s : n \in DOMAIN both /\ both[n] = s[n]  BY <2>5, <2>6
  <2>8. \A n \in DOMAIN new : Len(s) + n \in DOMAIN both /\ both[Len(s) + n] = new[n]
    BY <2>5, <2>6
  <2>9. ASSUME NEW i \in 1 .. (k + 1), NEW j \in DOMAIN calls[i].targets
        PROVE  \E n \in DOMAIN both : both[n] = calls[i].targets[j]
    <3>1. CASE i \in 1 .. k
      BY <2>4, <2>7, <3>1
    <3>2. CASE i = k + 1
      BY <2>8, <3>2 DEF new
    <3> QED BY <2>1, <3>1, <3>2
  <2>10. Lists(both, k + 1)  BY <2>5, <2>9
  <2> HIDE DEF Lists
  <2> QED BY <2>2, <2>10
<1> HIDE DEF Lists
<1>7. 0 \in T  BY <1>3, <1>5
<1>8. ASSUME NEW k \in Nat, k \in T PROVE k + 1 \in T
  <2> SUFFICES ASSUME k + 1 <= N PROVE Lists(after[k + 1], k + 1)
    OBVIOUS
  <2>1. k <= N  BY <1>1
  <2> QED BY <1>6, <1>8, <2>1
<1>9. N \in T
  <2> HIDE DEF T
  <2> QED BY <1>1, <1>7, <1>8, Induction
<1>10. Lists(ReadTargets(calls), N)
  <2>1. N <= N  BY <1>1
  <2> QED BY <1>3, <1>9, <2>1
<1>11. ASSUME NEW t \in TargetsOf(calls) PROVE \E j \in DOMAIN ReadTargets(calls) : ReadTargets(calls)[j] = t
  <2>1. PICK i \in DOMAIN calls : t \in ToSet(calls[i].targets)  BY DEF TargetsOf
  <2>2. PICK j \in DOMAIN calls[i].targets : calls[i].targets[j] = t  BY <2>1 DEF ToSet
  <2> QED BY <1>1, <1>10, <2>2 DEF Lists
<1> QED BY <1>10, <1>11 DEF Lists

\* Merging one plan into an empty one keeps its actions and its excerpts.
LEMMA PushedAll ==
    ASSUME NEW o, InOrder(o), o.excerpts = <<>>, NEW xs, IsList(xs), Len(xs) <= MaxPlanFiles,
           \A i \in DOMAIN xs : Fits(xs[i])
    PROVE  LET q == PushExcerpts(o, xs)
           IN  /\ InOrder(q) /\ q.bytes = o.bytes /\ Len(q.excerpts) <= Len(xs)
               /\ \A i \in DOMAIN xs : \A n \in 1 .. FileLines :
                     xs[i].start <= n /\ n <= xs[i].end => n \in ShownLines(q, xs[i].path)
<1> DEFINE N == Len(xs)
<1>1. N \in Nat /\ DOMAIN xs = 1 .. N /\ MaxPlanFiles \in Nat  BY ListFacts, PlanAssumption
<1>2. PICK after : PushedInOrder(after, o, xs)  BY <1>1, PushesInOrder
<1>3. /\ after[0] = o /\ \A i \in 1 .. N : after[i] = PushExcerpt(after[i - 1], xs[i])
      /\ PushExcerpts(o, xs) = after[N]
  BY <1>2 DEF PushedInOrder
<1> HIDE DEF N
<1> DEFINE OK(q, k) == /\ InOrder(q) /\ q.bytes = o.bytes /\ Len(q.excerpts) <= k
                       /\ \A i \in 1 .. k : \A n \in 1 .. FileLines :
                             xs[i].start <= n /\ n <= xs[i].end => n \in ShownLines(q, xs[i].path)
           T == {k \in Nat : k <= N => OK(after[k], k)}
<1>4. OK(o, 0)
  <2>1. Len(o.excerpts) = 0 /\ 0 <= 0 /\ 1 .. 0 = {}  BY EmptyList
  <2> QED BY <2>1
<1>5. ASSUME NEW k \in Nat, k + 1 <= N, OK(after[k], k) PROVE OK(after[k + 1], k + 1)
  <2> DEFINE e == xs[k + 1]
             q == after[k]
             r == PushExcerpt(q, e)
  <2>1. k + 1 \in 1 .. N /\ (k + 1) - 1 = k /\ \A i \in 1 .. (k + 1) : i \in 1 .. k \/ i = k + 1
    BY <1>1, <1>5
  <2>2. after[k + 1] = r /\ Fits(e)  BY <1>1, <1>3, <2>1
  <2>3. InOrder(q) /\ Len(q.excerpts) <= k /\ q.bytes = o.bytes  BY <1>5
  <2>4. Len(q.excerpts) \in Nat  BY <2>3, ListFacts DEF InOrder
  <2>5. k < MaxPlanFiles  BY <1>1, <1>5 DEF N
  <2>6. Len(q.excerpts) < MaxPlanFiles
    <3> DEFINE x == Len(q.excerpts)
    <3>1. x \in Nat /\ x <= k  BY <2>3, <2>4
    <3> HIDE DEF x
    <3>2. x < MaxPlanFiles  BY <1>1, <2>5, <3>1
    <3> QED BY <3>2 DEF x
  <2>7. \A i \in 1 .. k : \A n \in 1 .. FileLines :
           xs[i].start <= n /\ n <= xs[i].end => n \in ShownLines(q, xs[i].path)
    BY <1>5
  <2> HIDE DEF q, e
  <2>8. TakesUp(q, r, e)  BY <2>2, <2>3, <2>6, PushShows
  <2> HIDE DEF r
  <2>9. InOrder(r) /\ r.bytes = o.bytes /\ Len(r.excerpts) <= Len(q.excerpts) + 1
    BY <2>3, <2>8 DEF TakesUp
  <2>10. Len(r.excerpts) <= k + 1
    <3> DEFINE x == Len(q.excerpts)
               y == Len(r.excerpts)
    <3>1. y \in Nat  BY <2>9, ListFacts DEF InOrder
    <3>2. x \in Nat /\ x <= k /\ y <= x + 1  BY <2>3, <2>4, <2>9
    <3> HIDE DEF x, y
    <3>3. y <= k + 1  BY <3>1, <3>2
    <3> QED BY <3>3 DEF y
  <2>11. ASSUME NEW i \in 1 .. (k + 1), NEW n \in 1 .. FileLines, xs[i].start <= n, n <= xs[i].end
         PROVE  n \in ShownLines(r, xs[i].path)
    <3>1. CASE i \in 1 .. k
      <4>1. n \in ShownLines(q, xs[i].path)  BY <2>7, <2>11, <3>1
      <4> QED BY <2>8, <4>1 DEF TakesUp
    <3>2. CASE i = k + 1
      BY <2>8, <2>11, <3>2 DEF TakesUp, e
    <3> QED BY <2>1, <3>1, <3>2
  <2>12. OK(r, k + 1)  BY <2>9, <2>10, <2>11
  <2> HIDE DEF OK
  <2> QED BY <2>2, <2>12
<1> HIDE DEF OK
<1>6. 0 \in T  BY <1>3, <1>4
<1>7. ASSUME NEW k \in Nat, k \in T PROVE k + 1 \in T
  <2> SUFFICES ASSUME k + 1 <= N PROVE OK(after[k + 1], k + 1)
    OBVIOUS
  <2>1. k <= N  BY <1>1
  <2> QED BY <1>5, <1>7, <2>1
<1>8. N \in T
  <2> HIDE DEF T
  <2> QED BY <1>1, <1>6, <1>7, Induction
<1>9. OK(PushExcerpts(o, xs), N)
  <2>1. N <= N  BY <1>1
  <2> QED BY <1>3, <1>8, <2>1
<1> QED BY <1>1, <1>9 DEF OK, N

LEMMA ActedAll ==
    ASSUME NEW new, IsList(new), Len(new) <= MaxPlanActions
    PROVE  LET acts == WithActions(<<>>, new)
           IN  /\ IsList(acts) /\ Len(acts) <= Len(new)
               /\ \A i \in DOMAIN acts : \E j \in DOMAIN new : acts[i] = new[j]
               /\ \A j \in DOMAIN new : \E i \in DOMAIN acts : acts[i] = new[j]
<1> DEFINE N == Len(new)
<1>1. N \in Nat /\ DOMAIN new = 1 .. N /\ MaxPlanActions \in Nat  BY ListFacts, PlanAssumption
<1>2. PICK after : ActedInOrder(after, <<>>, new)  BY <1>1, ActionsInOrder
<1>3. /\ after[0] = <<>> /\ \A i \in 1 .. N : after[i] = WithAction(after[i - 1], new[i])
      /\ WithActions(<<>>, new) = after[N]
  BY <1>2 DEF ActedInOrder
<1> HIDE DEF N
<1> DEFINE OK(s, k) == /\ IsList(s) /\ Len(s) <= k
                       /\ \A i \in DOMAIN s : \E j \in 1 .. k : s[i] = new[j]
                       /\ \A j \in 1 .. k : \E i \in DOMAIN s : s[i] = new[j]
           T == {k \in Nat : k <= N => OK(after[k], k)}
<1>4. OK(<<>>, 0)
  <2>1. 1 .. 0 = {} /\ DOMAIN <<>> = {} /\ 0 <= 0  OBVIOUS
  <2> QED BY <2>1, EmptyList
<1>5. ASSUME NEW k \in Nat, k + 1 <= N, OK(after[k], k) PROVE OK(after[k + 1], k + 1)
  <2> DEFINE s == after[k]
             a == new[k + 1]
             more == Append(s, a)
  <2>1. /\ k + 1 \in 1 .. N /\ (k + 1) - 1 = k /\ k + 1 \in 1 .. (k + 1)
        /\ \A i \in 1 .. (k + 1) : i \in 1 .. k \/ i = k + 1
        /\ \A i \in 1 .. k : i \in 1 .. (k + 1)
    BY <1>1, <1>5
  <2>2. /\ IsList(s) /\ Len(s) <= k
        /\ \A i \in DOMAIN s : \E j \in 1 .. k : s[i] = new[j]
        /\ \A j \in 1 .. k : \E i \in DOMAIN s : s[i] = new[j]
    BY <1>5
  <2>3. after[k + 1] = WithAction(s, a)  BY <1>3, <2>1
  <2> DEFINE x == Len(s)
  <2>4. x \in Nat /\ x <= k  BY <2>2, ListFacts
  <2>5. k < MaxPlanActions  BY <1>1, <1>5 DEF N
  <2> HIDE DEF s, x
  <2>6. x <= k + 1 /\ x + 1 <= k + 1 /\ ~(x >= MaxPlanActions)  BY <1>1, <2>4, <2>5
  <2>7. WithAction(s, a) = IF \E i \in DOMAIN s : s[i] = a THEN s ELSE more
    BY <2>6 DEF WithAction, x
  <2>8. CASE \E i \in DOMAIN s : s[i] = a
    <3>1. \A j \in 1 .. (k + 1) : \E i \in DOMAIN s : s[i] = new[j]  BY <2>1, <2>2, <2>8
    <3>2. \A i \in DOMAIN s : \E j \in 1 .. (k + 1) : s[i] = new[j]  BY <2>1, <2>2
    <3>3. OK(s, k + 1)  BY <2>2, <2>6, <3>1, <3>2 DEF x
    <3> HIDE DEF OK
    <3> QED BY <2>3, <2>7, <2>8, <3>3
  <2>9. CASE ~\E i \in DOMAIN s : s[i] = a
    <3>1. /\ \A i \in DOMAIN s : i \in DOMAIN more /\ more[i] = s[i]
          /\ Len(s) + 1 \in DOMAIN more /\ more[Len(s) + 1] = a
          /\ \A i \in DOMAIN more : i \in DOMAIN s \/ more[i] = a
      BY <2>2, AppendMembers
    <3>2. IsList(more) /\ Len(more) = x + 1  BY <2>2, ListAppend DEF x
    <3> HIDE DEF more
    <3>3. \A j \in 1 .. (k + 1) : \E i \in DOMAIN more : more[i] = new[j]  BY <2>1, <2>2, <3>1
    <3>4. ASSUME NEW i \in DOMAIN more PROVE \E j \in 1 .. (k + 1) : more[i] = new[j]
      <4>1. CASE i \in DOMAIN s
        <5>1. more[i] = s[i]  BY <3>1, <4>1
        <5>2. PICK j \in 1 .. k : s[i] = new[j]  BY <2>2, <4>1
        <5> QED BY <2>1, <5>1, <5>2
      <4>2. CASE more[i] = a
        BY <2>1, <4>2
      <4> QED BY <3>1, <4>1, <4>2
    <3>5. OK(more, k + 1)  BY <2>6, <3>2, <3>3, <3>4
    <3> HIDE DEF OK
    <3> QED BY <2>3, <2>7, <2>9, <3>5
  <2> QED BY <2>8, <2>9
<1> HIDE DEF OK
<1>6. 0 \in T  BY <1>3, <1>4
<1>7. ASSUME NEW k \in Nat, k \in T PROVE k + 1 \in T
  <2> SUFFICES ASSUME k + 1 <= N PROVE OK(after[k + 1], k + 1)
    OBVIOUS
  <2>1. k <= N  BY <1>1
  <2> QED BY <1>5, <1>7, <2>1
<1>8. N \in T
  <2> HIDE DEF T
  <2> QED BY <1>1, <1>6, <1>7, Induction
<1>9. OK(WithActions(<<>>, new), N)
  <2>1. N <= N  BY <1>1
  <2> QED BY <1>3, <1>8, <2>1
<1> QED BY <1>1, <1>9 DEF OK, N

\* The plan of some targets: each is shown by it, or will be read.
GoodPlan(plan, targets) ==
    /\ IsReadPlan(plan)
    /\ Len(plan.actions) + Len(plan.observation.excerpts) <= Len(targets)
    /\ \A j \in DOMAIN targets : Served(plan, targets[j])

\* Only these parts of a plan matter.
LEMMA SamePlan ==
    ASSUME NEW plan, NEW targets, GoodPlan(plan, targets), NEW other, DOMAIN other = DOMAIN plan,
           other.actions = plan.actions, other.observation = plan.observation
    PROVE  GoodPlan(other, targets)
BY DEF GoodPlan, IsReadPlan, Served

LEMMA UnlessEmptyIsGood ==
    ASSUME NEW plan, NEW targets, GoodPlan(plan, targets)
    PROVE  UnlessEmpty(plan).aborted \/ GoodPlan(UnlessEmpty(plan), targets)
<1> DEFINE out == [plan EXCEPT !.aborted = FALSE]
<1>1. UnlessEmpty(plan) = EmptyPlan \/ UnlessEmpty(plan) = out  BY DEF UnlessEmpty
<1>2. EmptyPlan.aborted  BY DEF EmptyPlan
<1>3. DOMAIN plan = DOMAIN EmptyPlan  BY DEF GoodPlan, IsReadPlan
<1>4. DOMAIN out = DOMAIN plan /\ out.actions = plan.actions /\ out.observation = plan.observation
  BY <1>3 DEF EmptyPlan
<1>5. GoodPlan(out, targets)  BY <1>4, SamePlan
<1> HIDE DEF out
<1> QED BY <1>1, <1>2, <1>5

LEMMA MergedIsGood ==
    ASSUME NEW plan, NEW targets, Fitting(targets), GoodPlan(plan, targets)
    PROVE  GoodPlan(MergePlans(EmptyPlan, plan), targets)
<1> DEFINE xs == plan.observation.excerpts
           new == plan.actions
           q == PushExcerpts(EmptyObservation, xs)
           acts == WithActions(<<>>, new)
           o == [q EXCEPT !.files = WithFiles(EmptyPlan.observation.files, plan.observation.files),
                          !.symbols = EmptyPlan.observation.symbols \cup plan.observation.symbols,
                          !.cacheHit = @ \/ plan.observation.cacheHit]
           out == MergePlans(EmptyPlan, plan)
<1>1. /\ IsList(new) /\ IsList(xs) /\ Len(new) \in Nat /\ Len(xs) \in Nat
      /\ \A i \in DOMAIN xs : Fits(xs[i])
      /\ \A i \in DOMAIN new : \E t \in ReadTargetType : new[i] = ReadOf(t)
      /\ Len(new) + Len(xs) <= Len(targets)
  BY ListFacts DEF GoodPlan, IsReadPlan, InOrder
<1>2. Len(new) <= MaxPlanActions /\ Len(xs) <= MaxPlanFiles
  <2>1. /\ Len(targets) \in Nat /\ MaxPlanActions \in Nat /\ MaxPlanFiles \in Nat
        /\ Len(targets) <= MaxPlanFiles /\ Len(targets) <= MaxPlanActions
    BY PlanAssumption DEF Fitting
  <2> DEFINE x == Len(new)
             y == Len(xs)
  <2>2. x \in Nat /\ y \in Nat /\ x + y <= Len(targets)  BY <1>1
  <2> HIDE DEF x, y
  <2>3. x <= MaxPlanActions /\ y <= MaxPlanFiles  BY <2>1, <2>2
  <2> QED BY <2>3 DEF x, y
<1>3. InOrder(EmptyObservation) /\ EmptyObservation.bytes = 0 /\ EmptyObservation.excerpts = <<>>
  BY EmptyList DEF InOrder, EmptyObservation
<1>4. EmptyPlan.actions = <<>> /\ EmptyPlan.observation = EmptyObservation  BY DEF EmptyPlan
<1>5. DOMAIN out = DOMAIN EmptyPlan /\ out.actions = acts /\ out.observation = o
  BY <1>4 DEF MergePlans, EmptyPlan
<1> HIDE DEF xs, new, out
<1>6. /\ InOrder(q) /\ q.bytes = 0 /\ Len(q.excerpts) <= Len(xs)
      /\ \A i \in DOMAIN xs : \A n \in 1 .. FileLines :
            xs[i].start <= n /\ n <= xs[i].end => n \in ShownLines(q, xs[i].path)
  BY <1>1, <1>2, <1>3, PushedAll
<1>7. /\ IsList(acts) /\ Len(acts) <= Len(new)
      /\ \A i \in DOMAIN acts : \E j \in DOMAIN new : acts[i] = new[j]
      /\ \A j \in DOMAIN new : \E i \in DOMAIN acts : acts[i] = new[j]
  BY <1>1, <1>2, ActedAll
<1> HIDE DEF acts, q
<1>8. DOMAIN q = DOMAIN EmptyObservation  BY <1>6 DEF InOrder
<1>9. DOMAIN o = DOMAIN EmptyObservation /\ o.excerpts = q.excerpts /\ o.bytes = q.bytes
  BY <1>8 DEF EmptyObservation
<1> HIDE DEF o
<1>10. InOrder(o) /\ \A p : ShownLines(o, p) = ShownLines(q, p)
  BY <1>6, <1>9 DEF InOrder, ShownLines
<1>11. IsReadPlan(out)
  <2>1. \A i \in DOMAIN acts : \E t \in ReadTargetType : acts[i] = ReadOf(t)  BY <1>1, <1>7
  <2> QED BY <1>5, <1>6, <1>7, <1>9, <1>10, <2>1 DEF IsReadPlan
<1>12. Len(out.actions) + Len(out.observation.excerpts) <= Len(targets)
  <2> DEFINE x == Len(new)
             y == Len(xs)
             v == Len(acts)
             w == Len(q.excerpts)
  <2>1. v \in Nat /\ w \in Nat  BY <1>6, <1>7, ListFacts DEF InOrder
  <2>2. x \in Nat /\ y \in Nat /\ x + y <= Len(targets) /\ v <= x /\ w <= y /\ Len(targets) \in Nat
    BY <1>1, <1>6, <1>7 DEF Fitting
  <2> HIDE DEF x, y, v, w
  <2>3. v + w <= Len(targets)  BY <2>1, <2>2
  <2> QED BY <1>5, <1>9, <2>3 DEF v, w
<1>13. ASSUME NEW j \in DOMAIN targets PROVE Served(out, targets[j])
  <2> DEFINE t == targets[j]
  <2>1. Served(plan, t)  BY DEF GoodPlan
  <2>2. CASE Asked(t) \subseteq ShownLines(plan.observation, t.path)
    <3>1. ASSUME NEW n \in Asked(t) PROVE n \in ShownLines(o, t.path)
      <4>1. n \in 1 .. FileLines  BY DEF Asked
      <4>2. n \in ShownLines(plan.observation, t.path)  BY <2>2
      <4>3. PICK i \in DOMAIN xs : xs[i].path = t.path /\ xs[i].start <= n /\ n <= xs[i].end
        BY <4>2, Shown DEF xs
      <4>4. n \in ShownLines(q, t.path)  BY <1>6, <4>1, <4>3
      <4> QED BY <1>10, <4>4
    <3> QED BY <1>5, <3>1 DEF Served
  <2>3. CASE \E i \in DOMAIN new : new[i] = ReadOf(t)
    BY <1>5, <1>7, <2>3 DEF Served
  <2> QED BY <2>1, <2>2, <2>3 DEF Served, new
<1> QED BY <1>11, <1>12, <1>13 DEF GoodPlan, out

\* One plan is merged into the empty one.
LEMMA MergedOnce ==
    ASSUME NEW plan
    PROVE  MergeAll(<<plan>>) = MergePlans(EmptyPlan, plan)
<1> DEFINE s == <<plan>>
           Goes(f) == f = [n \in 0 .. Len(s) |-> IF n = 0 THEN EmptyPlan ELSE MergePlans(f[n - 1], s[n])]
           g == [n \in 0 .. 1 |-> IF n = 0 THEN EmptyPlan ELSE MergePlans(EmptyPlan, plan)]
           after == CHOOSE f : Goes(f)
<1>1. Len(s) = 1 /\ s[1] = plan  OBVIOUS
<1>2. MergeAll(s) = after[Len(s)]  BY DEF MergeAll
<1> HIDE DEF s
<1>3. 0 \in 0 .. 1 /\ 1 \in 0 .. 1 /\ 1 # 0 /\ 1 - 1 = 0 /\ \A n \in 0 .. 1 : n = 0 \/ n = 1
  OBVIOUS
<1>4. g[0] = EmptyPlan /\ g[1] = MergePlans(EmptyPlan, plan)  BY <1>3
<1>5. DOMAIN g = 0 .. 1 /\ g = [n \in 0 .. 1 |-> g[n]]  OBVIOUS
<1> HIDE DEF g
<1>6. \A n \in 0 .. 1 : g[n] = IF n = 0 THEN EmptyPlan ELSE MergePlans(g[n - 1], s[n])
  BY <1>1, <1>3, <1>4
<1>7. Goes(g)  BY <1>1, <1>5, <1>6
<1>8. Goes(after)  BY <1>7
<1> HIDE DEF after
<1>9. \A n \in 0 .. 1 : after[n] = IF n = 0 THEN EmptyPlan ELSE MergePlans(after[n - 1], s[n])
  BY <1>1, <1>8
<1>10. after[0] = EmptyPlan /\ after[1] = MergePlans(after[0], plan)  BY <1>1, <1>3, <1>9
<1> QED BY <1>1, <1>2, <1>10 DEF s

\* A batch of reads has no search to plan.
LEMMA NoSearch ==
    ASSUME NEW context, NEW calls, Len(calls) \in Nat, \A i \in 1 .. Len(calls) : calls[i].tool = "read"
    PROVE  SearchPlans(context, calls) = <<>>
<1> DEFINE N == Len(calls)
           next(f, n) == IF n = 0 THEN <<>>
                         ELSE IF calls[n].tool = "search" THEN Append(f[n - 1], PlanSearch(context, calls[n].terms))
                         ELSE f[n - 1]
           Goes(f) == f = [n \in 0 .. N |-> next(f, n)]
           upTo == CHOOSE f : Goes(f)
           g == [n \in 0 .. N |-> <<>>]
<1>1. SearchPlans(context, calls) = upTo[N]  BY DEF SearchPlans
<1>2. \A n \in 0 .. N : n = 0 \/ (n \in 1 .. N /\ n - 1 \in 0 .. N)  OBVIOUS
<1>3. \A n \in 1 .. N : calls[n].tool # "search"  OBVIOUS
<1>4. \A f : \A n \in 0 .. N : next(f, n) = IF n = 0 THEN <<>> ELSE f[n - 1]  BY <1>2, <1>3
<1> HIDE DEF next
<1>5. \A n \in 0 .. N : g[n] = <<>>  OBVIOUS
<1>6. \A n \in 0 .. N : <<>> = next(g, n)  BY <1>2, <1>4, <1>5
<1>7. Goes(g)  BY <1>6
<1>8. Goes(upTo)  BY <1>7
<1> HIDE DEF upTo, N
<1>9. \A n \in 0 .. N : upTo[n] = IF n = 0 THEN <<>> ELSE upTo[n - 1]  BY <1>4, <1>8
<1> DEFINE T == {n \in Nat : n <= N => upTo[n] = <<>>}
<1>10. N \in Nat  BY DEF N
<1>11. 0 \in T
  <2>1. 0 \in 0 .. N  BY <1>10
  <2> QED BY <1>9, <2>1
<1>12. ASSUME NEW n \in Nat, n \in T PROVE n + 1 \in T
  <2> SUFFICES ASSUME n + 1 <= N PROVE upTo[n + 1] = <<>>
    OBVIOUS
  <2>1. n <= N /\ n + 1 \in 0 .. N /\ n + 1 # 0 /\ (n + 1) - 1 = n  BY <1>10
  <2> QED BY <1>9, <1>12, <2>1
<1>13. N \in T
  <2> HIDE DEF T
  <2> QED BY <1>10, <1>11, <1>12, Induction
<1>14. N <= N  BY <1>10
<1> QED BY <1>1, <1>13, <1>14

LEMMA BatchIsPlanned ==
    ASSUME NEW context, IsKnown(context), NEW calls \in Batches, WithinLimits(calls)
    PROVE  /\ Fitting(ReadTargets(calls))
           /\ PlanForActions(context, calls).aborted \/ GoodPlan(PlanForActions(context, calls), ReadTargets(calls))
<1> DEFINE targets == ReadTargets(calls)
           read == PlanReadTargets(context, targets)
           out == PlanForActions(context, calls)
<1>1. Len(calls) \in Nat /\ DOMAIN calls = 1 .. Len(calls) /\ \A i \in DOMAIN calls : calls[i].tool = "read"
  BY PlanAssumption DEF WithinLimits
<1>2. targets \in Seq(ReadTargetType)  BY <1>1, TargetsAreListed
<1>3. Fitting(targets)  BY <1>2 DEF WithinLimits, Fitting, IsShort
<1> HIDE DEF targets
<1>4. EmptyPlan.aborted  BY DEF EmptyPlan
<1>5. read.aborted \/ GoodPlan(read, targets)
  <2> DEFINE acc == PlanTargets(context, targets)
  <2>1. AtMost(MaxPlanCandidates, targets) = targets
    <3>1. IsList(targets) /\ MaxPlanCandidates \in Nat /\ Len(targets) <= MaxPlanCandidates
      BY <1>2, <1>3, PlanAssumption DEF IsList, Fitting
    <3> QED BY <3>1, AtMostAll
  <2>2. read = EmptyPlan \/ read = UnlessEmpty(acc.plan)  BY <2>1 DEF PlanReadTargets
  <2>3. PlannedSoFar(acc, targets, Len(targets))  BY <1>3, TargetsArePlanned
  <2> HIDE DEF acc
  <2>4. GoodPlan(acc.plan, targets)
    <3>1. DOMAIN targets = 1 .. Len(targets) /\ Len(targets) \in Nat  BY <1>2
    <3> DEFINE x == Len(acc.plan.actions)
               y == Len(acc.plan.observation.excerpts)
               z == Len(acc.seen)
    <3>2. x \in Nat /\ y \in Nat /\ z \in Nat /\ x + y <= z /\ z <= Len(targets)
      BY <2>3, ListFacts DEF PlannedSoFar, IsReadPlan, InOrder
    <3> HIDE DEF x, y, z
    <3>3. x + y <= Len(targets)  BY <3>1, <3>2
    <3> QED BY <2>3, <3>1, <3>3 DEF GoodPlan, PlannedSoFar, x, y
  <2> HIDE DEF read
  <2> QED BY <1>4, <2>2, <2>4, UnlessEmptyIsGood
<1>6. out = EmptyPlan \/ out = Coalesce(<<read>>)
  <2>0. SearchPlans(context, calls) = <<>>  BY <1>1, NoSearch
  <2>1. CASE DOMAIN calls = {}
    <3>1. Coalesce(<<>>) = EmptyPlan  BY DEF Coalesce
    <3>2. \A i \in DOMAIN calls : calls[i].tool # "read"  BY <2>1
    <3> QED BY <2>0, <3>1, <3>2 DEF PlanForActions
  <2>2. CASE DOMAIN calls # {}
    <3>1. \E i \in DOMAIN calls : calls[i].tool = "read"  BY <1>1, <2>2
    <3>2. ~\A i \in DOMAIN calls : calls[i].tool # "read"  BY <3>1
    <3>4. Append(<<>>, read) = <<read>>  OBVIOUS
    <3> HIDE DEF read
    <3> QED BY <2>0, <3>2, <3>4 DEF PlanForActions, read, targets
  <2> QED BY <2>1, <2>2
<1> HIDE DEF read, out
<1>7. Coalesce(<<read>>) = EmptyPlan \/ (~read.aborted /\ Coalesce(<<read>>) = UnlessEmpty(MergePlans(EmptyPlan, read)))
  <2>1. 1 \in DOMAIN <<read>> /\ <<read>>[1] = read  OBVIOUS
  <2> QED BY <2>1, MergedOnce DEF Coalesce
<1>8. ~read.aborted => GoodPlan(MergePlans(EmptyPlan, read), targets)
  BY <1>3, <1>5, MergedIsGood
<1>9. out.aborted \/ GoodPlan(out, targets)  BY <1>4, <1>6, <1>7, <1>8, UnlessEmptyIsGood
<1> QED BY <1>3, <1>9 DEF targets, out

\* What is read of a file, when there is room for all of it, holds the whole range.
LEMMA ReadFits ==
    ASSUME NEW p, NEW a \in Nat, NEW b \in Nat, 0 < a, a <= b, NEW left \in Nat, FileLines <= left,
           FileLines <= MaxExcerptBytes
    PROVE  LET e == ReadExcerpt(p, << <<a, b>> >>, left)
           IN  /\ Fits(e) /\ e.path = p /\ Cardinality(e.lines) \in 0 .. FileLines
               /\ \A n \in 1 .. FileLines : a <= n /\ n <= b => e.start <= n /\ n <= e.end
<1> DEFINE ranges == << <<a, b>> >>
           read == {n \in 1 .. FileLines : n <= left /\ \E i \in DOMAIN ranges : ranges[i][1] <= n /\ n <= ranges[i][2]}
           lines == {n \in read : Cardinality({m \in read : m <= n}) <= MaxExcerptBytes}
           shown == a + Cardinality(lines) - 1
           e == ReadExcerpt(p, ranges, left)
           m == IF b <= FileLines THEN b ELSE FileLines
<1>0. FileLines \in Nat /\ MaxExcerptBytes \in Nat /\ FileLines # 0  BY PlanAssumption
<1>1. DOMAIN ranges = {1} /\ ranges[1][1] = a /\ ranges[1][2] = b /\ Len(ranges) = 1  OBVIOUS
<1>2. /\ e.path = p /\ e.start = a /\ e.lines = lines
      /\ e.end = IF lines = {} \/ b < a THEN a ELSE IF shown < b THEN shown ELSE b
  BY <1>1 DEF ReadExcerpt
<1> HIDE DEF ranges, e
<1>3. read = a .. m
  <2>1. \A n \in 1 .. FileLines : n \in read <=> a <= n /\ n <= b  BY <1>0, <1>1
  <2>2. \A n \in read : n \in 1 .. FileLines  OBVIOUS
  <2>3. m \in Nat /\ m <= FileLines /\ m <= b /\ \A n \in Nat : n <= b /\ n <= FileLines => n <= m
    BY <1>0
  <2> HIDE DEF read, m
  <2>4. \A n \in read : n \in a .. m
    <3> TAKE n \in read
    <3>1. n \in 1 .. FileLines /\ a <= n /\ n <= b  BY <2>1, <2>2
    <3> QED BY <1>0, <2>3, <3>1
  <2>5. \A n \in a .. m : n \in read
    <3> TAKE n \in a .. m
    <3>1. n \in 1 .. FileLines /\ a <= n /\ n <= b  BY <1>0, <2>3
    <3> QED BY <2>1, <3>1
  <2> QED BY <2>4, <2>5
<1>4. IsFiniteSet(1 .. FileLines) /\ Cardinality(1 .. FileLines) = FileLines
  BY <1>0, FS_Interval
<1>5. lines = read
  <2> SUFFICES ASSUME NEW n \in read PROVE Cardinality({x \in read : x <= n}) <= MaxExcerptBytes
    OBVIOUS
  <2> DEFINE some == {x \in read : x <= n}
  <2>1. some \in SUBSET (1 .. FileLines)  OBVIOUS
  <2> HIDE DEF some
  <2>2. Cardinality(some) \in Nat /\ Cardinality(some) <= FileLines
    BY <1>4, <2>1, FS_Subset, FS_CardinalityType
  <2> QED BY <1>0, <2>2 DEF some
<1>6. m \in Nat /\ m <= FileLines /\ m <= b /\ \A n \in 1 .. FileLines : n <= b => n <= m
  BY <1>0
<1> HIDE DEF read, lines, m
<1>7. Cardinality(lines) = IF a > m THEN 0 ELSE m - a + 1
  BY <1>3, <1>5, <1>6, FS_Interval
<1>8. Cardinality(lines) \in 0 .. FileLines  BY <1>0, <1>6, <1>7
<1>9. CASE a > m
  <2>1. lines = {}  BY <1>3, <1>5, <1>6, <1>9
  <2>2. e.end = a  BY <1>2, <2>1
  <2>3. \A n \in 1 .. FileLines : ~(a <= n /\ n <= b)  BY <1>6, <1>9
  <2>4. a .. a \cap 1 .. FileLines = {}  BY <1>0, <2>3
  <2>5. Fits(e)  BY <1>2, <2>2, <2>4 DEF Fits, IsWhole
  <2> QED BY <1>2, <1>8, <2>3, <2>5 DEF e, ranges
<1>10. CASE ~(a > m)
  <2>1. a \in a .. m  BY <1>6, <1>10
  <2>2. lines # {}  BY <1>3, <1>5, <2>1
  <2>3. shown = m  BY <1>6, <1>7, <1>10
  <2>4. e.end = m  BY <1>2, <1>6, <2>2, <2>3
  <2>5. Fits(e)
    <3>1. a .. m \cap 1 .. FileLines \subseteq lines  BY <1>3, <1>5
    <3> QED BY <1>2, <1>6, <2>4, <3>1 DEF Fits, IsWhole
  <2>6. \A n \in 1 .. FileLines : a <= n /\ n <= b => e.start <= n /\ n <= e.end
    BY <1>2, <1>6, <2>4
  <2> QED BY <1>2, <1>8, <2>5, <2>6 DEF e, ranges
<1> QED BY <1>9, <1>10

(***************************************************************************)
(* A batch under way.  What is not yet shown is still to be read, and for  *)
(* every action that is left the limits have room.                         *)
(***************************************************************************)

BatchRuns(b) == b.pc = "execute" \/ (b.pc = "answered" /\ "observation" \in ToSet(b.results))

Promising(b) ==
    /\ WithinLimits(b.calls)
    /\ \A i \in DOMAIN b.context.excerpts : IsWhole(b.context.excerpts[i])

ToDo(b) == Len(b.plan.actions) + 1 - b.at

InProgress(b) ==
    /\ IsList(b.plan.actions)
    /\ \A i \in DOMAIN b.plan.actions : \E t \in ReadTargetType : b.plan.actions[i] = ReadOf(t)
    /\ b.at \in Nat /\ 1 <= b.at /\ b.at <= Len(b.plan.actions) + 1
    /\ InOrder(b.observation) /\ b.observation.bytes \in Nat
    /\ b.observation.bytes + FileLines * ToDo(b) <= MaxPlanBytes
    /\ Len(b.observation.excerpts) + ToDo(b) <= MaxPlanFiles
    /\ \A t \in TargetsOf(b.calls) :
          \/ Asked(t) \subseteq ShownLines(b.observation, t.path)
          \/ \E k \in b.at .. Len(b.plan.actions) : b.plan.actions[k] = ReadOf(t)

PlanInv ==
    /\ DOMAIN planBatch = DOMAIN NoBatch
    /\ BatchRuns(planBatch) => planBatch.calls \in Batches /\ planBatch.context \in PlannerContexts
    /\ BatchRuns(planBatch) /\ Promising(planBatch) => InProgress(planBatch)
    /\ planBatch.pc = "answered" /\ BatchRuns(planBatch) => planBatch.at > Len(planBatch.plan.actions)

\* What a batch of reads asks for is what its targets say.
LEMMA AskedOf ==
    ASSUME NEW calls \in Batches, WithinLimits(calls), NEW t \in TargetsOf(calls)
    PROVE  /\ t \in ReadTargetType /\ IsShort(t)
           /\ \E j \in DOMAIN ReadTargets(calls) : ReadTargets(calls)[j] = t
<1>1. \A i \in DOMAIN calls : calls[i].tool = "read"  BY DEF WithinLimits
<1>2. ReadTargets(calls) \in Seq(ReadTargetType)  BY <1>1, TargetsAreListed
<1>3. PICK j \in DOMAIN ReadTargets(calls) : ReadTargets(calls)[j] = t
  BY <1>1, TargetsAreListed
<1>4. IsShort(t)  BY <1>3 DEF WithinLimits, IsShort
<1> QED BY <1>2, <1>3, <1>4

LEMMA PlanBegins ==
    ASSUME BeginBatch
    PROVE  PlanInv'
<1>1. PICK calls \in Batches, context \in PlannerContexts :
        \E plan \in {PlanForActions(context, calls)} :
          planBatch' = [NoBatch EXCEPT !.calls = calls, !.context = context, !.plan = plan,
                           !.observation = plan.observation,
                           !.pc = IF IsUsable(plan) THEN "execute" ELSE "scheduler"]
  BY DEF BeginBatch
<1> DEFINE plan == PlanForActions(context, calls)
           b == planBatch'
<1>2. b = [NoBatch EXCEPT !.calls = calls, !.context = context, !.plan = plan,
                           !.observation = plan.observation,
                           !.pc = IF IsUsable(plan) THEN "execute" ELSE "scheduler"]
  BY <1>1
<1> HIDE DEF plan
<1>3. /\ DOMAIN b = DOMAIN NoBatch /\ b.calls = calls /\ b.context = context /\ b.plan = plan
      /\ b.observation = plan.observation /\ b.at = 1
      /\ b.pc = IF IsUsable(plan) THEN "execute" ELSE "scheduler"
  BY <1>2 DEF NoBatch
<1> HIDE DEF b
<1>4. b.pc # "answered"  BY <1>3
<1>5. ASSUME BatchRuns(b), Promising(b) PROVE InProgress(b)
  <2>1. b.pc = "execute"  BY <1>4, <1>5 DEF BatchRuns
  <2>2. ~plan.aborted  BY <1>3, <2>1 DEF IsUsable
  <2>3. WithinLimits(calls) /\ IsKnown(context)  BY <1>3, <1>5 DEF Promising, IsKnown
  <2> DEFINE targets == ReadTargets(calls)
             acts == plan.actions
             o == plan.observation
  <2>4. Fitting(targets) /\ GoodPlan(plan, targets)  BY <2>2, <2>3, BatchIsPlanned DEF plan
  <2>5. /\ IsList(acts) /\ InOrder(o) /\ o.bytes = 0
        /\ \A i \in DOMAIN acts : \E t \in ReadTargetType : acts[i] = ReadOf(t)
        /\ Len(acts) + Len(o.excerpts) <= Len(targets)
    BY <2>4 DEF GoodPlan, IsReadPlan
  <2>6. Len(acts) \in Nat /\ DOMAIN acts = 1 .. Len(acts) /\ Len(o.excerpts) \in Nat
    BY <2>5, ListFacts DEF InOrder
  <2>7. /\ Len(targets) \in Nat /\ Len(targets) <= MaxPlanFiles /\ FileLines * Len(targets) <= MaxPlanBytes
        /\ FileLines \in Nat /\ MaxPlanFiles \in Nat /\ MaxPlanBytes \in Nat
    BY <2>3, <2>4, PlanAssumption DEF Fitting, WithinLimits
  <2> HIDE DEF targets, acts, o
  <2> DEFINE x == Len(acts)
             y == Len(o.excerpts)
             z == Len(targets)
  <2>8. x \in Nat /\ y \in Nat /\ z \in Nat /\ x + y <= z /\ x <= z  BY <2>5, <2>6, <2>7
  <2>9. FileLines * z <= MaxPlanBytes /\ z <= MaxPlanFiles  BY <2>7
  <2> HIDE DEF x, y, z
  <2>10. /\ 1 <= x + 1 /\ (x + 1) - 1 = x /\ y + x <= MaxPlanFiles  BY <2>7, <2>8, <2>9
  <2>11. 0 + FileLines * x <= MaxPlanBytes
    <3>1. PICK d \in Nat : z = x + d
      <4>1. z - x \in Nat /\ z = x + (z - x)  BY <2>8
      <4> QED BY <4>1
    <3>2. FileLines * z = FileLines * x + FileLines * d /\ FileLines * d \in Nat /\ FileLines * x \in Nat
      BY <2>7, <2>8, <3>1
    <3> DEFINE u == FileLines * x
               v == FileLines * d
    <3>3. u \in Nat /\ v \in Nat /\ u + v <= MaxPlanBytes  BY <2>9, <3>2
    <3> HIDE DEF u, v
    <3>4. 0 + u <= MaxPlanBytes  BY <2>7, <3>3
    <3> QED BY <3>4 DEF u
  <2>12. b.plan.actions = acts /\ b.observation = o /\ ToDo(b) = x
    BY <1>3, <2>10 DEF ToDo, acts, o, x
  <2>13. \A t \in TargetsOf(calls) :
           Asked(t) \subseteq ShownLines(o, t.path) \/ \E k \in 1 .. Len(acts) : acts[k] = ReadOf(t)
    <3> TAKE t \in TargetsOf(calls)
    <3>1. PICK j \in DOMAIN targets : targets[j] = t  BY <2>3, AskedOf DEF targets
    <3>2. Served(plan, t)  BY <2>4, <3>1 DEF GoodPlan
    <3> QED BY <2>6, <3>2 DEF Served, acts, o
  <2> QED BY <1>3, <2>5, <2>10, <2>11, <2>12, <2>13 DEF InProgress, x, y
<1>6. PlanInv'
  BY <1>3, <1>4, <1>5 DEF PlanInv, b, BatchRuns, Promising, InProgress, ToDo
<1> QED BY <1>6

LEMMA OneLessToDo ==
    ASSUME NEW x \in Nat, NEW n \in Nat, n <= x
    PROVE  /\ x + 1 - n = (x + 1 - (n + 1)) + 1 /\ x + 1 - (n + 1) \in Nat
           /\ n + 1 \in Nat /\ 1 <= n + 1 /\ n + 1 <= x + 1
OBVIOUS

\* An action that is done shows what it was made for, and uses up room for one file.
LEMMA DoneAction ==
    ASSUME NEW b, BatchRuns(b), b.calls \in Batches, Promising(b), InProgress(b), b.at <= Len(b.plan.actions),
           NEW c, c.plan = b.plan, c.calls = b.calls, c.at = b.at + 1,
           InOrder(c.observation), c.observation.bytes \in Nat,
           c.observation.bytes <= b.observation.bytes + FileLines,
           Len(c.observation.excerpts) <= Len(b.observation.excerpts) + 1,
           \A p : ShownLines(b.observation, p) \subseteq ShownLines(c.observation, p),
           NEW lo, NEW hi, b.plan.actions[b.at].ranges = << <<lo, hi>> >>,
           \A n \in 1 .. FileLines : lo <= n /\ n <= hi => n \in ShownLines(c.observation, b.plan.actions[b.at].path)
    PROVE  InProgress(c)
<1> DEFINE acts == b.plan.actions
           o == b.observation
           q == c.observation
<1>1. /\ IsList(acts) /\ Len(acts) \in Nat /\ b.at \in Nat /\ 1 <= b.at
      /\ \A i \in DOMAIN acts : \E t \in ReadTargetType : acts[i] = ReadOf(t)
  BY ListFacts DEF InProgress
<1>2. /\ o.bytes \in Nat /\ o.bytes + FileLines * ToDo(b) <= MaxPlanBytes
      /\ Len(o.excerpts) + ToDo(b) <= MaxPlanFiles
  BY DEF InProgress
<1>3. Len(o.excerpts) \in Nat /\ Len(q.excerpts) \in Nat  BY ListFacts DEF InProgress, InOrder
<1>4. FileLines \in Nat /\ MaxPlanBytes \in Nat /\ MaxPlanFiles \in Nat  BY PlanAssumption
<1>5. /\ ToDo(b) = ToDo(c) + 1 /\ ToDo(c) \in Nat /\ c.at \in Nat /\ 1 <= c.at /\ c.at <= Len(acts) + 1
  <2> DEFINE x == Len(acts)
             n == b.at
  <2>1. x \in Nat /\ n \in Nat /\ n <= x /\ ToDo(b) = x + 1 - n /\ ToDo(c) = x + 1 - (n + 1) /\ c.at = n + 1
    BY <1>1 DEF ToDo
  <2> HIDE DEF x, n
  <2>2. x + 1 - n = (x + 1 - (n + 1)) + 1 /\ x + 1 - (n + 1) \in Nat /\ n + 1 \in Nat /\ 1 <= n + 1 /\ n + 1 <= x + 1
    BY <2>1, OneLessToDo
  <2> QED BY <2>1, <2>2 DEF x
<1>6. q.bytes + FileLines * ToDo(c) <= MaxPlanBytes
  <2> DEFINE d == ToDo(c)
             u == FileLines * d
             v == o.bytes
             w == q.bytes
  <2>1. d \in Nat /\ ToDo(b) = d + 1  BY <1>5
  <2> HIDE DEF d
  <2>2. FileLines * (d + 1) = u + FileLines /\ u \in Nat  BY <1>4, <2>1
  <2> HIDE DEF u
  <2>3. v \in Nat /\ w \in Nat /\ w <= v + FileLines /\ v + (u + FileLines) <= MaxPlanBytes
    BY <1>2, <2>1, <2>2
  <2> HIDE DEF v, w
  <2>4. w + u <= MaxPlanBytes  BY <1>4, <2>2, <2>3
  <2> QED BY <2>4 DEF w, u, d
<1>7. Len(q.excerpts) + ToDo(c) <= MaxPlanFiles
  <2> DEFINE d == ToDo(c)
             v == Len(o.excerpts)
             w == Len(q.excerpts)
  <2>1. d \in Nat /\ v \in Nat /\ w \in Nat /\ w <= v + 1 /\ v + (d + 1) <= MaxPlanFiles
    BY <1>2, <1>3, <1>5
  <2> HIDE DEF d, v, w
  <2>2. w + d <= MaxPlanFiles  BY <1>4, <2>1
  <2> QED BY <2>2 DEF w, d
<1>8. ASSUME NEW t \in TargetsOf(b.calls)
      PROVE  \/ Asked(t) \subseteq ShownLines(q, t.path)
             \/ \E k \in c.at .. Len(acts) : acts[k] = ReadOf(t)
  <2>1. CASE Asked(t) \subseteq ShownLines(o, t.path)
    BY <2>1
  <2>2. CASE \E k \in b.at .. Len(acts) : acts[k] = ReadOf(t)
    <3>1. PICK k \in b.at .. Len(acts) : acts[k] = ReadOf(t)  BY <2>2
    <3>2. CASE k = b.at
      <4>1. t \in ReadTargetType /\ IsShort(t)  BY AskedOf DEF Promising
      <4>2. PICK lo2 \in Nat, hi2 \in Nat : /\ NormalizeRanges(t.ranges) = << <<lo2, hi2>> >>
                                            /\ \A n \in Asked(t) : n \in 1 .. FileLines /\ lo2 <= n /\ n <= hi2
        BY <4>1, OneRange
      <4>3. acts[b.at].path = t.path /\ << <<lo2, hi2>> >> = << <<lo, hi>> >>
        BY <3>1, <3>2, <4>2 DEF ReadOf
      <4>4. lo2 = lo /\ hi2 = hi  BY <4>3
      <4>5. \A n \in Asked(t) : n \in ShownLines(q, t.path)  BY <4>2, <4>3, <4>4
      <4> QED BY <4>5
    <3>3. CASE k # b.at
      <4>1. k \in c.at .. Len(acts)  BY <1>1, <3>3
      <4> QED BY <3>1, <4>1
    <3> QED BY <3>2, <3>3
  <2> QED BY <2>1, <2>2 DEF InProgress
<1> QED BY <1>1, <1>5, <1>6, <1>7, <1>8 DEF InProgress

LEMMA PlanExecutes ==
    ASSUME PlanInv, ExecuteAction
    PROVE  PlanInv'
<1> DEFINE b == planBatch
           c == planBatch'
           acts == b.plan.actions
           action == acts[b.at]
           cached == CurrentExcerpt(b.context, action.path, action.ranges)
           left == MaxPlanBytes - b.observation.bytes
           excerpt == ReadExcerpt(action.path, action.ranges, left)
           skip == [b EXCEPT !.at = Len(acts) + 1]
           push == [b EXCEPT !.at = @ + 1, !.observation = PushExcerpt(@, cached[1])]
           read == [b EXCEPT !.at = @ + 1,
                             !.observation.excerpts = AtMost(MaxPlanFiles, Append(@, excerpt)),
                             !.observation.bytes = @ + Cardinality(excerpt.lines)]
<1>1. b.pc = "execute" /\ b.at <= Len(acts)  BY DEF ExecuteAction
<1>2. \/ left <= 0 /\ c = skip
      \/ cached # <<>> /\ c = push
      \/ ~(left <= 0) /\ cached = <<>> /\ c = read
  BY DEF ExecuteAction
<1>3. DOMAIN b = DOMAIN NoBatch /\ b.calls \in Batches /\ b.context \in PlannerContexts /\ BatchRuns(b)
  BY <1>1 DEF PlanInv, BatchRuns
<1>4. \A x \in {skip, push, read} : /\ DOMAIN x = DOMAIN b /\ x.pc = b.pc /\ x.plan = b.plan /\ x.calls = b.calls
                                    /\ x.context = b.context /\ x.results = b.results
  BY <1>3 DEF NoBatch
<1>5. c \in {skip, push, read}  BY <1>2
<1> HIDE DEF c, skip, push, read
<1>6. /\ DOMAIN c = DOMAIN b /\ c.pc = b.pc /\ c.plan = b.plan /\ c.calls = b.calls
      /\ c.context = b.context /\ c.results = b.results
  BY <1>4, <1>5
<1>7. ASSUME Promising(c) PROVE InProgress(c)
  <2>1. Promising(b) /\ InProgress(b)  BY <1>3, <1>6, <1>7 DEF Promising, PlanInv
  <2> DEFINE o == b.observation
             q == c.observation
  <2>2. /\ IsList(acts) /\ Len(acts) \in Nat /\ DOMAIN acts = 1 .. Len(acts) /\ b.at \in 1 .. Len(acts)
        /\ \A i \in DOMAIN acts : \E t \in ReadTargetType : acts[i] = ReadOf(t)
    BY <1>1, <2>1, ListFacts DEF InProgress
  <2>3. /\ InOrder(o) /\ o.bytes \in Nat /\ Len(o.excerpts) \in Nat
        /\ o.bytes + FileLines * ToDo(b) <= MaxPlanBytes /\ Len(o.excerpts) + ToDo(b) <= MaxPlanFiles
    BY <2>1, ListFacts DEF InProgress, InOrder
  <2>4. FileLines \in Nat /\ FileLines # 0 /\ MaxPlanBytes \in Nat /\ MaxPlanFiles \in Nat
    BY PlanAssumption
  <2>5. ToDo(b) \in Nat /\ 1 <= ToDo(b)
    <3> DEFINE x == Len(acts)
    <3>1. x \in Nat /\ b.at \in 1 .. x /\ ToDo(b) = x + 1 - b.at  BY <2>2 DEF ToDo
    <3> HIDE DEF x
    <3> QED BY <3>1
  <2>6. left \in Nat /\ FileLines <= left /\ Len(o.excerpts) < MaxPlanFiles
    <3> DEFINE d == ToDo(b)
               v == o.bytes
               y == Len(o.excerpts)
    <3>1. d \in Nat /\ 1 <= d /\ v \in Nat /\ y \in Nat /\ v + FileLines * d <= MaxPlanBytes /\ y + d <= MaxPlanFiles
      BY <2>3, <2>5
    <3>2. left = MaxPlanBytes - v  OBVIOUS
    <3> HIDE DEF d, v, y, left
    <3>3. PICK r \in Nat : d = r + 1
      <4>1. d - 1 \in Nat /\ d = (d - 1) + 1  BY <3>1
      <4> QED BY <4>1
    <3> DEFINE u == FileLines * r
    <3>4. FileLines * d = u + FileLines /\ u \in Nat  BY <2>4, <3>3
    <3> HIDE DEF u
    <3>5. v + (u + FileLines) <= MaxPlanBytes  BY <3>1, <3>4
    <3>6. left \in Nat /\ FileLines <= left  BY <2>4, <3>1, <3>2, <3>4, <3>5
    <3>7. y < MaxPlanFiles  BY <2>4, <3>1
    <3> QED BY <3>6, <3>7 DEF y
  <2>7. PICK u \in ReadTargetType : action = ReadOf(u)  BY <2>2
  <2>8. PICK lo \in Nat, hi \in Nat : action.ranges = << <<lo, hi>> >> /\ 0 < lo /\ lo <= hi
    BY <2>7, OneRange DEF ReadOf
  <2>9. ~(left <= 0)
    <3> HIDE DEF left
    <3> QED BY <2>4, <2>6
  <2>10. CASE cached # <<>> /\ c = push
    <3>1. IsKnown(b.context)  BY <1>3, <2>1 DEF IsKnown, Promising
    <3>2. PICK e : cached = <<e>> /\ Fits(e) /\ e.path = action.path /\ e.start <= lo /\ hi <= e.end
      BY <2>8, <2>10, <3>1, RetainedExcerpt
    <3>3. cached[1] = e  BY <3>2
    <3> HIDE DEF cached, action, left
    <3>4. q = PushExcerpt(o, e) /\ c.at = b.at + 1  BY <1>3, <2>10, <3>3 DEF push, NoBatch
    <3>5. TakesUp(o, q, e)  BY <2>3, <2>6, <3>2, <3>4, PushShows
    <3>6. /\ InOrder(q) /\ q.bytes = o.bytes /\ Len(q.excerpts) <= Len(o.excerpts) + 1
          /\ \A p : ShownLines(o, p) \subseteq ShownLines(q, p)
      BY <3>5 DEF TakesUp
    <3>7. q.bytes \in Nat /\ q.bytes <= o.bytes + FileLines  BY <2>3, <2>4, <3>6
    <3>8. \A n \in 1 .. FileLines : lo <= n /\ n <= hi => n \in ShownLines(q, action.path)
      <4>1. \A n \in 1 .. FileLines : lo <= n /\ n <= hi => e.start <= n /\ n <= e.end
        BY <2>4, <3>2 DEF Fits
      <4> QED BY <3>2, <3>5, <4>1 DEF TakesUp
    <3> HIDE DEF q, o, b
    <3> QED BY <1>1, <1>3, <1>6, <2>1, <2>8, <3>4, <3>6, <3>7, <3>8, DoneAction DEF q, o, action
  <2>11. CASE c = read
    <3>1. FileLines <= MaxExcerptBytes  BY <2>1 DEF Promising, WithinLimits
    <3> DEFINE e == excerpt
    <3>2. /\ Fits(e) /\ e.path = action.path /\ Cardinality(e.lines) \in 0 .. FileLines
          /\ \A n \in 1 .. FileLines : lo <= n /\ n <= hi => e.start <= n /\ n <= e.end
      <4>1. e = ReadExcerpt(action.path, << <<lo, hi>> >>, left)  BY <2>8
      <4> HIDE DEF action, left, e
      <4> QED BY <2>6, <2>8, <3>1, <4>1, ReadFits
    <3> HIDE DEF e, excerpt, action, left, cached
    <3>3. IsList(o.excerpts)  BY <2>3 DEF InOrder
    <3>4. IsList(Append(o.excerpts, e)) /\ Len(Append(o.excerpts, e)) = Len(o.excerpts) + 1
      BY <3>3, ListAppend
    <3>5. AtMost(MaxPlanFiles, Append(o.excerpts, e)) = Append(o.excerpts, e)
      <4> DEFINE y == Len(o.excerpts)
                 z == Len(Append(o.excerpts, e))
      <4>1. y \in Nat /\ z = y + 1 /\ y < MaxPlanFiles  BY <2>3, <2>6, <3>4
      <4> HIDE DEF y, z
      <4>2. z <= MaxPlanFiles  BY <2>4, <4>1
      <4> QED BY <2>4, <3>4, <4>2, AtMostAll DEF z
    <3>6. DOMAIN o = DOMAIN EmptyObservation  BY <2>3 DEF InOrder
    <3>7. /\ DOMAIN q = DOMAIN o /\ q.excerpts = Append(o.excerpts, e)
          /\ q.bytes = o.bytes + Cardinality(e.lines) /\ c.at = b.at + 1
      BY <1>3, <2>11, <3>5, <3>6 DEF read, NoBatch, EmptyObservation, e
    <3>8. /\ InOrder(q) /\ Len(q.excerpts) = Len(o.excerpts) + 1
          /\ \A p : ShownLines(o, p) \subseteq ShownLines(q, p)
          /\ \A n \in 1 .. FileLines : e.start <= n /\ n <= e.end => n \in ShownLines(q, e.path)
      BY <2>3, <3>2, <3>7, AppendShows
    <3>9. q.bytes \in Nat /\ q.bytes <= o.bytes + FileLines  BY <2>3, <2>4, <3>2, <3>7
    <3>10. Len(q.excerpts) <= Len(o.excerpts) + 1  BY <2>3, <3>8
    <3>11. \A n \in 1 .. FileLines : lo <= n /\ n <= hi => n \in ShownLines(q, action.path)
      BY <3>2, <3>8
    <3> HIDE DEF q, o, b
    <3> QED BY <1>1, <1>3, <1>6, <2>1, <2>8, <3>7, <3>8, <3>9, <3>10, <3>11, DoneAction DEF q, o, action
  <2> QED BY <1>2, <2>9, <2>10, <2>11
<1>8. c.pc # "answered"  BY <1>1, <1>6
<1> QED BY <1>3, <1>6, <1>7, <1>8 DEF PlanInv, c, BatchRuns, Promising, InProgress, ToDo

LEMMA PlanAnswers ==
    ASSUME PlanInv, AnswerBatch
    PROVE  PlanInv'
<1> DEFINE results == [i \in DOMAIN planBatch.calls |-> IF i = 1 THEN "observation" ELSE "coalesced"]
<1>1. /\ planBatch.pc = "execute" /\ planBatch.at > Len(planBatch.plan.actions)
      /\ planBatch' = [planBatch EXCEPT !.pc = "answered", !.results = results]
  BY DEF AnswerBatch
<1> HIDE DEF results
<1>2. /\ DOMAIN planBatch' = DOMAIN NoBatch /\ planBatch'.pc = "answered"
      /\ planBatch'.calls = planBatch.calls /\ planBatch'.context = planBatch.context
      /\ planBatch'.plan = planBatch.plan /\ planBatch'.at = planBatch.at
      /\ planBatch'.observation = planBatch.observation
  BY <1>1 DEF PlanInv, NoBatch
<1>3. BatchRuns(planBatch)  BY <1>1 DEF BatchRuns
<1> QED BY <1>1, <1>2, <1>3 DEF PlanInv, Promising, InProgress, ToDo, BatchRuns

\* A batch that its calls answered has no observation.
LEMMA PlanGivesUp ==
    ASSUME PlanInv, ExecutionFails \/ RunBatch \/ NextBatch
    PROVE  PlanInv'
<1>1. CASE ExecutionFails
  <2>1. planBatch' = [planBatch EXCEPT !.pc = "scheduler", !.observation = EmptyObservation]
    BY <1>1 DEF ExecutionFails
  <2>2. DOMAIN planBatch' = DOMAIN NoBatch /\ planBatch'.pc = "scheduler"
    BY <2>1 DEF PlanInv, NoBatch
  <2> QED BY <2>2 DEF PlanInv, BatchRuns
<1>2. CASE RunBatch
  <2> DEFINE results == [i \in DOMAIN planBatch.calls |-> "own"]
  <2>1. planBatch' = [planBatch EXCEPT !.pc = "answered", !.results = results]
    BY <1>2 DEF RunBatch
  <2>2. "observation" \notin ToSet(results)  BY DEF ToSet
  <2> HIDE DEF results
  <2>3. DOMAIN planBatch' = DOMAIN NoBatch /\ planBatch'.pc = "answered" /\ planBatch'.results = results
    BY <2>1 DEF PlanInv, NoBatch
  <2>4. ~BatchRuns(planBatch')  BY <2>2, <2>3 DEF BatchRuns
  <2> QED BY <2>3, <2>4 DEF PlanInv, BatchRuns
<1>3. CASE NextBatch
  <2>1. planBatch' = NoBatch  BY <1>3 DEF NextBatch
  <2>2. planBatch'.pc = "idle"  BY <2>1 DEF NoBatch
  <2> QED BY <2>1, <2>2 DEF PlanInv, BatchRuns
<1> QED BY <1>1, <1>2, <1>3

\* While a batch of reads is executed, and when it is answered, each line it asked for is shown
\* or in an action that is left, for which bytes and files are left too (plan_read_targets,
\* coalesce, RepositoryPlanner::execute).
THEOREM PlanInvHolds == PlanSpec => []PlanInv
<1>1. RepoInit /\ PlanInit => PlanInv
  <2> SUFFICES ASSUME PlanInit PROVE PlanInv
    OBVIOUS
  <2>1. planBatch = NoBatch /\ planBatch.pc = "idle"  BY DEF PlanInit, NoBatch
  <2> QED BY <2>1 DEF PlanInv, BatchRuns
<1>2. PlanInv /\ [PlanNext \/ (RepoNext /\ UNCHANGED planBatch)]_planVars => PlanInv'
  <2> SUFFICES ASSUME PlanInv, [PlanNext \/ (RepoNext /\ UNCHANGED planBatch)]_planVars PROVE PlanInv'
    OBVIOUS
  <2>1. CASE UNCHANGED planBatch
    BY <2>1 DEF PlanInv, BatchRuns, Promising, InProgress, ToDo
  <2>2. CASE BeginBatch
    BY <2>2, PlanBegins
  <2>3. CASE ExecuteAction
    BY <2>3, PlanExecutes
  <2>4. CASE AnswerBatch
    BY <2>4, PlanAnswers
  <2>5. CASE ExecutionFails \/ RunBatch \/ NextBatch
    BY <2>5, PlanGivesUp
  <2> QED BY <2>1, <2>2, <2>3, <2>4, <2>5 DEF PlanNext, planVars
<1> QED BY <1>1, <1>2, PTL DEF PlanSpec

(***************************************************************************)
(* The verification plan.  No narrow command is a workspace-wide one, so   *)
(* that the workspace check is added, behind the place kept for it.        *)
(***************************************************************************)

BroadArgs == {<<"test", "--workspace">>, <<"check", "--workspace">>}
IsNarrow(c) == ~(c.program = "cargo" /\ c.args \in BroadArgs)
AreNarrow(commands) == IsList(commands) /\ \A i \in DOMAIN commands : IsNarrow(commands[i])

LEMMA StaysNarrow ==
    ASSUME NEW commands, AreNarrow(commands), NEW c, IsNarrow(c)
    PROVE  AreNarrow(PushUnique(commands, c))
<1>1. IsList(commands)  BY DEF AreNarrow
<1>2. IsList(Append(commands, c))  BY <1>1, ListAppend
<1>3. \A i \in DOMAIN Append(commands, c) :
         \/ i \in DOMAIN commands /\ Append(commands, c)[i] = commands[i]
         \/ Append(commands, c)[i] = c
  BY <1>1, AppendMembers
<1>4. AreNarrow(Append(commands, c))  BY <1>2, <1>3 DEF AreNarrow
<1> QED BY <1>4 DEF PushUnique

LEMMA NarrowCommand ==
    ASSUME NEW program, NEW args, NEW cwd, NEW scope,
           program # "cargo" \/ args \notin BroadArgs
    PROVE  IsNarrow(Command(program, args, cwd, scope))
BY DEF IsNarrow, Command

LEMMA ShortArgs ==
    /\ \A x, y, z : <<x, y, z>> \notin BroadArgs
    /\ \A x : <<x>> \notin BroadArgs
<1>1. \A x, y, z : Len(<<x, y, z>>) = 3  OBVIOUS
<1>2. \A x : Len(<<x>>) = 1  OBVIOUS
<1>3. \A s \in BroadArgs : Len(s) = 2  BY DEF BroadArgs
<1> QED BY <1>1, <1>2, <1>3

LEMMA RustIsNarrow ==
    ASSUME NEW out, AreNarrow(out), NEW map, NEW root, NEW p
    PROVE  AreNarrow(PlanRust(out, map, root, p))
<1> DEFINE owners == {i \in DOMAIN map.packages : map.packages[i].root = root /\ map.packages[i].name # <<>>}
           owner == IF owners = {} THEN <<>> ELSE map.packages[CHOOSE i \in owners : \A j \in owners : i <= j].name
           test == IF IsPrefix(Append(root, "tests"), RepoFiles[p].dir)
                   THEN Command("cargo", <<"test", "--test", RepoFiles[p].stem>>, root, owner)
                   ELSE IF owner # <<>> THEN Command("cargo", <<"test", "-p", owner>>, <<>>, owner)
                   ELSE Command("cargo", <<"test">>, root, root)
           check == IF owner # <<>> THEN Command("cargo", <<"check", "-p", owner>>, <<>>, owner)
                    ELSE Command("cargo", <<"check">>, root, root)
<1>1. PlanRust(out, map, root, p) = PushUnique(PushUnique(out, test), check)  BY DEF PlanRust
<1> HIDE DEF owner
<1>2. IsNarrow(Command("cargo", <<"test", "--test", RepoFiles[p].stem>>, root, owner))
  BY NarrowCommand, ShortArgs
<1>3. IsNarrow(Command("cargo", <<"test", "-p", owner>>, <<>>, owner))
  BY NarrowCommand, ShortArgs
<1>4. IsNarrow(Command("cargo", <<"test">>, root, root))  BY NarrowCommand, ShortArgs
<1>5. IsNarrow(Command("cargo", <<"check", "-p", owner>>, <<>>, owner))
  BY NarrowCommand, ShortArgs
<1>6. IsNarrow(Command("cargo", <<"check">>, root, root))  BY NarrowCommand, ShortArgs
<1>7. IsNarrow(test)  BY <1>2, <1>3, <1>4
<1>8. IsNarrow(check)  BY <1>5, <1>6
<1> HIDE DEF test, check
<1>9. AreNarrow(PushUnique(out, test))  BY <1>7, StaysNarrow
<1> QED BY <1>1, <1>8, <1>9, StaysNarrow

LEMMA NodeIsNarrow ==
    ASSUME NEW out, AreNarrow(out), NEW root, NEW p
    PROVE  AreNarrow(PlanNode(out, root, p))
<1> DEFINE args == IF IsTestPath(p) THEN <<"test", "--", p>> ELSE <<"test">>
<1>1. PlanNode(out, root, p) = PushUnique(out, Command("npm", args, root, root))
  BY DEF PlanNode
<1> HIDE DEF args
<1>2. "npm" # "cargo"  OBVIOUS
<1>3. IsNarrow(Command("npm", args, root, root))  BY <1>2, NarrowCommand
<1> QED BY <1>1, <1>3, StaysNarrow

LEMMA PythonIsNarrow ==
    ASSUME NEW out, AreNarrow(out), NEW root, NEW p
    PROVE  AreNarrow(PlanPython(out, root, p))
<1> DEFINE args == IF IsTestPath(p) THEN <<"-m", "pytest", p>> ELSE <<"-m", "pytest">>
           c == Command("python", args, root, root)
           d == Command("python", <<"-m", "compileall">>, root, root)
<1>1. PlanPython(out, root, p) = PushUnique(PushUnique(out, c), d)  BY DEF PlanPython
<1> HIDE DEF args
<1>2. "python" # "cargo"  OBVIOUS
<1>3. IsNarrow(c) /\ IsNarrow(d)  BY <1>2, NarrowCommand
<1> HIDE DEF c, d
<1>4. AreNarrow(PushUnique(out, c))  BY <1>3, StaysNarrow
<1> QED BY <1>1, <1>3, <1>4, StaysNarrow

\* The plan so far: the workspace check is wanted only where there is a workspace.
Narrowed(map, plan) == AreNarrow(plan.commands) /\ (plan.broader => Workspaces(map) # {})

LEMMA ModifiedIsNarrow ==
    ASSUME NEW map, NEW plan, Narrowed(map, plan), NEW p
    PROVE  Narrowed(map, PlanModified(map, plan, p))
<1> DEFINE nearest == NearestManifests(map, p)
           manifest == map.manifests[CHOOSE i \in nearest : TRUE]
           root == RepoFiles[manifest.path].dir
           commands == CASE manifest.kind = "cargo" -> PlanRust(plan.commands, map, root, p)
                         [] manifest.kind = "node" -> PlanNode(plan.commands, root, p)
                         [] manifest.kind = "python" -> PlanPython(plan.commands, root, p)
                         [] OTHER -> plan.commands
           wider == [broader |-> plan.broader \/ RequiresWorkspaceScope(map, manifest, p), commands |-> commands]
<1>1. PlanModified(map, plan, p) = plan \/ PlanModified(map, plan, p) = wider
  BY DEF PlanModified
<1> HIDE DEF manifest, root
<1>2. commands \in {PlanRust(plan.commands, map, root, p), PlanNode(plan.commands, root, p),
                    PlanPython(plan.commands, root, p), plan.commands}
  <2>1. CASE manifest.kind = "cargo"  BY <2>1
  <2>2. CASE manifest.kind = "node"  BY <2>2
  <2>3. CASE manifest.kind = "python"  BY <2>3
  <2>4. CASE manifest.kind \notin {"cargo", "node", "python"}  BY <2>4
  <2> QED BY <2>1, <2>2, <2>3, <2>4
<1>3. AreNarrow(plan.commands)  BY DEF Narrowed
<1> HIDE DEF commands
<1>4. AreNarrow(commands)  BY <1>2, <1>3, RustIsNarrow, NodeIsNarrow, PythonIsNarrow
<1>5. RequiresWorkspaceScope(map, manifest, p) => Workspaces(map) # {}
  BY DEF RequiresWorkspaceScope
<1>6. wider.commands = commands /\ wider.broader = (plan.broader \/ RequiresWorkspaceScope(map, manifest, p))
  OBVIOUS
<1> HIDE DEF wider
<1>7. Narrowed(map, wider)  BY <1>4, <1>5, <1>6 DEF Narrowed
<1> QED BY <1>1, <1>7

LEMMA PlanIsNarrow ==
    ASSUME NEW map, NEW modified, Len(modified) \in Nat
    PROVE  Narrowed(map, NarrowPlan(map, modified))
<1> DEFINE N == Len(modified)
           first == [broader |-> FALSE, commands |-> <<>>]
<1>1. PICK after : NarrowedInOrder(after, map, modified)  BY ModifiedInOrder
<1>2. /\ after[0] = first /\ \A i \in 1 .. N : after[i] = PlanModified(map, after[i - 1], modified[i])
      /\ NarrowPlan(map, modified) = after[N]
  BY <1>1 DEF NarrowedInOrder
<1>3. N \in Nat  OBVIOUS
<1>4. Narrowed(map, first)
  <2>1. DOMAIN <<>> = {}  OBVIOUS
  <2> QED BY <2>1, EmptyList DEF Narrowed, AreNarrow
<1> HIDE DEF N, first
<1> DEFINE T == {k \in Nat : k <= N => Narrowed(map, after[k])}
<1>5. 0 \in T  BY <1>2, <1>4
<1>6. ASSUME NEW k \in Nat, k \in T PROVE k + 1 \in T
  <2> SUFFICES ASSUME k + 1 <= N PROVE Narrowed(map, after[k + 1])
    OBVIOUS
  <2>1. k <= N /\ k + 1 \in 1 .. N /\ (k + 1) - 1 = k  BY <1>3
  <2>2. Narrowed(map, after[k])  BY <1>6, <2>1
  <2>3. after[k + 1] = PlanModified(map, after[k], modified[k + 1])  BY <1>2, <2>1
  <2> QED BY <2>2, <2>3, ModifiedIsNarrow
<1>7. N \in T
  <2> HIDE DEF T
  <2> QED BY <1>3, <1>5, <1>6, Induction
<1>8. N <= N  BY <1>3
<1> QED BY <1>2, <1>7, <1>8

LEMMA BroadIsPlanned ==
    ASSUME NEW map, NEW modified \in ModifiedSets, PlanVerification(map, modified).broader
    PROVE  \E i \in DOMAIN PlanVerification(map, modified).commands :
              SameCommand(PlanVerification(map, modified).commands[i], BroadCommand(map, modified))
<1> DEFINE narrow == NarrowPlan(map, modified)
           diff == Command("git", <<"diff", "--check">>, <<>>, <<"diff">>)
           some == IF narrow.commands # <<>> THEN narrow.commands ELSE <<diff>>
           wanted == narrow.broader /\ Workspaces(map) # {}
           broad == BroadCommand(map, modified)
           plan == PlanVerification(map, modified)
<1>1. /\ plan.broader = narrow.broader
      /\ plan.commands = AtMost(MaxVerificationCommands, IF wanted THEN AddBroad(some, broad) ELSE some)
  BY DEF PlanVerification
<1>2. Len(modified) \in Nat  BY PlanAssumption
<1>3. Narrowed(map, narrow)  BY <1>2, PlanIsNarrow
<1>4. AreNarrow(some)
  <2>1. "git" # "cargo"  OBVIOUS
  <2>2. IsNarrow(diff)  BY <2>1, NarrowCommand
  <2> HIDE DEF diff
  <2>3. <<diff>> \in Seq({diff}) /\ DOMAIN <<diff>> = {1} /\ <<diff>>[1] = diff  OBVIOUS
  <2>4. AreNarrow(<<diff>>)  BY <2>2, <2>3 DEF AreNarrow, IsList
  <2> QED BY <1>3, <2>4 DEF Narrowed
<1>5. broad.program = "cargo" /\ broad.args \in BroadArgs
  BY DEF BroadCommand, Command, BroadArgs
<1>6. wanted  BY <1>1, <1>3 DEF Narrowed
<1> HIDE DEF some, broad, narrow, wanted
<1>7. \A c : IsNarrow(c) => ~SameCommand(c, broad)  BY <1>5 DEF IsNarrow, SameCommand
<1> DEFINE k == MaxVerificationCommands - 1
           kept == AtMost(k, some)
           full == Append(kept, broad)
<1>8. k \in Nat /\ k + 1 = MaxVerificationCommands  BY PlanAssumption
<1> HIDE DEF k
<1>9. IsList(some) /\ \A i \in DOMAIN some : IsNarrow(some[i])  BY <1>4 DEF AreNarrow
<1>10. IsList(kept) /\ Len(kept) <= k /\ \A i \in DOMAIN kept : IsNarrow(kept[i])
  BY <1>8, <1>9, AtMostList
<1>11. AddBroad(some, broad) = full  BY <1>7, <1>9, <1>10 DEF AddBroad, PushUnique, k
<1> HIDE DEF kept
<1>12. IsList(full) /\ Len(full) = Len(kept) + 1 /\ Len(kept) + 1 \in DOMAIN full /\ full[Len(kept) + 1] = broad
  BY <1>10, ListAppend, AppendMembers
<1> DEFINE x == Len(kept)
           y == Len(full)
<1>13. x \in Nat /\ x <= k /\ y = x + 1  BY <1>10, <1>12, ListFacts
<1> HIDE DEF x, y, full
<1>14. y <= MaxVerificationCommands /\ MaxVerificationCommands \in Nat  BY <1>8, <1>13
<1>15. AtMost(MaxVerificationCommands, full) = full  BY <1>12, <1>14, AtMostAll DEF y
<1>16. plan.commands = full  BY <1>1, <1>6, <1>11, <1>15
<1> HIDE DEF plan
<1> QED BY <1>12, <1>16 DEF SameCommand, plan, broad

\* A batch of reads within the limits that is answered without running it gets every line it
\* asked for, from files and from retained excerpts that were not cut, and a verification plan
\* that needs the workspace check has it (current_excerpt, read_excerpt, plan_verification).
THEOREM PlansKeepTheirs == PlanSpec => []PlansKeepTheirPurpose
<1>1. PlanInv => PlansKeepTheirPurpose
  <2> SUFFICES ASSUME PlanInv PROVE AnswersHoldTheirRanges /\ BroadCheckSurvives
    BY DEF PlansKeepTheirPurpose
  <2>1. AnswersHoldTheirRanges
    <3> SUFFICES ASSUME PlannedAnswer, Promising(planBatch), NEW t \in TargetsOf(planBatch.calls)
                 PROVE  Asked(t) \subseteq ShownLines(planBatch.observation, t.path)
      BY DEF AnswersHoldTheirRanges, Promising
    <3>1. planBatch.pc = "answered" /\ BatchRuns(planBatch)  BY DEF PlannedAnswer, BatchRuns
    <3>2. InProgress(planBatch) /\ planBatch.at > Len(planBatch.plan.actions)
      BY <3>1 DEF PlanInv
    <3>3. planBatch.at \in Nat /\ Len(planBatch.plan.actions) \in Nat
      BY <3>2, ListFacts DEF InProgress
    <3>4. planBatch.at .. Len(planBatch.plan.actions) = {}  BY <3>2, <3>3
    <3> QED BY <3>2, <3>4 DEF InProgress
  <2>2. BroadCheckSurvives  BY BroadIsPlanned DEF BroadCheckSurvives
  <2> QED BY <2>1, <2>2
<1> QED BY <1>1, PlanInvHolds, PTL
===============================================================================

-------------------------------- MODULE Lists --------------------------------
(***************************************************************************)
(* What the bounded lists of the context and of the repository map share.  *)
(* A recursive function stands for a loop over a list.                     *)
(***************************************************************************)
EXTENDS Integers, Sequences

(* the newest, or the oldest, n members of a list *)
Newest(s, n) == IF Len(s) > n THEN SubSeq(s, Len(s) - n + 1, Len(s)) ELSE s
Oldest(s, n) == IF Len(s) > n THEN SubSeq(s, 1, n) ELSE s

(* the members of seq that are in S, in their order *)
Sift(seq, S) ==
    LET kept[n \in 0 .. Len(seq)] ==
            IF n = 0 THEN <<>>
            ELSE IF seq[n] \in S THEN Append(kept[n - 1], seq[n]) ELSE kept[n - 1]
    IN  kept[Len(seq)]

(* each member of seq where it is first *)
Distinct(seq) ==
    LET first == Sift([i \in DOMAIN seq |-> i], {i \in DOMAIN seq : \A j \in 1 .. (i - 1) : seq[j] # seq[i]})
    IN  [k \in DOMAIN first |-> seq[first[k]]]
==============================================================================

------------------------------ MODULE KeyLocks ------------------------------
(***************************************************************************)
(* What write and patch expect of their mutation locks: a key has at most  *)
(* one holder at a time.  How the holders find, queue for and forget the   *)
(* lock of a key is MutationLocks.                                         *)
(***************************************************************************)
CONSTANTS Workers, Keys

VARIABLE held  \* held[w]: the keys worker w holds

Holders(k) == {w \in Workers : k \in held[w]}

Init == held = [w \in Workers |-> {}]

Take(w, k) == Holders(k) = {} /\ held' = [held EXCEPT ![w] = @ \cup {k}]

Drop(w, K) == K \subseteq held[w] /\ held' = [held EXCEPT ![w] = @ \ K]

Next == \E w \in Workers : \/ \E k \in Keys : Take(w, k)
                           \/ \E K \in SUBSET Keys : Drop(w, K)

Spec == Init /\ [][Next]_held
=============================================================================

----------------------------- MODULE SessionLog -----------------------------
(***************************************************************************)
(* What a local session promises to somebody who resumes it, without the   *)
(* file format: the turn a resume would bring back, the newest turn whose  *)
(* persistence was acknowledged, and whether the session can still be      *)
(* resumed at all.  SessionJournal implements it.                          *)
(***************************************************************************)
EXTENDS Naturals

VARIABLES
    promised,   \* the turns whose append returned Ok
    recovers,   \* the turn a resume would restore (0: none)
    readable    \* whether a resume can read the session

logVars == <<promised, recovers, readable>>

LogInit == promised = {} /\ recovers = 0 /\ readable = TRUE

(* A newer turn reaches the store; its append may not have returned yet.   *)
Take ==
    /\ readable
    /\ recovers' \in Nat
    /\ recovers' > recovers
    /\ UNCHANGED <<promised, readable>>

(* A turn whose append never returned Ok is lost again.                     *)
Forget ==
    /\ readable
    /\ recovers' \in Nat
    /\ recovers' < recovers
    /\ \A t \in promised : t <= recovers'
    /\ UNCHANGED <<promised, readable>>

(* The append of the recovered turn returns Ok.                            *)
Promise ==
    /\ readable
    /\ promised' = promised \cup {recovers}
    /\ UNCHANGED <<recovers, readable>>

(* The store becomes unreadable.                                           *)
Lose ==
    /\ readable
    /\ readable' = FALSE
    /\ recovers' = 0
    /\ UNCHANGED promised

(* A store that had one record too many can be read again when that record *)
(* is damaged: what was promised is still there.                           *)
Regain ==
    /\ ~readable
    /\ readable' = TRUE
    /\ recovers' \in Nat
    /\ \A t \in promised : t <= recovers'
    /\ UNCHANGED promised

LogNext == Lose \/ Regain \/ Promise \/ Take \/ Forget

LogSpec == LogInit /\ [][LogNext]_logVars

=============================================================================

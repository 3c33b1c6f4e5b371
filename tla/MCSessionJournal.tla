-------------------------- MODULE MCSessionJournal --------------------------
(* SessionJournal with limits small enough that a few turns force            *)
(* compaction.                                                              *)
EXTENDS SessionJournal

SmallTurnSizes == {2, 3}
=============================================================================

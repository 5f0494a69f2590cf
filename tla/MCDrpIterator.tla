--------------------------- MODULE MCDrpIterator ---------------------------
(***************************************************************************)
(* All patterns of one to MaxLength samples over MCRates.  Three rates     *)
(* tell the neighbours of every sample apart; the lengths 1, 2 and 3 are   *)
(* the ones at which the turns of the iterator fall together.              *)
(***************************************************************************)
EXTENDS DrpIterator

MaxLength == 5

MCRates == 1..3

MCPatterns == UNION {[1..n -> MCRates] : n \in 1..MaxLength}

=============================================================================

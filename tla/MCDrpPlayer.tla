----------------------------- MODULE MCDrpPlayer -----------------------------
(***************************************************************************)
(* Small sessions for DrpPlayer: two samples are enough for a tick before  *)
(* the last one, and measuring or not decides whether the WaitGroup counts *)
(* to one or to two.                                                       *)
(***************************************************************************)
EXTENDS DrpPlayer

Looping ==
    {[looping |-> TRUE, nomeasure |-> n, samples |-> 1] : n \in BOOLEAN}

OneShot ==
    {[looping |-> FALSE, nomeasure |-> n, samples |-> 2] : n \in BOOLEAN}

AllSessions == Looping \cup OneShot

=============================================================================

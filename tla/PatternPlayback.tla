--------------------------- MODULE PatternPlayback ---------------------------
(***************************************************************************)
(* What playing a data rate pattern promises, without the bookkeeping of   *)
(* the iterator in pkg/drp/pattern_iterator.go.  A playback walks over the *)
(* pattern forwards and, in looping mode, forwards and backwards for ever. *)
(* At either end it turns round and plays the end sample a second time.    *)
(* One round trip over a pattern of N samples has 2N beats: beats 0..N-1   *)
(* play samples 1..N, beats N..2N-1 play samples N..1.                     *)
(*                                                                         *)
(* pattern : the loaded pattern, a nonempty sequence of data rates         *)
(* looping : does the playback turn round at an end                        *)
(* beat    : the beat the next call is due to play                         *)
(* rate    : the data rate played last (before the first: the first one)   *)
(* answer  : what the last call answered                                   *)
(***************************************************************************)
EXTENDS Naturals, Sequences

CONSTANTS Rates,      \* the data rates a pattern is made of
          Patterns    \* the patterns that may be loaded

VARIABLES pattern, looping, beat, rate, answer

vars == <<pattern, looping, beat, rate, answer>>

-----------------------------------------------------------------------------

\* The number of beats of one round trip.
Period == 2 * Len(pattern)

\* The sample that beat b plays.
Sample(b) == IF b < Len(pattern) THEN b + 1 ELSE Period - b

\* The way forwards is played: only looping mode goes on from here.
AtEnd == beat = Len(pattern)

-----------------------------------------------------------------------------

Init ==
    /\ pattern \in Patterns
    /\ looping = FALSE
    /\ beat = 0
    /\ rate = pattern[1]
    /\ answer = "none"

Play ==
    /\ looping \/ ~AtEnd
    /\ rate' = pattern[Sample(beat)]
    /\ beat' = IF beat + 1 = Period THEN 0 ELSE beat + 1
    /\ answer' = "rate"
    /\ UNCHANGED <<pattern, looping>>

Stop ==
    /\ ~looping
    /\ AtEnd
    /\ answer' = "stop"
    /\ UNCHANGED <<pattern, looping, beat, rate>>

\* The mode is chosen before the first call.
SetLooping(endless) ==
    /\ beat = 0 /\ answer = "none"
    /\ looping' = endless
    /\ UNCHANGED <<pattern, beat, rate, answer>>

\* Abandon the playback: it stands at the end of the pattern, not looping.
SetDone ==
    /\ looping' = FALSE
    /\ beat' = Len(pattern)
    /\ UNCHANGED <<pattern, rate, answer>>

Next ==
    \/ Play
    \/ Stop
    \/ \E endless \in BOOLEAN : SetLooping(endless)
    \/ SetDone

Spec == Init /\ [][Next]_vars

=============================================================================

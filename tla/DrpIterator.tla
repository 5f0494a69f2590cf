---------------------------- MODULE DrpIterator ----------------------------
(***************************************************************************)
(* The data rate pattern iterator, pkg/drp/pattern_iterator.go: a struct   *)
(* {looping, operator, data, position, value} with the operations Next,    *)
(* Value, SetLooping and SetDone.  LaunchChangeLoop (tc.go) calls Next on  *)
(* every tick, DrpPlayer.Start reads Value before the first tick, and      *)
(* SetLooping is called when the pattern has been parsed.                  *)
(*                                                                         *)
(* pattern holds *data with Go's index i at i + 1.  A float64 rate is an   *)
(* element of Rates: the iterator copies rates and never computes them.    *)
(* answer records how the last call of Next returned.                      *)
(***************************************************************************)
EXTENDS Integers, Sequences

CONSTANTS Rates,      \* the data rates a pattern is made of
          Patterns    \* the patterns that may be loaded

(***************************************************************************)
(* convertDRPdata refuses a file without rows: a pattern has a sample.     *)
(***************************************************************************)
ASSUME PatternsAssumption == Patterns \subseteq Seq(Rates) \ {<<>>}

VARIABLES pattern, looping, operator, position, value, answer

vars == <<pattern, looping, operator, position, value, answer>>

-----------------------------------------------------------------------------

max_i == Len(pattern)

Least(a, b) == IF a < b THEN a ELSE b
Magnitude(n) == IF n < 0 THEN -n ELSE n

\* NewDataRatePatternIterator followed by updateAndReset, as
\* DataRatePattern.Iterator() calls them for a loaded pattern.
Init ==
    /\ pattern \in Patterns
    /\ looping = FALSE
    /\ operator = 1
    /\ position = -1
    /\ value = pattern[1]
    /\ answer = "none"

\* case s.position == -1: the first sample is already in value.
NextFirst ==
    /\ position = -1
    /\ position' = position + operator * 2
    /\ answer' = "rate"
    /\ UNCHANGED <<pattern, looping, operator, value>>

\* The condition of the second case of the switch.
EndOfCycle == position # -1 /\ (position >= max_i \/ position <= 0)

\* The end of a cycle, not looping: IterableStopError.
NextStop ==
    /\ EndOfCycle
    /\ ~looping
    /\ answer' = "stop"
    /\ UNCHANGED <<pattern, looping, operator, position, value>>

\* Slip (PeekIsFirst): the turn at the near end forgets the value.
NextTurnKeepsValue ==
    /\ EndOfCycle
    /\ looping
    /\ operator' = -operator
    /\ position' = IF position >= max_i THEN position + operator' * 2 ELSE -1
    /\ answer' = "rate"
    /\ UNCHANGED <<pattern, looping, value>>

\* The end of a cycle, looping: reverse the direction.  value is kept at
\* the far end and set to the first sample at the near one.
NextTurn ==
    /\ EndOfCycle
    /\ looping
    /\ operator' = -operator
    /\ IF position >= max_i
       THEN position' = position + operator' * 2 /\ UNCHANGED value
       ELSE position' = -1 /\ value' = pattern[1]
    /\ answer' = "rate"
    /\ UNCHANGED <<pattern, looping>>

\* Slip (PlaysPattern): the index is taken from the new position.
NextStepAhead ==
    /\ position # -1 /\ ~EndOfCycle
    /\ position' = position + operator
    /\ value' = pattern[Least(max_i - 1, Magnitude(position')) + 1]
    /\ answer' = "rate"
    /\ UNCHANGED <<pattern, looping, operator>>

\* default: one step in the current direction.
NextStep ==
    /\ position # -1 /\ ~EndOfCycle
    /\ position' = position + operator
    /\ LET index == Least(max_i - 1, Magnitude(position' - operator))
       IN value' = pattern[index + 1]
    /\ answer' = "rate"
    /\ UNCHANGED <<pattern, looping, operator>>

Call == NextFirst \/ NextStop \/ NextTurn \/ NextStep

\* drplay's ArgParse and LoadDB_benchmarkFromJson set the mode of a pattern
\* they load; nobody changes it once the pattern is being played.
SetLooping(endless) ==
    /\ position = -1 /\ answer = "none"
    /\ looping' = endless
    /\ UNCHANGED <<pattern, operator, position, value, answer>>

\* Slip (TypeOK): SetDone keeps the direction.
SetDoneKeepsDirection ==
    /\ looping' = FALSE
    /\ position' = max_i
    /\ UNCHANGED <<pattern, operator, value, answer>>

SetDone ==
    /\ looping' = FALSE
    /\ operator' = 1
    /\ position' = max_i
    /\ UNCHANGED <<pattern, value, answer>>

Next ==
    \/ Call
    \/ \E endless \in BOOLEAN : SetLooping(endless)
    \/ SetDone

Spec == Init /\ [][Next]_vars

-----------------------------------------------------------------------------

(***************************************************************************)
(* The types, and where position can stand in each direction: going        *)
(* forwards it is -1 or one past the sample played last, going backwards   *)
(* it is one before it, and a pattern of one sample bounces between -1 and *)
(* -3.  No call leaves the iterator where the index of the default case    *)
(* would miss the pattern, whatever its length.                            *)
(***************************************************************************)
TypeOK ==
    /\ pattern \in Patterns
    /\ looping \in BOOLEAN
    /\ operator \in {1, -1}
    /\ position \in Int
    /\ value \in Rates
    /\ answer \in {"none", "rate", "stop"}
    /\ operator = 1 => position = -1 \/ position \in 1..max_i
    /\ operator = -1 => IF max_i = 1 THEN position \in {-1, -3}
                                     ELSE position \in 0..(max_i - 2)

(***************************************************************************)
(* Before the first sample is (re)played, value already is that sample:    *)
(* the value DrpPlayer.Start peeks at to size the qdisc and to warm it up, *)
(* and the one NextFirst returns without touching it.                      *)
(***************************************************************************)
PeekIsFirst == position = -1 => value = pattern[1]

(***************************************************************************)
(* The beat of the round trip (PatternPlayback) the iterator stands at.     *)
(***************************************************************************)
Beat ==
    IF operator = 1
    THEN IF position = -1 THEN 0 ELSE position
    ELSE IF max_i = 1
         THEN IF position = -1 THEN 0 ELSE 1
         ELSE 2 * max_i - 1 - position

(***************************************************************************)
(* The iterator plays the pattern: every call of Next returns the sample   *)
(* that is due, forwards and backwards with doubled ends, and reports the  *)
(* end exactly when a playback that does not loop has run off an end.      *)
(***************************************************************************)
Playback == INSTANCE PatternPlayback WITH beat <- Beat, rate <- value

PlaysPattern == Playback!Spec

=============================================================================

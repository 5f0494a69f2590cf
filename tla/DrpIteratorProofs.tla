------------------------- MODULE DrpIteratorProofs -------------------------
(***************************************************************************)
(* Proofs about DrpIterator for every set of rates and every set of        *)
(* nonempty patterns: the iterator never leaves its range of positions,    *)
(* and it plays the pattern as PatternPlayback says.                       *)
(***************************************************************************)
EXTENDS DrpIterator, TLAPS

\* A loaded pattern has at least one sample and its samples are rates.
LEMMA PatternFacts ==
    ASSUME NEW p \in Patterns
    PROVE  /\ p \in Seq(Rates)
           /\ Len(p) \in Nat
           /\ Len(p) >= 1
           /\ \A i \in 1..Len(p) : p[i] \in Rates
<1>1. p \in Seq(Rates) /\ p # <<>>
  BY PatternsAssumption
<1>2. Len(p) \in Nat /\ \A i \in 1..Len(p) : p[i] \in Rates
  BY <1>1
<1>3. Len(p) # 0
  BY <1>1
<1>4. QED
  BY <1>1, <1>2, <1>3

(***************************************************************************)
(* The default case of the switch reads the sample at the position it      *)
(* leaves: the index never goes below zero nor beyond the pattern.         *)
(***************************************************************************)
LEMMA StepIndex ==
    ASSUME TypeOK, position # -1, ~EndOfCycle
    PROVE  /\ position \in 1..(max_i - 1)
           /\ Least(max_i - 1, Magnitude((position + operator) - operator)) = position
<1>1. Len(pattern) \in Nat /\ Len(pattern) >= 1
  BY PatternFacts DEF TypeOK
<1>2. position \in Int /\ operator \in {1, -1}
  BY DEF TypeOK
<1>3. position > 0 /\ position < max_i
  BY <1>1, <1>2 DEF EndOfCycle, max_i
<1>4. QED
  BY <1>1, <1>2, <1>3 DEF Least, Magnitude, max_i

(***************************************************************************)
(* TypeOK is inductive: no sequence of calls takes the iterator to a       *)
(* position from which the next call would index outside the pattern.      *)
(***************************************************************************)
THEOREM TypeCorrect == Spec => []TypeOK
<1>1. Init => TypeOK
  <2> SUFFICES ASSUME Init PROVE TypeOK
    OBVIOUS
  <2>1. pattern[1] \in Rates
    BY PatternFacts DEF Init
  <2>2. QED
    <3>1. operator = 1 /\ position = -1 /\ position \in Int /\ 1 # -1
      BY DEF Init
    <3>2. QED
      BY <2>1, <3>1 DEF Init, TypeOK
<1>2. TypeOK /\ [Next]_vars => TypeOK'
  <2> SUFFICES ASSUME TypeOK, [Next]_vars PROVE TypeOK'
    OBVIOUS
  <2>1. Len(pattern) \in Nat /\ Len(pattern) >= 1
        /\ \A i \in 1..Len(pattern) : pattern[i] \in Rates
    BY PatternFacts DEF TypeOK
  <2>2. CASE NextFirst
    BY <2>1, <2>2 DEF NextFirst, TypeOK, max_i
  <2>3. CASE NextStop
    BY <2>3 DEF NextStop, TypeOK, max_i
  <2>4. CASE NextTurn
    <3>1. CASE position >= max_i
      BY <2>1, <2>4, <3>1 DEF NextTurn, TypeOK, max_i
    <3>2. CASE ~(position >= max_i)
      BY <2>1, <2>4, <3>2 DEF NextTurn, EndOfCycle, TypeOK, max_i
    <3>3. QED
      BY <3>1, <3>2
  <2>5. CASE NextStep
    <3>1. position \in 1..(max_i - 1)
      BY <2>5, StepIndex DEF NextStep
    <3>2. value' = pattern[position + 1]
      BY <2>5, StepIndex DEF NextStep
    <3>3. value' \in Rates
      BY <2>1, <3>1, <3>2 DEF max_i
    <3>4. position' = position + operator
      BY <2>5 DEF NextStep
    <3>5. /\ operator = 1 => position' \in 1..max_i
          /\ operator = -1 => max_i # 1 /\ position' \in 0..(max_i - 2)
      BY <2>1, <3>1, <3>4 DEF TypeOK, max_i
    <3>6. QED
      BY <2>1, <2>5, <3>3, <3>4, <3>5 DEF NextStep, TypeOK, max_i
  <2>6. ASSUME NEW endless \in BOOLEAN, SetLooping(endless)
        PROVE  TypeOK'
    BY <2>6 DEF SetLooping, TypeOK, max_i
  <2>7. CASE SetDone
    <3>1. operator' = 1 /\ operator' # -1 /\ position' \in 1..max_i' /\ position' \in Int
      BY <2>1, <2>7 DEF SetDone, max_i
    <3>2. QED
      BY <2>7, <3>1 DEF SetDone, TypeOK
  <2>8. CASE UNCHANGED vars
    BY <2>8 DEF vars, TypeOK, max_i
  <2>9. QED
    BY <2>2, <2>3, <2>4, <2>5, <2>6, <2>7, <2>8 DEF Next, Call
<1>3. QED
  BY <1>1, <1>2, PTL DEF Spec

(***************************************************************************)
(* What value is worth at the turns, for which TypeOK says too little: at  *)
(* position -1 it is the first sample, and a playback that can go on past  *)
(* the far end holds the last one.                                         *)
(***************************************************************************)
TurnOK ==
    /\ PeekIsFirst
    /\ looping /\ operator = 1 /\ position = max_i => value = pattern[max_i]

\* TurnOK is inductive relative to TypeOK.
LEMMA TurnCorrect == Spec => []TurnOK
<1>1. Init => TurnOK
  BY DEF Init, TurnOK, PeekIsFirst
<1>2. TypeOK /\ TypeOK' /\ TurnOK /\ [Next]_vars => TurnOK'
  <2> SUFFICES ASSUME TypeOK, TypeOK', TurnOK, [Next]_vars PROVE TurnOK'
    OBVIOUS
  <2>1. Len(pattern) \in Nat /\ Len(pattern) >= 1
    BY PatternFacts DEF TypeOK
  <2>2. CASE NextFirst
    BY <2>1, <2>2 DEF NextFirst, TypeOK, TurnOK, PeekIsFirst, max_i
  <2>3. CASE NextStop
    BY <2>3 DEF NextStop, TurnOK, PeekIsFirst, max_i
  <2>4. CASE NextTurn
    <3>1. CASE position >= max_i
      <4>1. operator = 1 /\ position = max_i
        BY <2>1, <3>1 DEF TypeOK, max_i
      <4>2. operator' = -1 /\ position' = max_i - 2 /\ value' = value
        BY <2>1, <2>4, <4>1 DEF NextTurn, max_i
      <4>3. position' = -1 => value' = pattern'[1]
        BY <2>1, <2>4, <4>1, <4>2 DEF NextTurn, TurnOK, max_i
      <4>4. QED
        BY <2>4, <4>2, <4>3 DEF NextTurn, TurnOK, PeekIsFirst
    <3>2. CASE ~(position >= max_i)
      BY <2>1, <2>4, <3>2 DEF NextTurn, TurnOK, PeekIsFirst, TypeOK, max_i
    <3>3. QED
      BY <3>1, <3>2
  <2>5. CASE NextStep
    <3>1. position \in 1..(max_i - 1) /\ value' = pattern[position + 1]
      BY <2>5, StepIndex DEF NextStep
    <3>2. QED
      BY <2>1, <2>5, <3>1 DEF NextStep, TurnOK, PeekIsFirst, TypeOK, max_i
  <2>6. ASSUME NEW endless \in BOOLEAN, SetLooping(endless)
        PROVE  TurnOK'
    BY <2>1, <2>6 DEF SetLooping, TurnOK, PeekIsFirst, max_i
  <2>7. CASE SetDone
    BY <2>1, <2>7 DEF SetDone, TurnOK, PeekIsFirst, max_i
  <2>8. CASE UNCHANGED vars
    BY <2>8 DEF vars, TurnOK, PeekIsFirst, max_i
  <2>9. QED
    BY <2>2, <2>3, <2>4, <2>5, <2>6, <2>7, <2>8 DEF Next, Call
<1>3. QED
  BY <1>1, <1>2, TypeCorrect, PTL DEF Spec

(***************************************************************************)
(* The value that DrpPlayer.Start peeks at before the playback begins, and *)
(* whenever a loop comes round, is the first sample of the pattern.        *)
(***************************************************************************)
THEOREM PeekCorrect == Spec => []PeekIsFirst
<1>1. TurnOK => PeekIsFirst
  BY DEF TurnOK
<1>2. QED
  BY <1>1, TurnCorrect, PTL

-----------------------------------------------------------------------------

\* A one-shot playback never goes backwards, so its end is the far end; nor
\* has any playback turned round before its first call.
Forwards == ~looping \/ answer = "none" => operator = 1

\* Forwards is inductive relative to TypeOK: only a looping playback turns.
LEMMA ForwardsCorrect == Spec => []Forwards
<1>1. Init => Forwards
  BY DEF Init, Forwards
<1>2. TypeOK /\ Forwards /\ [Next]_vars => Forwards'
  <2> SUFFICES ASSUME TypeOK, Forwards, [Next]_vars PROVE Forwards'
    OBVIOUS
  <2>1. CASE NextFirst
    BY <2>1 DEF NextFirst, Forwards
  <2>2. CASE NextStop
    BY <2>2 DEF NextStop, Forwards
  <2>3. CASE NextTurn
    BY <2>3 DEF NextTurn, Forwards
  <2>4. CASE NextStep
    BY <2>4 DEF NextStep, Forwards
  <2>5. ASSUME NEW endless \in BOOLEAN, SetLooping(endless)
        PROVE  Forwards'
    BY <2>5 DEF SetLooping, Forwards
  <2>6. CASE SetDone
    BY <2>6 DEF SetDone, Forwards
  <2>7. CASE UNCHANGED vars
    BY <2>7 DEF vars, Forwards
  <2>8. QED
    BY <2>1, <2>2, <2>3, <2>4, <2>5, <2>6, <2>7 DEF Next, Call
<1>3. QED
  BY <1>1, <1>2, TypeCorrect, PTL DEF Spec

(***************************************************************************)
(* The case NextFirst of the refinement: beat 0 plays the first sample,    *)
(* which value already holds.                                              *)
(***************************************************************************)
LEMMA FirstPlays ==
    ASSUME TypeOK, TurnOK, Forwards, NextFirst
    PROVE  Playback!Play
<1>1. Len(pattern) \in Nat /\ Len(pattern) >= 1
  BY PatternFacts DEF TypeOK
<1>2. Beat = 0 /\ value = pattern[1]
  BY <1>1 DEF NextFirst, TypeOK, TurnOK, PeekIsFirst, Beat, max_i
<1>3. Playback!Sample(Beat) = 1
  BY <1>1, <1>2 DEF Playback!Sample
<1>4. CASE operator = 1
  <2>1. position' = 1 /\ operator' = 1
    BY <1>4 DEF NextFirst
  <2>2. Beat' = 1
    BY <2>1 DEF Beat
  <2>3. QED
    BY <1>1, <1>2, <1>3, <2>2 DEF NextFirst, Playback!Play, Playback!AtEnd, Playback!Period
<1>5. CASE operator # 1
  <2>1. operator = -1 /\ max_i = 1 /\ looping
    BY <1>1, <1>5 DEF NextFirst, TypeOK, Forwards, max_i
  <2>2. Beat' = 1
    BY <1>1, <2>1 DEF NextFirst, Beat, max_i
  <2>3. QED
    BY <1>1, <1>2, <1>3, <2>1, <2>2 DEF NextFirst, Playback!Play, Playback!AtEnd, Playback!Period
<1>6. QED
  BY <1>4, <1>5

(***************************************************************************)
(* A turn at the far end plays the last sample again and goes back one.    *)
(***************************************************************************)
LEMMA FarTurnPlays ==
    ASSUME TypeOK, TurnOK, NextTurn, position >= max_i
    PROVE  Playback!Play
<1>1. Len(pattern) \in Nat /\ Len(pattern) >= 1
  BY PatternFacts DEF TypeOK
<1>2. operator = 1 /\ position = max_i /\ position # -1
  BY <1>1 DEF TypeOK, max_i
<1>3. /\ operator' = -1 /\ position' = max_i - 2
      /\ value' = pattern[max_i] /\ looping /\ pattern' = pattern
  BY <1>1, <1>2 DEF NextTurn, TurnOK, max_i
<1>4. Beat = max_i /\ Playback!Sample(Beat) = max_i
  BY <1>1, <1>2 DEF Beat, Playback!Sample, Playback!Period, max_i
<1>5. Beat' = IF Beat + 1 = 2 * Len(pattern) THEN 0 ELSE Beat + 1
  <2>1. CASE max_i = 1
    BY <1>3, <1>4, <2>1 DEF Beat, max_i
  <2>2. CASE max_i # 1
    BY <1>1, <1>3, <1>4, <2>2 DEF Beat, max_i
  <2>3. QED
    BY <2>1, <2>2
<1>6. QED
  BY <1>3, <1>4, <1>5 DEF NextTurn, Playback!Play, Playback!Period

(***************************************************************************)
(* A turn at the near end plays the first sample and completes the round   *)
(* trip.                                                                   *)
(***************************************************************************)
LEMMA NearTurnPlays ==
    ASSUME TypeOK, NextTurn, ~(position >= max_i)
    PROVE  Playback!Play
<1>1. Len(pattern) \in Nat /\ Len(pattern) >= 1
  BY PatternFacts DEF TypeOK
<1>2. operator = -1 /\ operator # 1 /\ position <= 0 /\ position # -1
  BY <1>1 DEF NextTurn, EndOfCycle, TypeOK, max_i
<1>3. Beat = 2 * Len(pattern) - 1
  <2>1. CASE max_i = 1
    BY <1>1, <1>2, <2>1 DEF Beat, max_i
  <2>2. CASE max_i # 1
    <3>1. position = 0
      BY <1>1, <1>2, <2>2 DEF TypeOK, max_i
    <3>2. QED
      BY <1>1, <1>2, <2>2, <3>1 DEF Beat, max_i
  <2>3. QED
    BY <2>1, <2>2
<1>4. Playback!Sample(Beat) = 1
  BY <1>1, <1>3 DEF Playback!Sample, Playback!Period
<1>5. operator' = 1 /\ position' = -1 /\ value' = pattern[1] /\ looping
  <2>1. operator' = -operator /\ looping
    BY DEF NextTurn
  <2>2. operator' = 1
    <3>1. operator \in Int /\ operator + 1 = 0
      BY <1>2
    <3>2. -operator = 1
      BY <3>1
    <3>3. QED
      BY <2>1, <3>2
  <2>3. position' = -1 /\ value' = pattern[1]
    BY DEF NextTurn
  <2>4. QED
    BY <2>1, <2>2, <2>3
<1>6. Beat' = 0
  BY <1>5 DEF Beat
<1>7. Beat + 1 = 2 * Len(pattern)
  BY <1>1, <1>3
<1>8. QED
  BY <1>4, <1>5, <1>6, <1>7 DEF NextTurn, Playback!Play, Playback!Period

(***************************************************************************)
(* A step inside the pattern plays the sample of its beat in either        *)
(* direction.                                                              *)
(***************************************************************************)
LEMMA StepPlays ==
    ASSUME TypeOK, Forwards, NextStep
    PROVE  Playback!Play
<1>1. Len(pattern) \in Nat /\ Len(pattern) >= 1
  BY PatternFacts DEF TypeOK
<1>2. /\ position \in 1..(max_i - 1) /\ position # -1
      /\ value' = pattern[position + 1]
      /\ position' = position + operator
      /\ pattern' = pattern /\ operator' = operator /\ looping' = looping
      /\ answer' = "rate"
  BY StepIndex DEF NextStep
<1>3. CASE operator = 1
  <2>1. Beat = position /\ Beat' = position + 1
    BY <1>1, <1>2, <1>3 DEF Beat
  <2>2. Playback!Sample(Beat) = position + 1
    BY <1>1, <1>2, <2>1 DEF Playback!Sample, max_i
  <2>3. Beat # Len(pattern) /\ Beat + 1 # 2 * Len(pattern)
    BY <1>1, <1>2, <2>1 DEF max_i
  <2>4. QED
    BY <1>2, <2>1, <2>2, <2>3 DEF Playback!Play, Playback!AtEnd, Playback!Period
<1>4. CASE operator # 1
  <2>1. operator = -1 /\ max_i # 1 /\ looping
    BY <1>1, <1>2, <1>4 DEF TypeOK, Forwards, max_i
  <2>2. position \in 1..(max_i - 2)
    BY <1>1, <1>2, <2>1 DEF TypeOK, max_i
  <2>3. Beat = 2 * max_i - 1 - position /\ Beat' = 2 * max_i - 1 - (position - 1)
    BY <1>1, <1>2, <2>1 DEF Beat, max_i
  <2>4. Playback!Sample(Beat) = position + 1
    BY <1>1, <2>2, <2>3 DEF Playback!Sample, Playback!Period, max_i
  <2>5. Beat + 1 # 2 * Len(pattern) /\ Beat' = Beat + 1
    BY <1>1, <2>2, <2>3 DEF max_i
  <2>6. QED
    BY <1>2, <2>1, <2>4, <2>5 DEF Playback!Play, Playback!Period
<1>5. QED
  BY <1>3, <1>4

(***************************************************************************)
(* The iterator implements the playback it is meant for: with any pattern, *)
(* looping or not, each call of Next returns the sample that is due, and   *)
(* IterableStopError is returned exactly at the end of a one-shot playback.*)
(***************************************************************************)
THEOREM IteratorPlaysPattern == Spec => PlaysPattern
<1>1. Init => Playback!Init
  BY DEF Init, Beat, Playback!Init
<1>2. TypeOK /\ TurnOK /\ Forwards /\ [Next]_vars => [Playback!Next]_(Playback!vars)
  <2> SUFFICES ASSUME TypeOK, TurnOK, Forwards, [Next]_vars
               PROVE  [Playback!Next]_(Playback!vars)
    OBVIOUS
  <2>1. Len(pattern) \in Nat /\ Len(pattern) >= 1
    BY PatternFacts DEF TypeOK
  <2>2. CASE NextFirst
    BY <2>2, FirstPlays DEF Playback!Next
  <2>3. CASE NextStop
    <3>1. operator = 1 /\ position = max_i /\ Beat = Len(pattern) /\ Beat' = Beat
      BY <2>1, <2>3 DEF NextStop, EndOfCycle, Forwards, TypeOK, Beat, max_i
    <3>2. Playback!Stop
      BY <2>3, <3>1 DEF NextStop, Playback!Stop, Playback!AtEnd
    <3>3. QED
      BY <3>2 DEF Playback!Next
  <2>4. CASE NextTurn
    BY <2>4, FarTurnPlays, NearTurnPlays DEF Playback!Next
  <2>5. CASE NextStep
    BY <2>5, StepPlays DEF Playback!Next
  <2>6. ASSUME NEW endless \in BOOLEAN, SetLooping(endless)
        PROVE  Playback!Next
    <3>1. Beat = 0 /\ Beat' = Beat
      BY <2>6 DEF SetLooping, Forwards, Beat, max_i
    <3>2. Playback!SetLooping(endless)
      BY <2>6, <3>1 DEF SetLooping, Playback!SetLooping
    <3>3. QED
      BY <3>2 DEF Playback!Next
  <2>7. CASE SetDone
    <3>1. operator' = 1 /\ position' = Len(pattern) /\ position' # -1
      BY <2>1, <2>7 DEF SetDone, max_i
    <3>2. Beat' = Len(pattern)
      BY <3>1 DEF Beat
    <3>3. Playback!SetDone
      BY <2>7, <3>2 DEF SetDone, Playback!SetDone
    <3>4. QED
      BY <3>3 DEF Playback!Next
  <2>8. CASE UNCHANGED vars
    BY <2>8 DEF vars, Beat, max_i, Playback!vars
  <2>9. QED
    BY <2>2, <2>3, <2>4, <2>5, <2>6, <2>7, <2>8 DEF Next, Call
<1>3. QED
  BY <1>1, <1>2, TypeCorrect, TurnCorrect, ForwardsCorrect, PTL
     DEF Spec, PlaysPattern, Playback!Spec

=============================================================================

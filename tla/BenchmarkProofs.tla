--------------------------- MODULE BenchmarkProofs ---------------------------
(***************************************************************************)
(* What Benchmark promises, for every definition, any number of sessions,  *)
(* signals and things going wrong.  Inv joins four parts: Shape (where     *)
(* Play can stand), Ours (whose qdisc the device has during a session),    *)
(* Left (what is left of it between two) and Skipped (what a signal has    *)
(* left behind).  Spent counts the skips, Settled ties the sessions to the *)
(* definition they were read from.                                         *)
(***************************************************************************)
EXTENDS Benchmark, FiniteSetTheorems, TLAPS

Active == {"playing", "finish", "return"}

\* A listener that is about to delete the root qdisc.
Exiting == {"exit", "wait", "close"}

\* play_session is past the sleep of Init.
Playing == {"warmup", "wait", "close"}

\* Where main still has to launch the current listener, or none is left.
Between == {"session", "new_player", "start"}

(***************************************************************************)
(* The sessions are a sequence, Play walks through it and each session has *)
(* a listener, which starts together with it.                              *)
(***************************************************************************)
Shape ==
    /\ Len(sessions) \in Nat
    /\ Indexes = 1..Len(sessions)
    /\ DOMAIN listener = Indexes
    /\ DOMAIN outcome = Indexes
    /\ pc \in Places
    /\ current \in Nat \ {0}
    /\ pc \notin {"load", "post_benchmark", "end"} => current \in Indexes
    /\ pc = "load" => Len(sessions) = 0
    /\ pc \in {"load", "post_benchmark", "end"} => current = Len(sessions) + 1

(***************************************************************************)
(* From the add of a session to the end of its play the device has its     *)
(* qdisc, since no earlier listener is on its way to delete one and its    *)
(* own listener waits for the play to be over.                             *)
(***************************************************************************)
Ours ==
    /\ run \in Active => pc = "wait"
    /\ pc \in {"start", "reset", "add", "warmup"} => run = "off"
    /\ pc = "add" => qdisc = 0
    /\ pc = "warmup" \/ run \in Active => qdisc = current
    /\ pc \in Playing => \A i \in 1..(current - 1) : listener[i] \notin Exiting
    /\ \A i \in Indexes : i > current => listener[i] = "off"
    /\ pc \in Between /\ current \in Indexes => listener[current] = "off"
    /\ pc \in {"reset", "add", "warmup"} => listener[current] \in {"select", "done"}
    /\ run \in Active => listener[current] # "close"

(***************************************************************************)
(* Between two sessions a qdisc is only there when its session could not   *)
(* open the control file and no session after it has reset anything.       *)
(***************************************************************************)
Left ==
    /\ pc \in {"load", "add", "stats", "interrupt"} => qdisc = 0
    /\ pc \in {"session", "new_player", "start", "reset", "post_benchmark", "end"} /\ qdisc # 0 =>
           /\ qdisc \in 1..(current - 1)
           /\ outcome[qdisc] = "half_started"
           /\ \A i \in (qdisc + 1)..(current - 1) : outcome[i] \in {"unsaved", "refused"}

(***************************************************************************)
(* A skip that closed the channel of the session it was meant for has left *)
(* its flag, until that session is no longer about to be reported.         *)
(***************************************************************************)
Skipped ==
    /\ player \in Nat /\ player <= current
    /\ player # 0 => player \in Indexes
    /\ pc \in {"session", "new_player"} => player < current
    /\ pc \in {"start", "reset", "add", "stats", "interrupt"} \cup Playing => player = current
    /\ handler \in Int /\ handler <= player
    /\ \A i \in Indexes : (outcome[i] = "none") <=> (i >= current)
    /\ handler > 0 /\ handler = player /\ player \notin exited => was_skipped
    /\ pc \in {"close", "stats", "interrupt"} => current \in exited
    /\ pc = "wait" /\ run = "over" => current \in exited
    /\ \A i \in Indexes : outcome[i] = "reported" => i \in exited
    /\ \A h \in hit :
           /\ h \in Indexes \X Indexes
           /\ h[1] <= h[2]
           /\ h[2] <= player
           /\ h[1] = h[2] => outcome[h[2]] # "reported"
           /\ h[1] = h[2] /\ outcome[h[2]] = "none" => was_skipped

-----------------------------------------------------------------------------

(***************************************************************************)
(* A function on 1..n is a sequence of length n.                           *)
(***************************************************************************)
LEMMA FunctionLen ==
    ASSUME NEW n \in Nat, NEW f, f = [i \in 1..n |-> f[i]]
    PROVE  Len(f) = n
<1> DEFINE S == {f[i] : i \in 1..n}
<1>1. \A i \in 1..n : f[i] \in S
  OBVIOUS
<1>2. f \in Seq(S)
  BY <1>1
<1>3. QED
  BY <1>2

(***************************************************************************)
(* A definition that is loaded has a session for each of its patterns.     *)
(***************************************************************************)
LEMMA LoadedLen ==
    ASSUME NEW d \in Definitions
    PROVE  /\ Len(LoadSessions(d)) \in Nat
           /\ DOMAIN LoadSessions(d) = 1..Len(LoadSessions(d))
           /\ d.patterns # <<>> => Len(LoadSessions(d)) # 0
<1> DEFINE n == Len(d.patterns)
<1>1. n \in Nat /\ DOMAIN d.patterns = 1..n
  BY BenchmarkAssumption
<1>2. DOMAIN LoadSessions(d) = 1..n
  BY <1>1 DEF LoadSessions
<1>3. LoadSessions(d) = [i \in 1..n |-> LoadSessions(d)[i]]
  BY <1>1 DEF LoadSessions
<1>4. Len(LoadSessions(d)) = n
  BY <1>1, <1>3, FunctionLen
<1>5. QED
  BY <1>1, <1>2, <1>4

Inv == definition \in Definitions /\ Shape /\ Ours /\ Left /\ Skipped

\* The sessions there are depend on the definition alone.
LEMMA SameIndexes == UNCHANGED sessions => Indexes' = Indexes
BY DEF Indexes

(***************************************************************************)
(* What Leave leaves behind.                                               *)
(***************************************************************************)
LEMMA LeaveFacts ==
    ASSUME Shape, current \in Indexes, NEW result, Leave(result)
    PROVE  /\ current' = current + 1
           /\ DOMAIN outcome' = Indexes
           /\ outcome'[current] = result
           /\ \A i \in Indexes : i # current => outcome'[i] = outcome[i]
           /\ \/ pc' = "session" /\ current + 1 \in Indexes
              \/ pc' = "post_benchmark" /\ current = Len(sessions)
<1>1. outcome' = [outcome EXCEPT ![current] = result] /\ DOMAIN outcome = Indexes
  BY DEF Leave, Shape
<1>2. current' = current + 1
  BY DEF Leave
<1>3. pc' = IF current = Len(sessions) THEN "post_benchmark" ELSE "session"
  BY DEF Leave, Goto
<1>4. Indexes = 1..Len(sessions) /\ Len(sessions) \in Nat
  BY DEF Shape
<1>5. QED
  BY <1>1, <1>2, <1>3, <1>4

(***************************************************************************)
(* What Load leaves behind.                                                *)
(***************************************************************************)
LEMMA LoadFacts ==
    ASSUME Shape, definition \in Definitions, Load
    PROVE  /\ pc = "load" /\ Indexes = {} /\ current = 1
           /\ UNCHANGED <<current, player, exited, run, qdisc, history, was_skipped>>
           /\ \/ /\ pc' = "end"
                 /\ UNCHANGED <<sessions, listener, outcome, handler>>
              \/ /\ pc' = "session"
                 /\ Len(sessions') \in Nat
                 /\ Indexes' = 1..Len(sessions')
                 /\ 1 \in Indexes'
                 /\ listener' = [i \in Indexes' |-> "off"]
                 /\ outcome' = [i \in Indexes' |-> "none"]
                 /\ handler' = -1
<1>1. pc = "load" /\ Indexes = {} /\ current = 1
  BY DEF Load, At, Shape
<1>2. UNCHANGED <<current, player, exited, run, qdisc, history, was_skipped>>
  BY DEF Load
<1>3. CASE Loads(definition) /\ SessionsValid(LoadSessions(definition))
  <2>1. sessions' = LoadSessions(definition)
    BY <1>3 DEF Load
  <2>2. definition.patterns # <<>>
    BY <1>3 DEF Loads, DefinitionValid
  <2>3. Len(sessions') \in Nat /\ Indexes' = 1..Len(sessions') /\ 1 \in Indexes'
    BY <2>1, <2>2, LoadedLen DEF Indexes
  <2>4. pc' = "session" /\ handler' = -1
    BY <1>3 DEF Load, Goto, SelectSignal
  <2>5. /\ listener' = [i \in Indexes' |-> "off"]
        /\ outcome' = [i \in Indexes' |-> "none"]
    BY <1>3, <2>1 DEF Load, Indexes
  <2>6. QED
    BY <1>1, <1>2, <2>3, <2>4, <2>5
<1>4. CASE ~(Loads(definition) /\ SessionsValid(LoadSessions(definition)))
  BY <1>1, <1>2, <1>4 DEF Load, Goto
<1>5. QED
  BY <1>3, <1>4


(***************************************************************************)
(* Play walks through the sessions one by one.                             *)
(***************************************************************************)
LEMMA PlayShape == Inv /\ Play => Shape'
<1> SUFFICES ASSUME Inv, Play PROVE Shape'
  OBVIOUS
<1> USE DEF Inv, Shape, Shape, At, Goto, Places, Active, Exiting, Playing, Between, program,
            players, results, history
<1>1. CASE Load
  BY <1>1, LoadFacts DEF Indexes
<1>2. CASE PersistSession
  BY <1>2, LeaveFacts, SameIndexes DEF PersistSession, Fault
<1>3. CASE NewPlayer
  BY <1>3 DEF NewPlayer, Indexes
<1>4. CASE Start
  BY <1>4, LeaveFacts, SameIndexes DEF Start
<1>5. CASE ResetQdisc
  BY <1>5 DEF ResetQdisc, Indexes
<1>6. CASE AddQdisc
  BY <1>6, LeaveFacts, SameIndexes DEF AddQdisc, Fault, SleepOver
<1>7. CASE WarmupExit
  BY <1>7 DEF WarmupExit, Indexes
<1>8. CASE Launch
  BY <1>8 DEF Launch, Indexes
<1>9. CASE WaitReturns
  BY <1>9 DEF WaitReturns, Indexes
<1>10. CASE Close
  BY <1>10 DEF Close, Indexes
<1>11. CASE StatsFail
  BY <1>11, LeaveFacts, SameIndexes DEF StatsFail, Fault
<1>12. CASE ReportSession
  BY <1>12, LeaveFacts, SameIndexes DEF ReportSession
<1>13. CASE SeeSkip
  BY <1>13 DEF SeeSkip, Indexes
<1>14. CASE Interrupt
  BY <1>14, LeaveFacts, SameIndexes DEF Interrupt
<1>15. CASE PostBenchmark
  BY <1>15 DEF PostBenchmark, Indexes
<1>16. QED
  BY <1>1, <1>2, <1>3, <1>4, <1>5, <1>6, <1>7, <1>8, <1>9, <1>10, <1>11, <1>12, <1>13, <1>14, <1>15 DEF Play

(***************************************************************************)
(* Play adds and deletes the qdisc of the current session only.            *)
(***************************************************************************)
LEMMA PlayOurs == Inv /\ Play => Ours'
<1> SUFFICES ASSUME Inv, Play PROVE Ours'
  OBVIOUS
<1> USE DEF Inv, Shape, Ours, At, Goto, Places, Active, Exiting, Playing, Between, program,
            players, results, history
<1>1. CASE Load
  BY <1>1, LoadFacts DEF Indexes
<1>2. CASE PersistSession
  BY <1>2, LeaveFacts, SameIndexes DEF PersistSession, Fault
<1>3. CASE NewPlayer
  BY <1>3 DEF NewPlayer, Indexes
<1>4. CASE Start
  BY <1>4, LeaveFacts, SameIndexes DEF Start
<1>5. CASE ResetQdisc
  BY <1>5 DEF ResetQdisc, Indexes
<1>6. CASE AddQdisc
  BY <1>6, LeaveFacts, SameIndexes DEF AddQdisc, Fault, SleepOver
<1>7. CASE WarmupExit
  BY <1>7 DEF WarmupExit, Indexes
<1>8. CASE Launch
  BY <1>8 DEF Launch, Indexes
<1>9. CASE WaitReturns
  BY <1>9 DEF WaitReturns, Indexes
<1>10. CASE Close
  BY <1>10 DEF Close, Indexes
<1>11. CASE StatsFail
  BY <1>11, LeaveFacts, SameIndexes DEF StatsFail, Fault
<1>12. CASE ReportSession
  BY <1>12, LeaveFacts, SameIndexes DEF ReportSession
<1>13. CASE SeeSkip
  BY <1>13 DEF SeeSkip, Indexes
<1>14. CASE Interrupt
  BY <1>14, LeaveFacts, SameIndexes DEF Interrupt
<1>15. CASE PostBenchmark
  BY <1>15 DEF PostBenchmark, Indexes
<1>16. QED
  BY <1>1, <1>2, <1>3, <1>4, <1>5, <1>6, <1>7, <1>8, <1>9, <1>10, <1>11, <1>12, <1>13, <1>14, <1>15 DEF Play

(***************************************************************************)
(* Play leaves a session with its qdisc only when the open failed.         *)
(***************************************************************************)
LEMMA PlayLeft == Inv /\ Play => Left'
<1> SUFFICES ASSUME Inv, Play PROVE Left'
  OBVIOUS
<1> USE DEF Inv, Shape, Left, At, Goto, Places, Active, Exiting, Playing, Between, program,
            players, results, history
<1>1. CASE Load
  BY <1>1, LoadFacts DEF Indexes
<1>2. CASE PersistSession
  BY <1>2, LeaveFacts, SameIndexes DEF PersistSession, Fault
<1>3. CASE NewPlayer
  BY <1>3 DEF NewPlayer, Indexes
<1>4. CASE Start
  BY <1>4, LeaveFacts, SameIndexes DEF Start
<1>5. CASE ResetQdisc
  BY <1>5 DEF ResetQdisc, Indexes
<1>6. CASE AddQdisc
  BY <1>6, LeaveFacts, SameIndexes DEF AddQdisc, Fault, SleepOver
<1>7. CASE WarmupExit
  BY <1>7 DEF WarmupExit, Indexes
<1>8. CASE Launch
  BY <1>8 DEF Launch, Indexes
<1>9. CASE WaitReturns
  BY <1>9 DEF WaitReturns, Indexes
<1>10. CASE Close
  BY <1>10 DEF Close, Indexes
<1>11. CASE StatsFail
  BY <1>11, LeaveFacts, SameIndexes DEF StatsFail, Fault
<1>12. CASE ReportSession
  BY <1>12, LeaveFacts, SameIndexes DEF ReportSession
<1>13. CASE SeeSkip
  BY <1>13 DEF SeeSkip, Indexes
<1>14. CASE Interrupt
  BY <1>14, LeaveFacts, SameIndexes DEF Interrupt
<1>15. CASE PostBenchmark
  BY <1>15 DEF PostBenchmark, Indexes
<1>16. QED
  BY <1>1, <1>2, <1>3, <1>4, <1>5, <1>6, <1>7, <1>8, <1>9, <1>10, <1>11, <1>12, <1>13, <1>14, <1>15 DEF Play

(***************************************************************************)
(* Play asks for the flag before it reports, and resets it only when the   *)
(* session that was skipped is left.                                       *)
(***************************************************************************)
LEMMA PlaySkipped == Inv /\ Play => Skipped'
<1> SUFFICES ASSUME Inv, Play PROVE Skipped'
  OBVIOUS
<1> USE DEF Inv, Shape, Skipped, At, Goto, Places, Active, Exiting, Playing, Between, program,
            players, results, history
<1>1. CASE Load
  BY <1>1, LoadFacts DEF Indexes
<1>2. CASE PersistSession
  BY <1>2, LeaveFacts, SameIndexes DEF PersistSession, Fault
<1>3. CASE NewPlayer
  BY <1>3 DEF NewPlayer, Indexes
<1>4. CASE Start
  BY <1>4, LeaveFacts, SameIndexes DEF Start
<1>5. CASE ResetQdisc
  BY <1>5 DEF ResetQdisc, Indexes
<1>6. CASE AddQdisc
  BY <1>6, LeaveFacts, SameIndexes DEF AddQdisc, Fault, SleepOver
<1>7. CASE WarmupExit
  BY <1>7 DEF WarmupExit, Indexes
<1>8. CASE Launch
  BY <1>8 DEF Launch, Indexes
<1>9. CASE WaitReturns
  BY <1>9 DEF WaitReturns, Indexes
<1>10. CASE Close
  BY <1>10 DEF Close, Indexes
<1>11. CASE StatsFail
  BY <1>11, LeaveFacts, SameIndexes DEF StatsFail, Fault
<1>12. CASE ReportSession
  BY <1>12, LeaveFacts, SameIndexes DEF ReportSession
<1>13. CASE SeeSkip
  BY <1>13 DEF SeeSkip, Indexes
<1>14. CASE Interrupt
  BY <1>14, LeaveFacts, SameIndexes DEF Interrupt
<1>15. CASE PostBenchmark
  BY <1>15 DEF PostBenchmark, Indexes
<1>16. QED
  BY <1>1, <1>2, <1>3, <1>4, <1>5, <1>6, <1>7, <1>8, <1>9, <1>10, <1>11, <1>12, <1>13, <1>14, <1>15 DEF Play

(***************************************************************************)
(* The goroutines of the current player: they leave the qdisc alone and are *)
(* over only when their channel is closed.                                 *)
(***************************************************************************)
LEMMA PlayerInv == Inv /\ Player => Inv'
<1> SUFFICES ASSUME Inv, Player PROVE Inv'
  OBVIOUS
<1> USE DEF Inv, Shape, Ours, Left, Skipped, At, Goto, Places, Active, Exiting, Playing,
            Between, program, players, results, history
<1>1. CASE PatternOver
  BY <1>1, SameIndexes DEF PatternOver, AllButPlayer
<1>2. CASE Finished
  BY <1>2, SameIndexes DEF Finished, AllButPlayer
<1>3. CASE PlayerEnds
  BY <1>3, SameIndexes DEF PlayerEnds, AllButPlayer
<1>4. CASE \E kind \in {"warn", "fatal"} : Report(kind)
  BY <1>4, SameIndexes DEF Report, AllButPlayer
<1>5. CASE StoreFails
  BY <1>5, SameIndexes DEF StoreFails, Fault, AllButPlayer
<1>6. QED
  BY <1>1, <1>2, <1>3, <1>4, <1>5 DEF Player

(***************************************************************************)
(* An exit listener: only one that is exiting deletes the qdisc.           *)
(***************************************************************************)
LEMMA ListenerInv == ASSUME Inv, NEW i \in Indexes, Listener(i) PROVE Inv'
<1> USE DEF Inv, Shape, Ours, Left, Skipped, At, Goto, Places, Active, Exiting, Playing,
            Between, program, players, results, history
<1>1. CASE ListenerCloses(i)
  BY <1>1, SameIndexes DEF ListenerCloses, ListenerMoves
<1>2. CASE ListenerWaits(i)
  BY <1>2, SameIndexes DEF ListenerWaits, ListenerMoves
<1>3. CASE ListenerCleans(i)
  BY <1>3, SameIndexes DEF ListenerCleans, ListenerMoves
<1>4. CASE ListenerSeesExit(i)
  BY <1>4, SameIndexes DEF ListenerSeesExit, ListenerMoves
<1>5. QED
  BY <1>1, <1>2, <1>3, <1>4 DEF Listener

(***************************************************************************)
(* The two steps of SkipSession: the flag, and then the player that is     *)
(* there by now.                                                           *)
(***************************************************************************)
LEMMA SkipInv == Inv /\ (Signal \/ Skip) => Inv'
<1> SUFFICES ASSUME Inv, Signal \/ Skip PROVE Inv'
  OBVIOUS
<1> USE DEF Inv, Shape, Ours, Left, Skipped, At, Goto, Places, Active, Exiting, Playing,
            Between, program, players, results, history
<1>1. CASE Signal
  BY <1>1, SameIndexes DEF Signal, SelectSignal
<1>2. CASE Skip
  BY <1>2, SameIndexes DEF Skip, SelectSignal
<1>3. QED
  BY <1>1, <1>2

(***************************************************************************)
(* Inv is inductive.                                                       *)
(***************************************************************************)
LEMMA Invariance == Spec => []Inv
<1>1. Init => Inv
  <2> SUFFICES ASSUME Init PROVE Inv
    OBVIOUS
  <2>1. sessions = <<>> /\ listener = <<>> /\ outcome = <<>> /\ pc = "load" /\ current = 1
    BY DEF Init
  <2>2. Len(sessions) = 0 /\ Indexes = {} /\ DOMAIN listener = {} /\ DOMAIN outcome = {}
    BY <2>1 DEF Indexes
  <2>3. QED
    BY <2>1, <2>2 DEF Init, Inv, Shape, Ours, Left, Skipped, Places, Active, Playing, Between
<1>2. Inv /\ [Next]_vars => Inv'
  <2> SUFFICES ASSUME Inv, [Next]_vars PROVE Inv'
    OBVIOUS
  <2>1. CASE Play
    <3>1. definition' = definition
      BY <2>1 DEF Play, Load, PersistSession, NewPlayer, Start, ResetQdisc, AddQdisc,
         WarmupExit, Launch, WaitReturns, Close, StatsFail, ReportSession, SeeSkip,
         Interrupt, PostBenchmark
    <3>2. QED
      BY <2>1, <3>1, PlayShape, PlayOurs, PlayLeft, PlaySkipped DEF Inv
  <2>2. CASE Player
    BY <2>2, PlayerInv
  <2>3. CASE \E i \in Indexes : Listener(i)
    BY <2>3, ListenerInv
  <2>4. CASE Signal \/ Skip
    BY <2>4, SkipInv
  <2>5. CASE Gone \/ UNCHANGED vars
    BY <2>5, SameIndexes DEF Gone, Inv, Shape, Ours, Left, Skipped, vars, program, players,
       results, history
  <2>6. QED
    BY <2>1, <2>2, <2>3, <2>4, <2>5 DEF Next
<1>3. QED
  BY <1>1, <1>2, PTL DEF Spec

-----------------------------------------------------------------------------

(***************************************************************************)
(* The listener of an earlier session never deletes the qdisc of the one   *)
(* that is playing, however many sessions were skipped at whatever moment. *)
(***************************************************************************)
THEOREM QdiscCorrect == Spec => []QdiscStays
<1>1. Inv => QdiscStays
  BY DEF Inv, Ours, QdiscStays, Active
<1>2. QED
  BY <1>1, Invariance, PTL

(***************************************************************************)
(* The benchmark leaves a qdisc behind only after a Start that failed at   *)
(* its very end, with no session after it that reset the device.           *)
(***************************************************************************)
THEOREM EndCorrect == Spec => []EndsClean
<1>1. Inv => EndsClean
  BY DEF Inv, Shape, Left, EndsClean, At
<1>2. QED
  BY <1>1, Invariance, PTL

(***************************************************************************)
(* A session whose channel a skip of its own closed is never reported as a *)
(* success.                                                                *)
(***************************************************************************)
THEOREM SuccessCorrect == Spec => []SuccessIsWhole
<1>1. Inv => SuccessIsWhole
  BY DEF Inv, Shape, Skipped, SuccessIsWhole
<1>2. QED
  BY <1>1, Invariance, PTL

-----------------------------------------------------------------------------
(* The types, which Inv does not need.                                     *)

(***************************************************************************)
(* Leave keeps the type of outcome.                                        *)
(***************************************************************************)
LEMMA LeaveTypes ==
    ASSUME outcome \in [Indexes -> Outcomes], NEW result \in Outcomes, Leave(result)
    PROVE  outcome' \in [Indexes -> Outcomes]
<1>1. outcome' = [outcome EXCEPT ![current] = result]
  BY DEF Leave
<1>2. QED
  BY <1>1

(***************************************************************************)
(* main keeps the types: each Leave names an outcome, and Load starts all  *)
(* functions on the same indexes.                                          *)
(***************************************************************************)
LEMMA PlayTypes == Inv /\ Inv' /\ TypeOK /\ Play => TypeOK'
<1> SUFFICES ASSUME Inv, Inv', TypeOK, Play PROVE TypeOK'
  OBVIOUS
<1> USE DEF TypeOK, Outcomes, At, Goto, program, players, results, history
<1>1. /\ Indexes = 1..Len(sessions) /\ Len(sessions) \in Nat
      /\ pc \notin {"load", "post_benchmark", "end"} => current \in Indexes
  BY DEF Inv, Shape
<1>2. pc' \in Places /\ current' \in 1..(Len(sessions') + 1)
  BY DEF Inv, Shape
<1>3. CASE Load
  <2>1. definition' = definition /\ UNCHANGED <<on_post, faults, signals>>
    BY <1>3 DEF Load
  <2>2. player = 0 /\ exited = {} /\ hit = {} /\ skips = {} /\ qdisc = 0
    BY <1>3, LoadFacts DEF Inv, Shape, Left, Skipped
  <2>3. /\ Indexes' = 1..Len(sessions') /\ Len(sessions') \in Nat
        /\ UNCHANGED <<player, was_skipped, exited, run, qdisc, history>>
    BY <1>3, LoadFacts DEF Inv, Shape
  <2>4. CASE UNCHANGED <<sessions, listener, outcome, handler>>
    BY <1>1, <1>2, <2>1, <2>2, <2>3, <2>4, SameIndexes
  <2>5. CASE /\ listener' = [i \in Indexes' |-> "off"]
             /\ outcome' = [i \in Indexes' |-> "none"]
             /\ handler' = -1
    BY <1>2, <2>1, <2>2, <2>3, <2>5, BenchmarkAssumption DEF SelectSignal
  <2>6. QED
    BY <1>3, <2>4, <2>5, LoadFacts DEF Inv
<1>4. CASE PersistSession
  <2>1. outcome' = outcome \/ outcome' = [outcome EXCEPT ![current] = "unsaved"]
    BY <1>4 DEF PersistSession, Leave
  <2>2. faults' = faults \/ (faults < MaxFaults /\ faults' = faults + 1)
    BY <1>4 DEF PersistSession, Fault
  <2>3. UNCHANGED <<definition, sessions, player, was_skipped, handler, players, on_post,
                    history, signals>>
    BY <1>4 DEF PersistSession
  <2>4. outcome' \in [Indexes -> Outcomes] /\ faults' \in 0..MaxFaults
    BY <2>1, <2>2, BenchmarkAssumption
  <2>5. QED
    BY <1>1, <1>2, <2>3, <2>4, SameIndexes
<1>5. CASE NewPlayer
  BY <1>1, <1>2, <1>5, SameIndexes, BenchmarkAssumption DEF NewPlayer
<1>6. CASE Start
  <2>1. outcome' \in [Indexes -> Outcomes]
    BY <1>6, LeaveTypes DEF Start
  <2>2. listener' \in [Indexes -> {"off", "select", "exit", "wait", "close", "exit_nowait", "done"}]
    BY <1>6 DEF Start
  <2>3. QED
    BY <1>1, <1>2, <1>6, <2>1, <2>2, SameIndexes DEF Start
<1>7. CASE ResetQdisc
  BY <1>1, <1>2, <1>7, SameIndexes, BenchmarkAssumption DEF ResetQdisc
<1>8. CASE AddQdisc
  <2>1. current \in Indexes
    BY <1>1, <1>8 DEF AddQdisc
  <2>2. CASE qdisc' = current /\ UNCHANGED <<outcome, faults>>
    <3>1. qdisc' \in 0..Len(sessions)
      BY <1>1, <2>1, <2>2
    <3>2. UNCHANGED <<definition, sessions, player, was_skipped, handler, exited, run, listener,
                      outcome, on_post, history, faults, signals>>
      BY <1>8, <2>2 DEF AddQdisc
    <3>3. QED
      BY <1>1, <1>2, <3>1, <3>2, SameIndexes
  <2>3. CASE /\ faults < MaxFaults /\ faults' = faults + 1
             /\ qdisc' \in {qdisc, current}
             /\ Leave("unplayed") \/ Leave("half_started")
    <3>1. outcome' \in [Indexes -> Outcomes]
      BY <2>3, LeaveTypes
    <3>2. faults' \in 0..MaxFaults
      BY <2>3, BenchmarkAssumption
    <3>3. qdisc' \in 0..Len(sessions)
      BY <1>1, <2>1, <2>3
    <3>4. UNCHANGED <<definition, sessions, player, was_skipped, handler, exited, run, listener,
                      on_post, history, signals>>
      BY <1>8 DEF AddQdisc
    <3>5. QED
      BY <1>1, <1>2, <3>1, <3>2, <3>3, <3>4, SameIndexes
  <2>4. QED
    BY <1>8, <2>2, <2>3 DEF AddQdisc, Fault
<1>9. CASE WarmupExit
  BY <1>1, <1>2, <1>9, SameIndexes, BenchmarkAssumption DEF WarmupExit
<1>10. CASE Launch
  BY <1>1, <1>2, <1>10, SameIndexes, BenchmarkAssumption DEF Launch
<1>11. CASE WaitReturns
  BY <1>1, <1>2, <1>11, SameIndexes, BenchmarkAssumption DEF WaitReturns
<1>12. CASE Close
  BY <1>1, <1>2, <1>12, SameIndexes, BenchmarkAssumption DEF Close
<1>13. CASE StatsFail
  <2>1. outcome' \in [Indexes -> Outcomes]
    BY <1>13, LeaveTypes DEF StatsFail
  <2>2. faults' \in 0..MaxFaults
    BY <1>13, BenchmarkAssumption DEF StatsFail, Fault
  <2>3. QED
    BY <1>1, <1>2, <1>13, <2>1, <2>2, SameIndexes DEF StatsFail
<1>14. CASE ReportSession
  <2>1. outcome' \in [Indexes -> Outcomes]
    BY <1>14, LeaveTypes DEF ReportSession
  <2>2. QED
    BY <1>1, <1>2, <1>14, <2>1, SameIndexes DEF ReportSession
<1>15. CASE SeeSkip
  BY <1>1, <1>2, <1>15, SameIndexes, BenchmarkAssumption DEF SeeSkip
<1>16. CASE Interrupt
  <2>1. outcome' \in [Indexes -> Outcomes]
    BY <1>16, LeaveTypes DEF Interrupt
  <2>2. QED
    BY <1>1, <1>2, <1>16, <2>1, SameIndexes DEF Interrupt
<1>17. CASE PostBenchmark
  BY <1>1, <1>2, <1>17, SameIndexes, BenchmarkAssumption DEF PostBenchmark
<1>18. QED
  BY <1>3, <1>4, <1>5, <1>6, <1>7, <1>8, <1>9, <1>10, <1>11, <1>12, <1>13, <1>14, <1>15, <1>16, <1>17 DEF Play

(***************************************************************************)
(* Everybody else changes single values.                                   *)
(***************************************************************************)
LEMMA OtherTypes ==
    ASSUME Inv, TypeOK, Player \/ (\E i \in Indexes : Listener(i)) \/ Signal \/ Skip
    PROVE  TypeOK'
<1> USE DEF TypeOK, program, players, results, history
<1>1. /\ Indexes = 1..Len(sessions) /\ Len(sessions) \in Nat
      /\ handler > 0 => player \in Indexes
      /\ player # 0 => player \in Indexes
      /\ handler <= player
  BY DEF Inv, Shape, Skipped
<1>2. CASE Player
  <2>1. UNCHANGED <<definition, sessions, program, handler, qdisc, results, skips, hit, signals>>
        /\ UNCHANGED exited
    BY <1>2 DEF Player, PatternOver, Finished, PlayerEnds, Report, StoreFails, AllButPlayer
  <2>2. run' \in {"off", "playing", "finish", "return", "stuck", "over"}
    BY <1>2 DEF Player, PatternOver, Finished, PlayerEnds, Report, StoreFails
  <2>3. faults' \in 0..MaxFaults
    BY <1>2, BenchmarkAssumption DEF Player, PatternOver, Finished, PlayerEnds, Report,
       StoreFails, Fault
  <2>4. listener' \in [Indexes -> {"off", "select", "exit", "wait", "close", "exit_nowait", "done"}]
    BY <1>2 DEF Player, PatternOver, Finished, PlayerEnds, Report, StoreFails
  <2>5. QED
    BY <1>1, <2>1, <2>2, <2>3, <2>4, SameIndexes
<1>3. CASE \E i \in Indexes : Listener(i)
  <2> PICK i \in Indexes : Listener(i)
    BY <1>3
  <2>1. UNCHANGED <<definition, sessions, program, handler, run, results, history, faults, signals>>
    BY DEF Listener, ListenerCloses, ListenerWaits, ListenerCleans, ListenerSeesExit, ListenerMoves
  <2>2. listener' \in [Indexes -> {"off", "select", "exit", "wait", "close", "exit_nowait", "done"}]
    BY DEF Listener, ListenerCloses, ListenerWaits, ListenerCleans, ListenerSeesExit, ListenerMoves
  <2>3. exited' \in {exited, exited \cup {i}} /\ qdisc' \in {0, qdisc}
    BY DEF Listener, ListenerCloses, ListenerWaits, ListenerCleans, ListenerSeesExit
  <2>4. QED
    BY <1>1, <2>1, <2>2, <2>3, SameIndexes
<1>4. CASE Signal
  <2>1. UNCHANGED <<definition, sessions, pc, current, player, players, results, hit, faults>>
        /\ signals < MaxSignals /\ signals' = signals + 1
    BY <1>4 DEF Signal
  <2>2. /\ was_skipped' \in {TRUE, was_skipped}
        /\ handler' \in {player, handler}
    BY <1>4 DEF Signal
  <2>3. skips' = skips \/ (player \in Indexes /\ skips' = skips \cup {<<signals', player>>})
    BY <1>1, <1>4 DEF Signal
  <2>4. MaxSignals \in Nat /\ signals \in 0..MaxSignals /\ signals' \in 0..MaxSignals
    BY <2>1, BenchmarkAssumption
  <2>5. skips' \subseteq (1..signals') \X Indexes
    <3>1. skips \subseteq (1..signals') \X Indexes
      <4>1. 1..signals \subseteq 1..signals'
        BY <2>1, <2>4
      <4>2. QED
        BY <4>1
    <3>2. signals' \in 1..signals'
      BY <2>1, <2>4
    <3>3. QED
      BY <2>3, <3>1, <3>2
  <2>6. Indexes' = Indexes
    BY <2>1, SameIndexes
  <2>7. QED
    BY <1>1, <2>1, <2>2, <2>4, <2>5, <2>6
<1>5. CASE Skip
  BY <1>1, <1>5, SameIndexes DEF Skip, SelectSignal
<1>6. QED
  BY <1>2, <1>3, <1>4, <1>5

(***************************************************************************)
(* Nothing ever leaves its type: no session is asked for that is not there *)
(* and no signal is counted for a session that does not exist.             *)
(***************************************************************************)
THEOREM TypeCorrect == Spec => []TypeOK
<1>1. Init => TypeOK
  <2> SUFFICES ASSUME Init PROVE TypeOK
    OBVIOUS
  <2>1. Len(sessions) = 0 /\ Indexes = {}
    BY DEF Init, Indexes
  <2>2. /\ <<>> \in [{} -> Outcomes]
        /\ <<>> \in [{} -> {"off", "select", "exit", "wait", "close", "exit_nowait", "done"}]
    OBVIOUS
  <2>3. listener = <<>> /\ outcome = <<>> /\ skips = {}
    BY DEF Init
  <2>4. faults \in 0..MaxFaults /\ signals \in 0..MaxSignals
    BY BenchmarkAssumption DEF Init
  <2>5. /\ listener \in [Indexes -> {"off", "select", "exit", "wait", "close", "exit_nowait",
                                     "done"}]
        /\ outcome \in [Indexes -> Outcomes]
        /\ skips \subseteq (1..signals) \X Indexes
    BY <2>1, <2>2, <2>3
  <2>6. /\ definition \in Definitions /\ pc \in Places /\ run = "off" /\ on_post = "none"
        /\ exited = {} /\ hit = {} /\ was_skipped = FALSE
    BY DEF Init, Places
  <2>7. current = 1 /\ player = 0 /\ handler = 0 /\ qdisc = 0
    BY DEF Init
  <2>8. current \in 1..(Len(sessions) + 1) /\ {player, handler, qdisc} \subseteq 0..Len(sessions)
    BY <2>1, <2>7
  <2>9. exited \subseteq Indexes /\ hit \subseteq Indexes \X Indexes
    BY <2>6
  <2>10. QED
    BY <2>4, <2>5, <2>6, <2>8, <2>9 DEF TypeOK
<1>2. Inv /\ Inv' /\ TypeOK /\ [Next]_vars => TypeOK'
  <2>1. Inv /\ TypeOK /\ UNCHANGED vars => TypeOK'
    BY SameIndexes DEF vars, TypeOK, program, players, results, history
  <2>2. QED
    BY <2>1, PlayTypes, OtherTypes DEF Next, Gone
<1>3. QED
  BY <1>1, <1>2, Invariance, PTL DEF Spec

-----------------------------------------------------------------------------
(* How often skips are spent.                                              *)

(***************************************************************************)
(* No more sessions are interrupted than signals came for them, and one    *)
(* less while the flag is set: the flag is what a signal leaves behind.    *)
(***************************************************************************)
Spent ==
    /\ IsFiniteSet(skips)
    /\ \A s \in skips : s[1] <= signals /\ s[2] <= player
    /\ \A i \in Indexes : Cardinality(Interrupted \cap 1..i) <= SkipsUpTo(i)
    /\ Cardinality(Interrupted) <= Cardinality(skips)
    /\ was_skipped => Cardinality(Interrupted) < Cardinality(skips)
    /\ pc = "interrupt" => was_skipped
    /\ on_post = "left_out" => pc = "end" /\ Cardinality(Interrupted) < Cardinality(skips)

(***************************************************************************)
(* All sets that are counted are finite.                                   *)
(***************************************************************************)
LEMMA InterruptedFinite ==
    ASSUME Shape
    PROVE  /\ IsFiniteSet(Interrupted)
           /\ Cardinality(Interrupted) \in Nat
           /\ \A i : /\ IsFiniteSet(Interrupted \cap 1..i)
                     /\ Cardinality(Interrupted \cap 1..i) \in Nat
<1>1. IsFiniteSet(Indexes)
  BY FS_Interval DEF Shape
<1>2. Interrupted \in SUBSET Indexes
  BY DEF Interrupted
<1>3. IsFiniteSet(Interrupted)
  BY <1>1, <1>2, FS_Subset
<1>4. \A i : Interrupted \cap 1..i \in SUBSET Interrupted
  OBVIOUS
<1>5. \A i : IsFiniteSet(Interrupted \cap 1..i)
  BY <1>3, <1>4, FS_Subset
<1>6. QED
  BY <1>3, <1>5, FS_CardinalityType

\* Skips can be counted, up to each session.
LEMMA SkipsFinite ==
    ASSUME IsFiniteSet(skips)
    PROVE  /\ Cardinality(skips) \in Nat
           /\ \A i : SkipsUpTo(i) \in Nat
<1>1. \A i : {s \in skips : s[2] <= i} \in SUBSET skips
  OBVIOUS
<1>2. \A i : IsFiniteSet({s \in skips : s[2] <= i})
  BY <1>1, FS_Subset
<1>3. QED
  BY <1>2, FS_CardinalityType DEF SkipsUpTo

(***************************************************************************)
(* Leave adds the current session to the interrupted ones, or none.        *)
(***************************************************************************)
LEMMA InterruptedLeave ==
    ASSUME Inv, current \in Indexes, NEW result, Leave(result), UNCHANGED sessions
    PROVE  /\ current \notin Interrupted
           /\ result # "interrupted" => Interrupted' = Interrupted
           /\ result = "interrupted" => Interrupted' = Interrupted \cup {current}
<1>1. /\ DOMAIN outcome' = Indexes /\ outcome'[current] = result
      /\ \A i \in Indexes : i # current => outcome'[i] = outcome[i]
  BY LeaveFacts DEF Inv
<1>2. outcome[current] = "none" /\ Indexes' = Indexes
  BY SameIndexes DEF Inv, Shape, Skipped
<1>3. QED
  BY <1>1, <1>2 DEF Interrupted

(***************************************************************************)
(* What neither interrupts a session nor counts a signal nor sets the flag.*)
(***************************************************************************)
LEMMA SpentKept ==
    ASSUME Inv, Spent, TypeOK, UNCHANGED <<sessions, skips, signals>>, Interrupted' = Interrupted,
           player' \in Int, player <= player',
           was_skipped' => was_skipped,
           pc' = "interrupt" => was_skipped',
           on_post' = "left_out" => pc' = "end" /\ Cardinality(Interrupted) < Cardinality(skips)
    PROVE  Spent'
<1>1. Indexes' = Indexes
  BY SameIndexes
<1>2. \A i \in Indexes : SkipsUpTo(i)' = SkipsUpTo(i)
  BY DEF SkipsUpTo
<1>3. \A s \in skips : s[2] \in Int /\ player \in Int
  BY DEF TypeOK, Inv, Shape, Skipped
<1>4. \A s \in skips' : s[1] <= signals' /\ s[2] <= player'
  BY <1>3 DEF Spent
<1>5. QED
  BY <1>1, <1>2, <1>4 DEF Spent

(***************************************************************************)
(* Of Play, Interrupt spends a skip and PostBenchmark may spend the last.  *)
(***************************************************************************)
LEMMA SpentPlay == ASSUME Inv, TypeOK, Spent, Play PROVE Spent'
<1>0. /\ Indexes = 1..Len(sessions) /\ Len(sessions) \in Nat /\ current \in Nat
      /\ player \in Nat /\ player <= current
      /\ pc \notin {"load", "post_benchmark", "end"} => current \in Indexes
  BY DEF Inv, Shape, Skipped
<1>a. pc # "end" => on_post # "left_out"
  BY DEF Spent
<1>1. CASE Load
  <2>1. /\ Indexes = {} /\ skips = {} /\ pc = "load"
        /\ UNCHANGED <<skips, was_skipped, signals, player, on_post>> /\ on_post # "left_out"
        /\ pc' \in {"end", "session"}
    BY <1>1, <1>a, LoadFacts DEF TypeOK, Load, Inv, history, At
  <2>2. Interrupted' = {}
    BY <1>1, <2>1, LoadFacts DEF Interrupted, Inv, Indexes
  <2>3. Cardinality({}) = 0 /\ IsFiniteSet({})
    BY FS_EmptySet
  <2>4. ~was_skipped
    <3>1. Interrupted = {}
      BY <2>1 DEF Interrupted
    <3>2. QED
      BY <2>1, <2>3, <3>1 DEF Spent
  <2>5. \A i : Interrupted' \cap 1..i = {} /\ SkipsUpTo(i)' = 0
    <3>1. \A i : {s \in skips' : s[2] <= i} = {}
      BY <2>1
    <3>2. QED
      BY <2>2, <2>3, <3>1 DEF SkipsUpTo
  <2>6. QED
    BY <2>1, <2>2, <2>3, <2>4, <2>5 DEF Spent
<1>2. ASSUME NEW result \in Outcomes \ {"interrupted"}, Leave(result), pc # "end",
             current \in Indexes,
             UNCHANGED <<sessions, skips, signals, player, was_skipped, on_post>>
      PROVE  Spent'
  <2>1. Interrupted' = Interrupted
    BY <1>2, InterruptedLeave
  <2>2. pc' \in {"session", "post_benchmark"}
    BY <1>2, LeaveFacts DEF Inv
  <2>3. QED
    BY <1>0, <1>2, <1>a, <2>1, <2>2, SpentKept
<1>3. ASSUME UNCHANGED <<sessions, outcome, skips, signals, was_skipped, on_post>>,
             pc # "end", player' \in {player, current}, pc' = "interrupt" => was_skipped
      PROVE  Spent'
  <2>1. Interrupted' = Interrupted
    BY <1>3, SameIndexes DEF Interrupted
  <2>2. QED
    BY <1>0, <1>3, <1>a, <2>1, SpentKept
<1>4. CASE PersistSession
  BY <1>0, <1>2, <1>3, <1>4 DEF PersistSession, At, Goto, players, history, Outcomes
<1>5. CASE NewPlayer
  BY <1>3, <1>5 DEF NewPlayer, At, Goto, results, history
<1>6. CASE Start
  BY <1>0, <1>2, <1>3, <1>6 DEF Start, At, Goto, history, Outcomes
<1>7. CASE ResetQdisc \/ WarmupExit \/ Launch \/ WaitReturns \/ Close
  <2>1. /\ UNCHANGED <<sessions, outcome, skips, signals, was_skipped, on_post, player>>
        /\ pc # "end" /\ pc' # "interrupt"
    BY <1>7 DEF ResetQdisc, WarmupExit, Launch, WaitReturns, Close, At, Goto, results, history
  <2>2. QED
    BY <1>3, <2>1
<1>8. CASE AddQdisc
  BY <1>0, <1>2, <1>3, <1>8 DEF AddQdisc, At, Goto, history, Outcomes
<1>9. CASE StatsFail \/ ReportSession
  BY <1>0, <1>2, <1>9 DEF StatsFail, ReportSession, At, players, history, Outcomes
<1>10. CASE SeeSkip
  BY <1>3, <1>10 DEF SeeSkip, At, Goto, results, history
<1>11. CASE Interrupt
  <2>1. /\ pc = "interrupt" /\ was_skipped /\ ~was_skipped' /\ Leave("interrupted")
        /\ UNCHANGED <<sessions, skips, signals, player, on_post>>
    BY <1>11 DEF Interrupt, At, Spent, history
  <2>2. current \in Indexes /\ player = current
    BY <1>0, <2>1 DEF Inv, Skipped
  <2>3. current \notin Interrupted /\ Interrupted' = Interrupted \cup {current}
    BY <2>1, <2>2, InterruptedLeave
  <2>4. /\ Cardinality(Interrupted') = Cardinality(Interrupted) + 1
        /\ Cardinality(Interrupted) \in Nat
    BY <2>3, InterruptedFinite, FS_AddElement DEF Inv
  <2>5. Cardinality(Interrupted') <= Cardinality(skips)
    BY <2>1, <2>4, SkipsFinite DEF Spent
  <2>6. ASSUME NEW i \in Indexes
        PROVE  Cardinality(Interrupted' \cap 1..i) <= SkipsUpTo(i)
    <3>1. CASE i < current
      <4>1. Interrupted' \cap 1..i = Interrupted \cap 1..i
        BY <1>0, <2>3, <3>1
      <4>2. QED
        BY <4>1 DEF Spent
    <3>2. CASE ~(i < current)
      <4>1. {s \in skips : s[2] <= i} = skips
        <5>1. \A s \in skips : s[2] \in Int /\ s[2] <= current
          BY <2>2 DEF Spent, TypeOK, Inv, Shape
        <5>2. QED
          BY <1>0, <3>2, <5>1
      <4>2. Interrupted' \cap 1..i = Interrupted'
        <5>1. \A j \in Interrupted : j \in Indexes /\ j < current
          BY <1>0 DEF Interrupted, Inv, Skipped
        <5>2. QED
          BY <1>0, <2>2, <2>3, <3>2, <5>1
      <4>3. QED
        BY <2>5, <4>1, <4>2 DEF SkipsUpTo
    <3>3. QED
      BY <3>1, <3>2
  <2>7. Indexes' = Indexes /\ pc' # "interrupt" /\ on_post # "left_out"
    BY <1>a, <2>1, <2>2, LeaveFacts, SameIndexes DEF Inv
  <2>8. \A i \in Indexes : Cardinality(Interrupted' \cap 1..i) <= SkipsUpTo(i)'
    BY <2>1, <2>6 DEF SkipsUpTo
  <2>9. QED
    BY <2>1, <2>5, <2>7, <2>8 DEF Spent
<1>12. CASE PostBenchmark
  <2>1. /\ UNCHANGED <<sessions, outcome, skips, signals, was_skipped, player>>
        /\ pc' = "end"
        /\ on_post' = "left_out" => was_skipped
    BY <1>12 DEF PostBenchmark, Goto, history
  <2>2. Interrupted' = Interrupted
    BY <2>1, SameIndexes DEF Interrupted
  <2>3. QED
    BY <1>0, <2>1, <2>2, SpentKept DEF Spent
<1>13. QED
  BY <1>1, <1>4, <1>5, <1>6, <1>7, <1>8, <1>9, <1>10, <1>11, <1>12 DEF Play

(***************************************************************************)
(* A signal is counted for the player there is; the rest changes nothing.  *)
(***************************************************************************)
LEMMA SpentSignal == ASSUME Inv, TypeOK, Spent, Signal PROVE Spent'
<1>1. /\ UNCHANGED <<sessions, outcome, pc, player, on_post>>
      /\ signals' = signals + 1 /\ signals \in Nat /\ player \in Nat
      /\ pc # "end"
  BY DEF Signal, TypeOK, Inv, Skipped, results, history
<1>2. Interrupted' = Interrupted /\ Indexes' = Indexes /\ on_post # "left_out"
  BY <1>1, SameIndexes DEF Interrupted, Spent
<1>3. CASE UNCHANGED <<was_skipped, skips>>
  <2>1. \A i \in Indexes : SkipsUpTo(i)' = SkipsUpTo(i)
    BY <1>3 DEF SkipsUpTo
  <2>2. \A s \in skips : s[1] \in Int /\ s[1] <= signals'
    BY <1>1 DEF Spent, TypeOK
  <2>3. QED
    BY <1>1, <1>2, <1>3, <2>1, <2>2 DEF Spent
<1>4. CASE /\ was_skipped' = TRUE
           /\ skips' = skips \cup {<<signals', player>>}
  <2>1. <<signals', player>> \notin skips
    <3>1. <<signals', player>>[1] = signals + 1
      BY <1>1
    <3>2. QED
      BY <1>1, <3>1 DEF Spent
  <2>2. IsFiniteSet(skips') /\ Cardinality(skips') = Cardinality(skips) + 1
    BY <1>4, <2>1, FS_AddElement DEF Spent
  <2>3. /\ Cardinality(skips) \in Nat /\ \A i : SkipsUpTo(i) \in Nat
        /\ Cardinality(Interrupted) \in Nat
        /\ \A i : Cardinality(Interrupted \cap 1..i) \in Nat
    BY SkipsFinite, InterruptedFinite DEF Spent, Inv
  <2>4. ASSUME NEW i \in Indexes PROVE SkipsUpTo(i) <= SkipsUpTo(i)' /\ SkipsUpTo(i)' \in Nat
    <3>1. {s \in skips : s[2] <= i} \in SUBSET {s \in skips' : s[2] <= i}
      BY <1>4
    <3>2. {s \in skips' : s[2] <= i} \in SUBSET skips'
      OBVIOUS
    <3>3. IsFiniteSet({s \in skips' : s[2] <= i})
      BY <2>2, <3>2, FS_Subset
    <3>4. QED
      BY <3>1, <3>3, FS_Subset, FS_CardinalityType DEF SkipsUpTo
  <2>5. \A i \in Indexes : Cardinality(Interrupted \cap 1..i) <= SkipsUpTo(i)'
    BY <2>3, <2>4 DEF Spent
  <2>6. \A s \in skips' : s[1] <= signals' /\ s[2] <= player
    <3>1. \A s \in skips : s[1] \in Int /\ s[1] <= signals' /\ s[2] <= player
      BY <1>1 DEF Spent, TypeOK
    <3>2. QED
      BY <1>1, <1>4, <3>1
  <2>7. Cardinality(Interrupted) < Cardinality(skips')
    BY <2>2, <2>3 DEF Spent
  <2>8. QED
    BY <1>1, <1>2, <1>4, <2>2, <2>3, <2>5, <2>6, <2>7 DEF Spent
<1>5. QED
  BY <1>3, <1>4 DEF Signal

\* A step that neither interrupts nor skips.
LEMMA SpentOther ==
    ASSUME Inv, TypeOK, Spent, UNCHANGED <<sessions, skips, outcome, on_post, program, signals>>
    PROVE  Spent'
<1>1. Interrupted' = Interrupted
  BY SameIndexes DEF Interrupted
<1>2. player \in Int
  BY DEF Inv, Skipped
<1>3. QED
  BY <1>1, <1>2, SpentKept DEF Spent, program

\* Spent holds for ever.
LEMMA SpentCorrect == Spec => []Spent
<1>1. Init => Spent
  <2> SUFFICES ASSUME Init PROVE Spent
    OBVIOUS
  <2>1. Indexes = {} /\ Interrupted = {} /\ skips = {}
    BY DEF Init, Indexes, Interrupted
  <2>2. QED
    BY <2>1, FS_EmptySet DEF Init, Spent
<1>2. Inv /\ TypeOK /\ Spent /\ [Next]_vars => Spent'
  <2> SUFFICES ASSUME Inv, TypeOK, Spent, [Next]_vars PROVE Spent'
    OBVIOUS
  <2>1. CASE Play
    BY <2>1, SpentPlay
  <2>2. CASE Player
    BY <2>2, SpentOther DEF Player, PatternOver, Finished, PlayerEnds, Report, StoreFails,
       AllButPlayer, results
  <2>3. CASE \E i \in Indexes : Listener(i)
    BY <2>3, SpentOther DEF Listener, ListenerCloses, ListenerWaits, ListenerCleans,
       ListenerSeesExit, ListenerMoves, results, history
  <2>4. CASE Signal
    BY <2>4, SpentSignal
  <2>5. CASE Skip
    BY <2>5, SpentOther DEF Skip, results
  <2>6. CASE UNCHANGED vars
    BY <2>6, SpentOther DEF vars, results, history
  <2>7. QED
    BY <2>1, <2>2, <2>3, <2>4, <2>5, <2>6 DEF Next, Gone
<1>3. QED
  BY <1>1, <1>2, Invariance, TypeCorrect, PTL DEF Spec

(***************************************************************************)
(* However signals and sessions overlap, no skip is spent twice or before  *)
(* it was sent: on a "User Interrupt" or on an OnPostBenchmark left out.   *)
(***************************************************************************)
THEOREM SkipsCorrect == Spec => []SkipsSpentOnce
<1>1. Inv /\ TypeOK /\ Spent => SkipsSpentOnce
  <2> SUFFICES ASSUME Inv, TypeOK, Spent PROVE SkipsSpentOnce
    OBVIOUS
  <2>1. {s \in skips : s[2] <= Len(sessions)} = skips
    BY DEF TypeOK, Inv, Shape
  <2>2. SkipsUpTo(Len(sessions)) = Cardinality(skips)
    BY <2>1 DEF SkipsUpTo
  <2>3. QED
    BY <2>2 DEF Spent, SkipsSpentOnce
<1>2. QED
  BY <1>1, Invariance, TypeCorrect, SpentCorrect, PTL

-----------------------------------------------------------------------------
(* The settings of the sessions.                                           *)

(***************************************************************************)
(* The sessions are those of the definition, which was accepted, and none  *)
(* is refused without a reason.                                            *)
(***************************************************************************)
Settled ==
    /\ sessions # <<>> => sessions = LoadSessions(definition) /\ Loads(definition)
    /\ \A i \in Indexes : outcome[i] = "refused" => ~StartParamsValid(sessions[i])

(***************************************************************************)
(* A Leave that is not the refusal of a Start.                             *)
(***************************************************************************)
LEMMA SettledLeave ==
    ASSUME Inv, Settled, UNCHANGED <<sessions, definition>>, current \in Indexes,
           NEW result, Leave(result),
           result = "refused" => ~StartParamsValid(sessions[current])
    PROVE  Settled'
<1>1. /\ outcome'[current] = result
      /\ \A i \in Indexes : i # current => outcome'[i] = outcome[i]
  BY LeaveFacts DEF Inv
<1>2. \A i \in Indexes : outcome'[i] = "refused" => ~StartParamsValid(sessions[i])
  BY <1>1 DEF Settled
<1>3. QED
  BY <1>2, SameIndexes DEF Settled, StartParamsValid

\* A step that leaves no session.
LEMMA SettledSame ==
    ASSUME Settled, UNCHANGED <<sessions, definition, outcome>>
    PROVE  Settled'
BY SameIndexes DEF Settled, StartParamsValid

\* Only Start refuses a session, and it has looked at the parameters.
LEMMA SettledPlay == ASSUME Inv, Settled, Play PROVE Settled'
<1>0. pc \notin {"load", "post_benchmark", "end"} => current \in Indexes
  BY DEF Inv, Shape
<1>1. CASE Load
  <2>1. definition' = definition
    BY <1>1 DEF Load
  <2>2. CASE Loads(definition) /\ SessionsValid(LoadSessions(definition))
    <3>1. sessions' = LoadSessions(definition)
      BY <1>1, <2>2 DEF Load
    <3>2. \A i \in Indexes' : outcome'[i] = "none"
      BY <1>1, <2>2, <3>1 DEF Load, Indexes
    <3>3. QED
      BY <2>1, <2>2, <3>1, <3>2 DEF Settled
  <2>3. CASE ~(Loads(definition) /\ SessionsValid(LoadSessions(definition)))
    BY <1>1, <2>1, <2>3, SettledSame DEF Load
  <2>4. QED
    BY <2>2, <2>3
<1>2. CASE PersistSession
  BY <1>0, <1>2, SettledLeave, SettledSame DEF PersistSession, At
<1>3. CASE Start
  BY <1>0, <1>3, SettledLeave, SettledSame DEF Start, At
<1>4. CASE AddQdisc
  BY <1>0, <1>4, SettledLeave, SettledSame DEF AddQdisc, At
<1>5. CASE StatsFail \/ ReportSession
  BY <1>0, <1>5, SettledLeave DEF StatsFail, ReportSession, At
<1>6. CASE Interrupt
  BY <1>0, <1>6, SettledLeave DEF Interrupt, At
<1>7. CASE NewPlayer \/ ResetQdisc \/ WarmupExit \/ Launch \/ WaitReturns \/ Close
           \/ SeeSkip \/ PostBenchmark
  BY <1>7, SettledSame DEF NewPlayer, ResetQdisc, WarmupExit, Launch, WaitReturns, Close,
     SeeSkip, PostBenchmark, results
<1>8. QED
  BY <1>1, <1>2, <1>3, <1>4, <1>5, <1>6, <1>7 DEF Play

\* Settled holds for ever.
LEMMA SettledCorrect == Spec => []Settled
<1>1. Init => Settled
  BY DEF Init, Settled, Indexes
<1>2. Inv /\ Settled /\ [Next]_vars => Settled'
  <2> SUFFICES ASSUME Inv, Settled, [Next]_vars PROVE Settled'
    OBVIOUS
  <2>1. CASE Play
    BY <2>1, SettledPlay
  <2>2. CASE ~Play
    <3>1. UNCHANGED <<sessions, definition, outcome>>
      BY <2>2 DEF Next, Gone, vars, results, Player, PatternOver, Finished, PlayerEnds, Report,
         StoreFails, AllButPlayer, Listener, ListenerCloses, ListenerWaits, ListenerCleans,
         ListenerSeesExit, ListenerMoves, Signal, Skip
    <3>2. QED
      BY <3>1, SettledSame
  <2>3. QED
    BY <2>1, <2>2
<1>3. QED
  BY <1>1, <1>2, Invariance, PTL DEF Spec

(***************************************************************************)
(* The session of a pattern.                                               *)
(***************************************************************************)
LEMMA SessionFacts ==
    ASSUME Inv, Settled, NEW i \in Indexes
    PROVE  /\ i \in DOMAIN definition.patterns
           /\ DefinitionValid(definition)
           /\ sessions[i].setting =
                  ReadWithFallbacks(Config.setting, definition.patterns[i], definition.setting)
           /\ sessions[i].Datarate = Datarate(definition.samples[i], sessions[i].setting)
           /\ sessions[i].Qosmode = 0
<1>1. Indexes # {} /\ Indexes = 1..Len(sessions) /\ Len(sessions) \in Nat
  BY DEF Inv, Shape
<1>2. sessions # <<>>
  BY <1>1
<1>3. sessions = LoadSessions(definition) /\ DefinitionValid(definition)
  BY <1>2 DEF Settled, Loads
<1>4. i \in DOMAIN definition.patterns
  BY <1>3 DEF LoadSessions, Indexes
<1>5. QED
  BY <1>3, <1>4 DEF LoadSessions

(***************************************************************************)
(* A field, level by level; only the queue size is converted.              *)
(***************************************************************************)
LEMMA ReadFacts ==
    ASSUME NEW fallback, NEW inner, NEW outer, NEW f \in Fields, f # "Queuesizepackets"
    PROVE  ReadWithFallbacks(fallback, inner, outer)[f] =
               IF inner[f] # Unset THEN inner[f]
               ELSE IF outer[f] # Unset THEN outer[f]
               ELSE fallback[f]
<1> DEFINE first == Take([g \in Fields |-> Unset], inner)
           read == Take(first, outer)
<1>1. first[f] = inner[f]
  BY DEF Take
<1>2. read[f] = IF first[f] = Unset THEN outer[f] ELSE first[f]
  BY DEF Take
<1>3. ReadWithFallbacks(fallback, inner, outer)[f] =
          IF read[f] = Unset THEN fallback[f] ELSE read[f]
  BY DEF ReadWithFallbacks
<1>4. QED
  BY <1>1, <1>2, <1>3

(***************************************************************************)
(* Whatever levels there are: each field is that of the innermost.         *)
(***************************************************************************)
THEOREM SettingsCorrect == Spec => []InnermostWins
<1>1. Inv /\ Settled => InnermostWins
  BY SessionFacts, ReadFacts DEF InnermostWins
<1>2. QED
  BY <1>1, Invariance, SettledCorrect, PTL

(***************************************************************************)
(* The numbers of a session are integers.                                  *)
(***************************************************************************)
LEMMA SessionNumbers ==
    ASSUME Inv, Settled, NEW i \in Indexes
    PROVE  /\ \A f \in Numbers \ {"Queuesizepackets"} : sessions[i].setting[f] \in Int
           /\ sessions[i].Datarate \in Int
<1>1. definition \in Definitions /\ i \in DOMAIN definition.patterns
  BY SessionFacts DEF Inv
<1>2. ASSUME NEW f \in Numbers \ {"Queuesizepackets"} PROVE sessions[i].setting[f] \in Int
  <2>1. {definition.patterns[i][f], definition.setting[f]} \subseteq Int \cup {Unset}
    BY <1>1, SettingAssumption
  <2>2. Config.setting[f] \in Int
    BY SettingAssumption
  <2>3. f \in Fields
    BY DEF Numbers
  <2>4. QED
    BY <2>1, <2>2, <2>3, SessionFacts, ReadFacts
<1>3. {"Scale", "MinRateKbits"} \subseteq Numbers \ {"Queuesizepackets"}
  BY DEF Numbers, Fields, DRPFields, TCFields
<1>4. definition.samples[i] \in Int
  BY <1>1, SettingAssumption
<1>5. Converted(definition.samples[i], sessions[i].setting) \in Int
  BY <1>2, <1>3, <1>4 DEF Converted
<1>6. Datarate(definition.samples[i], sessions[i].setting) \in Int
  BY <1>5 DEF Datarate
<1>7. QED
  BY <1>2, <1>6, SessionFacts

(***************************************************************************)
(* A pattern whose own marks do not fit together is refused when it is     *)
(* loaded and not when it is to be played.                                 *)
(***************************************************************************)
THEOREM RefusedCorrect == Spec => []RefusedLate
<1>1. ASSUME Inv, Settled, NEW i \in Indexes, outcome[i] = "refused"
      PROVE  \/ sessions[i].Datarate < 100
             \/ sessions[i].setting["Extralatency"] >= 10000
             \/ sessions[i].setting["Markfree"] > 65535
             \/ sessions[i].setting["Markfull"] > 65535
             \/ /\ sessions[i].setting["Markfree"] > sessions[i].setting["Markfull"]
                /\ ~(IsSet(definition.patterns[i], "Markfree")
                     /\ IsSet(definition.patterns[i], "Markfull"))
  <2>1. /\ {"Extralatency", "Markfree", "Markfull"} \subseteq Numbers \ {"Queuesizepackets"}
        /\ {"Extralatency", "Markfree", "Markfull"} \subseteq Fields
    BY DEF Numbers, Fields, TCFields
  <2>2. /\ sessions[i].setting["Extralatency"] \in Int
        /\ sessions[i].setting["Markfree"] \in Int
        /\ sessions[i].setting["Markfull"] \in Int
        /\ sessions[i].Datarate \in Int
    BY <1>1, <2>1, SessionNumbers
  <2>3. ~StartParamsValid(sessions[i]) /\ sessions[i].Qosmode = 0
    BY <1>1, SessionFacts DEF Settled
  <2>4. \/ sessions[i].Datarate < 100
        \/ sessions[i].setting["Extralatency"] >= 10000
        \/ sessions[i].setting["Markfree"] > 65535
        \/ sessions[i].setting["Markfull"] > 65535
        \/ sessions[i].setting["Markfree"] > sessions[i].setting["Markfull"]
    BY <2>2, <2>3 DEF StartParamsValid
  <2>5. ASSUME IsSet(definition.patterns[i], "Markfree"),
               IsSet(definition.patterns[i], "Markfull")
        PROVE  ~(sessions[i].setting["Markfree"] > sessions[i].setting["Markfull"])
    <3>1. TCSettingValid(definition.patterns[i])
      BY <1>1, SessionFacts DEF DefinitionValid, SettingValid
    <3>2. /\ sessions[i].setting["Markfree"] = definition.patterns[i]["Markfree"]
          /\ sessions[i].setting["Markfull"] = definition.patterns[i]["Markfull"]
      BY <1>1, <2>1, <2>5, SessionFacts, ReadFacts DEF IsSet
    <3>3. QED
      BY <2>5, <3>1, <3>2 DEF TCSettingValid
  <2>6. QED
    BY <2>4, <2>5
<1>2. Inv /\ Settled => RefusedLate
  BY <1>1 DEF RefusedLate
<1>3. QED
  BY <1>2, Invariance, SettledCorrect, PTL

=============================================================================

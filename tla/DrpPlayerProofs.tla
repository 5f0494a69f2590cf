--------------------------- MODULE DrpPlayerProofs ---------------------------
(***************************************************************************)
(* What DrpPlayer promises, for every session, any number of signals and   *)
(* any number of things going wrong.  Inv joins the four invariants of the *)
(* player's runs with what each of them needs to be inductive: what main   *)
(* has launched, created and closed by each of its places.                 *)
(***************************************************************************)
EXTENDS DrpPlayer, TLAPS

\* Where main stands before it launches the measure session.
BeforeMeasure == {"start", "new_tc", "init_tc", "warmup", "launch_ms"}

\* Only main launches, and each goroutine once.
Launched ==
    /\ pc["main"] \in BeforeMeasure => ms = "off"
    /\ pc["main"] \in BeforeMeasure \cup {"launch_loop"} => loop = "off"

\* main has a TrafficControl from new_tc on.
Created == pc["main"] \notin {"start", "new_tc"} => has_tc

\* close_channel does both under its mutex.
ClosedOnce == exit_closed = shutting_down

\* What Init has achieved, whoever closes TrafficControl in between.
Rooted ==
    /\ step = "add" => qdisc = "default"
    /\ step = "failed" => ~valid \/ refused

\* What main's own clean-up has achieved.
MainClosed ==
    /\ pc["main"] \in {"close_file", "end", "close_db"} => qdisc = "default"
    /\ pc["main"] \in {"end", "close_db"} => control_file # "open"

\* How the process may have ended.
Endings ==
    /\ process = "ended" => pc["main"] = "close_db"
    /\ process = "exited" => step = "failed"

Inv ==
    /\ TypeOK
    /\ WaitGroupCounts
    /\ MainCleansUpLast
    /\ OnlyEarlySignalPanics
    /\ Launched /\ Created /\ ClosedOnce /\ Rooted /\ MainClosed /\ Endings

-----------------------------------------------------------------------------

(***************************************************************************)
(* main() starts with nothing launched and nothing created.                *)
(***************************************************************************)
LEMMA InitInv == Init => Inv
<1> SUFFICES ASSUME Init PROVE Inv
  OBVIOUS
<1>1. pc["main"] = "start" /\ pc["handler"] = "select" /\ pc["listener"] = "off"
      /\ DOMAIN pc = {"main", "handler", "listener"}
  BY DEF Init
<1>2. session \in [looping : BOOLEAN, nomeasure : BOOLEAN, samples : Nat \ {0}]
  BY PlayerAssumption DEF Init
<1>3. TypeOK
  <2> TC!Init
    BY DEF Init
  <2>1. TC!TypeOK
    BY DEF TC!Init, TC!TypeOK, TC!Steps, TC!At, TC!Commands
  <2>2. played \in 0..session.samples
    BY <1>2 DEF Init
  <2>3. faults \in 0..MaxFaults /\ signals \in 0..MaxSignals
    BY PlayerAssumption DEF Init
  <2>4. {has_tc, exit_closed, shutting_down, has_ended, reported} \subseteq BOOLEAN
    BY DEF Init
  <2>5. /\ session \in Sessions
        /\ process = "running" /\ loop = "off" /\ ms = "off" /\ offer = "none" /\ wg = 0
    BY DEF Init
  <2>6. QED
    BY <1>1, <2>1, <2>2, <2>3, <2>4, <2>5 DEF TypeOK, MainPlaces, HandlerPlaces,
       ListenerPlaces, CleaningUp
<1>4. WaitGroupCounts /\ MainCleansUpLast /\ OnlyEarlySignalPanics
  BY <1>1 DEF Init, WaitGroupCounts, MainCleansUpLast, OnlyEarlySignalPanics, LoopAlive,
     MeasureAlive
<1>5. Launched /\ Created /\ ClosedOnce /\ Rooted /\ MainClosed /\ Endings
  BY <1>1 DEF Init, TC!Init, Launched, BeforeMeasure, Created, ClosedOnce, Rooted, MainClosed,
     Endings
<1>6. QED
  BY <1>3, <1>4, <1>5 DEF Inv

-----------------------------------------------------------------------------

(***************************************************************************)
(* main's Start: the listener, TrafficControl, the warm-up, the launches.  *)
(***************************************************************************)
LEMMA StartInv == Inv /\ Start => Inv'
<1> SUFFICES ASSUME Inv, Start PROVE Inv'
  OBVIOUS
<1> USE DEF Inv, TypeOK, TC!TypeOK, TC!Steps, TC!At, TC!Commands, MainPlaces, HandlerPlaces,
            ListenerPlaces, CleaningUp, WaitGroupCounts, MainCleansUpLast,
            OnlyEarlySignalPanics, Launched, BeforeMeasure, Created, ClosedOnce, Rooted,
            MainClosed, Endings, LoopAlive, MeasureAlive, Running, Moves, tcVars, kernel,
            tcProgram, shared, environment, threads
<1>1. CASE StartListener
  BY <1>1 DEF StartListener
<1>2. CASE NewTC
  BY <1>2 DEF NewTC
<1>3. CASE InitTC
  <2> USE <1>3 DEF InitTC, TC!Goto, TC!kernel
  <2>1. CASE TC!InitMarking
    BY <2>1 DEF TC!InitMarking, TC!ResetECTMarking
  <2>2. CASE TC!InitCreate
    BY <2>2 DEF TC!InitCreate, TC!AddRule
  <2>3. CASE TC!InitRefused
    BY <2>3 DEF TC!InitRefused
  <2>4. CASE TC!InitValidate
    BY <2>4 DEF TC!InitValidate
  <2>5. CASE TC!InitReset
    BY <2>5 DEF TC!InitReset, TC!Reset
  <2>6. CASE TC!InitAdd
    BY <2>6 DEF TC!InitAdd, TC!AddQdisc
  <2>7. CASE TC!InitOpen
    BY <2>7 DEF TC!InitOpen
  <2>8. QED
    BY <2>1, <2>2, <2>3, <2>4, <2>5, <2>6, <2>7 DEF TC!InitStep
<1>4. CASE StartFailed
  BY <1>4 DEF StartFailed
<1>5. CASE StartWarmup
  BY <1>5 DEF StartWarmup
<1>6. CASE WarmupOver
  BY <1>6 DEF WarmupOver
<1>7. CASE WarmupExit
  <2> /\ Moves("main", "warmup", "wait")
      /\ UNCHANGED <<tcVars, process, loop, ms, offer, shared, environment>>
    BY <1>7 DEF WarmupExit
  <2> QED
    OBVIOUS
<1>8. CASE LaunchMeasure
  <2>1. ms = "off" /\ loop = "off" /\ wg = 0
    BY <1>8 DEF LaunchMeasure
  <2>2. wg' = 1 /\ ms' = "run" /\ loop' = "off"
    BY <1>8, <2>1 DEF LaunchMeasure
  <2>3. TypeOK'
    BY <1>8, <2>2 DEF LaunchMeasure
  <2>4. WaitGroupCounts' /\ MainCleansUpLast'
    BY <1>8, <2>2 DEF LaunchMeasure
  <2>5. QED
    BY <1>8, <2>1, <2>2, <2>3, <2>4 DEF LaunchMeasure
<1>9. CASE LaunchLoop
  BY <1>9 DEF LaunchLoop
<1>10. QED
  BY <1>1, <1>2, <1>3, <1>4, <1>5, <1>6, <1>7, <1>8, <1>9 DEF Start

(***************************************************************************)
(* Exit, Wait and exit_clean in each of the three goroutines that share    *)
(* them, up to the end of the process.                                     *)
(***************************************************************************)
LEMMA ExitInv ==
    ASSUME Inv, NEW t \in {"main", "handler", "listener"}
    PROVE  /\ \A from \in {"exit", "exit_nowait"}, to \in {"wait", "done"} :
                t # "main" /\ ExitNoWait(t, from, to) => Inv'
           /\ Wait(t) => Inv'
<1> USE DEF Inv, TypeOK, TC!TypeOK, TC!Steps, TC!At, TC!Commands, MainPlaces, HandlerPlaces,
            ListenerPlaces, CleaningUp, WaitGroupCounts, MainCleansUpLast,
            OnlyEarlySignalPanics, Launched, BeforeMeasure, Created, ClosedOnce, Rooted,
            MainClosed, Endings, LoopAlive, MeasureAlive, Running, Moves, tcVars, kernel,
            tcProgram, shared, environment, threads
<1>1. ASSUME NEW from \in {"exit", "exit_nowait"}, NEW to \in {"wait", "done"},
             t # "main", ExitNoWait(t, from, to)
      PROVE  Inv'
  <2>1. pc["main"] = pc["main"]' /\ UNCHANGED <<tcVars, loop, ms, has_tc, wg>>
    BY <1>1 DEF ExitNoWait
  <2>2. exit_closed' = shutting_down' /\ {exit_closed', shutting_down'} \subseteq BOOLEAN
        /\ process' = process
    BY <1>1 DEF ExitNoWait, CloseChannel
  <2>3. TypeOK'
    BY <1>1, <2>1, <2>2 DEF ExitNoWait
  <2>4. QED
    BY <2>1, <2>2, <2>3
<1>2. CASE WaitReturns(t)
  BY <1>2 DEF WaitReturns
<1>3. CASE CloseKernel(t)
  BY <1>3 DEF CloseKernel, TC!CloseKernel
<1>4. CASE CloseFile(t)
  BY <1>4 DEF CloseFile, TC!CloseFile
<1>5. QED
  BY <1>1, <1>2, <1>3, <1>4 DEF Wait

(***************************************************************************)
(* The change loop, from its first tick to Wg.Done.                        *)
(***************************************************************************)
LEMMA LoopInv == Inv /\ (Loop) => Inv'
<1> SUFFICES ASSUME Inv, Loop PROVE Inv'
  OBVIOUS
<1> USE DEF Inv, TypeOK, TC!TypeOK, TC!Steps, TC!At, TC!Commands, MainPlaces, HandlerPlaces,
            ListenerPlaces, CleaningUp, WaitGroupCounts, MainCleansUpLast,
            OnlyEarlySignalPanics, Launched, BeforeMeasure, Created, ClosedOnce, Rooted,
            MainClosed, Endings, LoopAlive, MeasureAlive, Running, Moves, tcVars, kernel,
            tcProgram, shared, environment, threads
<1>1. CASE LoopExit
  <2> /\ Running /\ loop = "run" /\ loop' = "done" /\ wg' = wg - 1
      /\ UNCHANGED <<tcVars, process, pc, ms, offer, has_tc, exit_closed, shutting_down,
                     has_ended, played, reported, environment>>
    BY <1>1 DEF LoopExit, LoopDone
  <2> QED
    OBVIOUS
<1>2. CASE LoopTick
  <2>1. session.samples \in Nat
    BY PlayerAssumption
  <2>2. played' \in 0..session.samples
    BY <1>2, <2>1 DEF LoopTick, PatternOver
  <2>3. QED
    BY <1>2, <2>2 DEF LoopTick
<1>3. CASE LoopTickFails
  BY <1>3, PlayerAssumption DEF LoopTickFails, Fault
<1>4. CASE LoopOver
  BY <1>4 DEF LoopOver
<1>5. CASE LoopFinished
  BY <1>5 DEF LoopFinished
<1>6. CASE LoopReturns
  BY <1>6 DEF LoopReturns, LoopDone
<1>7. CASE LoopReports
  BY <1>7 DEF LoopReports
<1>8. CASE LoopGivesUp
  BY <1>8 DEF LoopGivesUp
<1>9. QED
  BY <1>1, <1>2, <1>3, <1>4, <1>5, <1>6, <1>7, <1>8 DEF Loop, LoopPlays

(***************************************************************************)
(* The measure session, as the player sees it.                             *)
(***************************************************************************)
LEMMA MeasureInv == Inv /\ (Measure) => Inv'
<1> SUFFICES ASSUME Inv, Measure PROVE Inv'
  OBVIOUS
<1> USE DEF Inv, TypeOK, TC!TypeOK, TC!Steps, TC!At, TC!Commands, MainPlaces, HandlerPlaces,
            ListenerPlaces, CleaningUp, WaitGroupCounts, MainCleansUpLast,
            OnlyEarlySignalPanics, Launched, BeforeMeasure, Created, ClosedOnce, Rooted,
            MainClosed, Endings, LoopAlive, MeasureAlive, Running, Moves, tcVars, kernel,
            tcProgram, shared, environment, threads
<1>1. CASE \E kind \in Faults : MeasureFails(kind)
  BY <1>1, PlayerAssumption DEF MeasureFails, Fault
<1>2. CASE MeasureReports
  BY <1>2 DEF MeasureReports
<1>3. CASE MeasureGivesUp
  BY <1>3 DEF MeasureGivesUp
<1>4. CASE MeasureEnds
  <2> /\ Running /\ ms = "run" /\ ms' = "done" /\ wg' = wg - 1
      /\ UNCHANGED <<tcVars, process, pc, loop, offer, has_tc, exit_closed, shutting_down,
                     has_ended, played, reported, environment>>
    BY <1>4 DEF MeasureEnds
  <2> QED
    OBVIOUS
<1>5. QED
  BY <1>1, <1>2, <1>3, <1>4 DEF Measure

(***************************************************************************)
(* What is left: the end of main, the signals and the two selects that     *)
(* close or see the exit channel.                                          *)
(***************************************************************************)
LEMMA EndInv == Inv /\ (EndPlayer \/ EndProcess) => Inv'
<1> SUFFICES ASSUME Inv, EndPlayer \/ EndProcess PROVE Inv'
  OBVIOUS
<1> USE DEF Inv, TypeOK, TC!TypeOK, TC!Steps, TC!At, TC!Commands, MainPlaces, HandlerPlaces,
            ListenerPlaces, CleaningUp, WaitGroupCounts, MainCleansUpLast,
            OnlyEarlySignalPanics, Launched, BeforeMeasure, Created, ClosedOnce, Rooted,
            MainClosed, Endings, LoopAlive, MeasureAlive, Running, Moves, tcVars, kernel,
            tcProgram, shared, environment, threads
<1>1. CASE EndPlayer
  BY <1>1 DEF EndPlayer
<1>2. CASE EndProcess
  BY <1>2 DEF EndProcess
<1>3. QED
  BY <1>1, <1>2

\* The signal, and what ends the handler and the listener.
LEMMA SignalInv == Inv /\ (Signal \/ HandlerEnds \/ ListenerSeesExit) => Inv'
<1> SUFFICES ASSUME Inv, Signal \/ HandlerEnds \/ ListenerSeesExit PROVE Inv'
  OBVIOUS
<1> USE DEF Inv, TypeOK, TC!TypeOK, TC!Steps, TC!At, TC!Commands, MainPlaces, HandlerPlaces,
            ListenerPlaces, CleaningUp, WaitGroupCounts, MainCleansUpLast,
            OnlyEarlySignalPanics, Launched, BeforeMeasure, Created, ClosedOnce, Rooted,
            MainClosed, Endings, LoopAlive, MeasureAlive, Running, Moves, tcVars, kernel,
            tcProgram, shared, environment, threads
<1>1. CASE Signal
  BY <1>1, PlayerAssumption DEF Signal
<1>2. CASE HandlerEnds
  <2> /\ Moves("handler", "select", "done")
      /\ UNCHANGED <<tcVars, process, loop, ms, offer, shared, environment>>
    BY <1>2 DEF HandlerEnds
  <2> QED
    OBVIOUS
<1>3. CASE ListenerSeesExit
  <2> /\ Moves("listener", "select", "done")
      /\ UNCHANGED <<tcVars, process, loop, ms, offer, shared, environment>>
    BY <1>3 DEF ListenerSeesExit
  <2> QED
    OBVIOUS
<1>4. QED
  BY <1>1, <1>2, <1>3

\* A step in which nothing changes.
LEMMA StutterInv == Inv /\ UNCHANGED vars => Inv'
BY DEF vars, Inv, TypeOK, TC!TypeOK, TC!At, WaitGroupCounts, MainCleansUpLast,
       OnlyEarlySignalPanics, Launched, Created, ClosedOnce, Rooted, MainClosed, Endings,
       LoopAlive, MeasureAlive, tcVars, kernel, tcProgram, shared, environment, threads

(***************************************************************************)
(* Inv is inductive.                                                       *)
(***************************************************************************)
LEMMA Invariance == Spec => []Inv
<1>1. Inv /\ [Next]_vars => Inv'
  <2> SUFFICES ASSUME Inv, [Next]_vars PROVE Inv'
    OBVIOUS
  <2>1. CASE Main
    BY <2>1, StartInv, ExitInv, EndInv DEF Main
  <2>2. CASE Handler
    BY <2>2, ExitInv, SignalInv DEF Handler, HandlerExit
  <2>3. CASE Signal
    BY <2>3, SignalInv
  <2>4. CASE Loop
    BY <2>4, LoopInv
  <2>5. CASE Measure
    BY <2>5, MeasureInv
  <2>6. CASE Listener
    BY <2>6, ExitInv, SignalInv DEF Listener, ListenerExit, ListenerExitNoWait
  <2>7. CASE Gone \/ UNCHANGED vars
    BY <2>7, StutterInv DEF Gone
  <2>8. QED
    BY <2>1, <2>2, <2>3, <2>4, <2>5, <2>6, <2>7 DEF Next
<1>2. QED
  BY InitInv, <1>1, PTL DEF Spec

-----------------------------------------------------------------------------

(***************************************************************************)
(* The types: the WaitGroup never goes below zero, and the control file and *)
(* the marking keep within what TrafficControl allows.                     *)
(***************************************************************************)
THEOREM TypeCorrect == Spec => []TypeOK
<1>1. Inv => TypeOK
  BY DEF Inv
<1>2. QED
  BY Invariance, <1>1, PTL

(***************************************************************************)
(* The WaitGroup counts the goroutines that Wait has to wait for.          *)
(***************************************************************************)
THEOREM WaitGroupCorrect == Spec => []WaitGroupCounts
<1>1. Inv => WaitGroupCounts
  BY DEF Inv
<1>2. QED
  BY Invariance, <1>1, PTL

(***************************************************************************)
(* main cleans up when change loop and measure session are gone.           *)
(***************************************************************************)
THEOREM CleanUpCorrect == Spec => []MainCleansUpLast
<1>1. Inv => MainCleansUpLast
  BY DEF Inv
<1>2. QED
  BY Invariance, <1>1, PTL

(***************************************************************************)
(* drplay that ends leaves the default qdisc and no open control file, and *)
(* a failed Start leaves another qdisc only for a reason of Init's own.    *)
(***************************************************************************)
THEOREM EndCorrect == Spec => []EndsClean
<1>1. Inv => EndsClean
  BY DEF Inv, EndsClean, Rooted, MainClosed, Endings
<1>2. QED
  BY Invariance, <1>1, PTL

(***************************************************************************)
(* The exit channel is closed once, however many goroutines want to; the   *)
(* only panic is that of an Exit before there is a TrafficControl.         *)
(***************************************************************************)
THEOREM PanicCorrect == Spec => []OnlyEarlySignalPanics
<1>1. Inv => OnlyEarlySignalPanics
  BY DEF Inv
<1>2. QED
  BY Invariance, <1>1, PTL

=============================================================================

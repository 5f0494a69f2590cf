------------------------------ MODULE DrpPlayer ------------------------------
(***************************************************************************)
(* One run of drplay: the goroutines of cmd/drplay/main.go and             *)
(* pkg/drp_player/player.go, and the channels, the mutex and the WaitGroup *)
(* they meet at.                                                           *)
(*                                                                         *)
(*   main      main(): Start, Wait and the end of the process              *)
(*   handler   the signal handler of exithandler(): Exit on one signal     *)
(*   listener  the exit listener of Start: one select, one event           *)
(*   loop      TrafficControl.LaunchChangeLoop                             *)
(*   ms        MeasureSession.Start and the goroutines below it, seen from *)
(*             outside: they report errors and end after the exit signal   *)
(*                                                                         *)
(* All channels are unbuffered: a send and its receive are one step.  The  *)
(* kernel and TrafficControl are those of the module TrafficControl.       *)
(***************************************************************************)
EXTENDS Naturals

CONSTANTS
    Sessions,    \* the sessions that may be played: [looping, nomeasure, samples]
    Faults,      \* what may go wrong: "write", "info", "warn", "fatal", "persist"
    MaxFaults,   \* bound: how often something goes wrong in a run
    MaxSignals   \* bound: how many signals the user sends

ASSUME PlayerAssumption ==
    /\ Sessions \subseteq [looping : BOOLEAN, nomeasure : BOOLEAN, samples : Nat \ {0}]
    /\ Faults \subseteq {"write", "info", "warn", "fatal", "persist"}
    /\ MaxFaults \in Nat
    /\ MaxSignals \in Nat

VARIABLES
    premark, qdisc, control_file, nft, step, premarking, valid, refused,
    session,        \* the session being played
    process,        \* is the process running, and if not, how did it end
    pc,             \* where main, handler and listener stand
    loop,           \* where LaunchChangeLoop stands
    ms,             \* where the measure session stands
    offer,          \* the level of the error ms is about to report
    has_tc,         \* s.tc # nil
    exit_closed,    \* On_extern_exit_c is closed
    shutting_down,  \* s.is_shutting_down
    has_ended,      \* player_has_ended is closed
    wg,             \* the counter of r.Wg
    played,         \* how many samples of a one-shot pattern have been played
    reported,       \* has the listener taken an error of the measure session
    faults,         \* how much has gone wrong so far
    signals         \* how many signals have been sent

TC == INSTANCE TrafficControl

kernel == <<premark, qdisc>>
tcProgram == <<control_file, nft, step, premarking, valid, refused>>
tcVars == <<kernel, tcProgram>>
threads == <<process, pc, loop, ms, offer>>
shared == <<has_tc, exit_closed, shutting_down, has_ended, wg, played, reported>>
environment == <<session, faults, signals>>
vars == <<tcVars, threads, shared, environment>>

Running == process = "running"

\* main, handler or listener moves from one place to the next.
Moves(t, from, to) ==
    /\ Running
    /\ pc[t] = from
    /\ pc' = [pc EXCEPT ![t] = to]

Fault(kind) ==
    /\ kind \in Faults
    /\ faults < MaxFaults
    /\ faults' = faults + 1

-----------------------------------------------------------------------------

\* main() has created the player and the signal handler.
Init ==
    /\ TC!Init
    /\ session \in Sessions
    /\ process = "running"
    /\ pc = [t \in {"main", "handler", "listener"} |->
                CASE t = "main" -> "start" [] t = "handler" -> "select" [] t = "listener" -> "off"]
    /\ loop = "off"
    /\ ms = "off"
    /\ offer = "none"
    /\ has_tc = FALSE
    /\ exit_closed = FALSE
    /\ shutting_down = FALSE
    /\ has_ended = FALSE
    /\ wg = 0
    /\ played = 0
    /\ reported = FALSE
    /\ faults = 0
    /\ signals = 0

-----------------------------------------------------------------------------
(* main: Start                                                             *)

\* Start launches the exit listener.
StartListener ==
    /\ Running
    /\ pc["main"] = "start"
    /\ pc' = [pc EXCEPT !["main"] = "new_tc", !["listener"] = "select"]
    /\ UNCHANGED <<tcVars, process, loop, ms, offer, shared, environment>>

\* initTC creates the TrafficControl ...
NewTC ==
    /\ Moves("main", "new_tc", "init_tc")
    /\ has_tc' = TRUE
    /\ UNCHANGED <<tcVars, process, loop, ms, offer, exit_closed, shutting_down,
                   has_ended, wg, played, reported, environment>>

\* ... and calls its Init, command by command.
InitTC ==
    /\ Running
    /\ pc["main"] = "init_tc"
    /\ TC!InitStep
    /\ UNCHANGED <<threads, shared, environment>>

\* initTC failed: main logs the error and calls os.Exit(-1).
StartFailed ==
    /\ Running
    /\ pc["main"] = "init_tc"
    /\ TC!At("failed")
    /\ process' = "exited"
    /\ UNCHANGED <<tcVars, pc, loop, ms, offer, shared, environment>>

\* Init returned: the link gets its warm-up rate, the warm-up time runs.
StartWarmup ==
    /\ Moves("main", "init_tc", "warmup")
    /\ TC!At("ready")
    /\ UNCHANGED <<tcVars, process, loop, ms, offer, shared, environment>>

WarmupOver ==
    /\ Moves("main", "warmup", IF session.nomeasure THEN "launch_loop" ELSE "launch_ms")
    /\ UNCHANGED <<tcVars, process, loop, ms, offer, shared, environment>>

\* The exit signal during the warm-up: Start returns nil.
WarmupExit ==
    /\ Moves("main", "warmup", "wait")
    /\ exit_closed
    /\ UNCHANGED <<tcVars, process, loop, ms, offer, shared, environment>>

LaunchMeasure ==
    /\ Moves("main", "launch_ms", "launch_loop")
    /\ wg' = wg + 1
    /\ ms' = "run"
    /\ UNCHANGED <<tcVars, process, loop, offer, has_tc, exit_closed, shutting_down,
                   has_ended, played, reported, environment>>

\* Slip (MainCleansUpLast): Wg.Add is left to the goroutine.
LaunchLoopUncounted ==
    /\ Moves("main", "launch_loop", "wait")
    /\ loop' = "run"
    /\ UNCHANGED <<tcVars, process, ms, offer, shared, environment>>

LaunchLoop ==
    /\ Moves("main", "launch_loop", "wait")
    /\ wg' = wg + 1
    /\ loop' = "run"
    /\ UNCHANGED <<tcVars, process, ms, offer, has_tc, exit_closed, shutting_down,
                   has_ended, played, reported, environment>>

-----------------------------------------------------------------------------
(* Exit, Wait and exit_clean, which main, handler and listener share       *)

\* Slip (OnlyEarlySignalPanics): close_channel does not ask is_shutting_down.
CloseChannelAgain ==
    /\ process' = IF exit_closed THEN "panicked" ELSE process
    /\ exit_closed' = TRUE
    /\ shutting_down' = TRUE

\* close_channel, under its mutex.  Closing a closed channel panics.
CloseChannel ==
    IF shutting_down
    THEN UNCHANGED <<exit_closed, shutting_down, process>>
    ELSE /\ process' = IF exit_closed THEN "panicked" ELSE process
         /\ exit_closed' = TRUE
         /\ shutting_down' = TRUE

ExitNoWait(t, from, to) ==
    /\ Moves(t, from, to)
    /\ CloseChannel
    /\ UNCHANGED <<tcVars, loop, ms, offer, has_tc, has_ended, wg, played, reported, environment>>

\* s.r.Wg.Wait() returns.
WaitReturns(t) ==
    /\ Moves(t, "wait", "close_kernel")
    /\ wg = 0
    /\ UNCHANGED <<tcVars, process, loop, ms, offer, shared, environment>>

\* Slip (EndsClean): whoever is not the first to exit leaves the cleaning up.
CloseKernelOnce(t) ==
    /\ Moves(t, "close_kernel", "close_file")
    /\ IF has_tc /\ ~shutting_down
       THEN TC!CloseKernel
       ELSE UNCHANGED kernel
    /\ UNCHANGED <<process, tcProgram, loop, ms, offer, shared, environment>>

\* s.tc.Close() dereferences s.tc.
CloseKernel(t) ==
    /\ Moves(t, "close_kernel", "close_file")
    /\ IF has_tc
       THEN TC!CloseKernel /\ UNCHANGED process
       ELSE process' = "panicked" /\ UNCHANGED kernel
    /\ UNCHANGED <<tcProgram, loop, ms, offer, shared, environment>>

\* The Commit that ends exit_clean is Persistence's.
CloseFile(t) ==
    /\ Moves(t, "close_file", IF t = "main" THEN "end" ELSE "done")
    /\ TC!CloseFile
    /\ UNCHANGED <<kernel, nft, step, premarking, valid, refused,
                   process, loop, ms, offer, shared, environment>>

\* close(player_has_ended), then the database is closed.
EndPlayer ==
    /\ Moves("main", "end", "close_db")
    /\ has_ended' = TRUE
    /\ UNCHANGED <<tcVars, process, loop, ms, offer, has_tc, exit_closed, shutting_down,
                   wg, played, reported, environment>>

\* main returns and takes every goroutine with it.
EndProcess ==
    /\ Running
    /\ pc["main"] = "close_db"
    /\ process' = "ended"
    /\ UNCHANGED <<tcVars, pc, loop, ms, offer, shared, environment>>

-----------------------------------------------------------------------------
(* handler                                                                 *)

\* A signal reaches the handler's select.  One that comes later is lost:
\* the channel has no buffer and nobody receives from it any more.
Signal ==
    /\ Running
    /\ signals < MaxSignals
    /\ signals' = signals + 1
    /\ pc' = IF pc["handler"] = "select" THEN [pc EXCEPT !["handler"] = "exit"] ELSE pc
    /\ UNCHANGED <<tcVars, process, loop, ms, offer, shared, session, faults>>

HandlerExit == ExitNoWait("handler", "exit", "wait")

HandlerEnds ==
    /\ Moves("handler", "select", "done")
    /\ has_ended
    /\ UNCHANGED <<tcVars, process, loop, ms, offer, shared, environment>>

-----------------------------------------------------------------------------
(* loop                                                                    *)

\* Slip (TypeOK): Wg.Done is called here and deferred.
LoopDoneTwice ==
    /\ wg' = wg - 2
    /\ loop' = "done"

\* Slip (WaitGroupCounts): a return without Wg.Done.
LoopDoneForgotten ==
    /\ wg' = wg
    /\ loop' = "done"

\* Wg.Done and return.
LoopDone ==
    /\ wg' = wg - 1
    /\ loop' = "done"

LoopExit ==
    /\ Running
    /\ loop = "run"
    /\ exit_closed
    /\ LoopDone
    /\ UNCHANGED <<tcVars, process, pc, ms, offer, has_tc, exit_closed, shutting_down,
                   has_ended, played, reported, environment>>

\* The iterator of a one-shot pattern has run off its end (DrpIterator).
PatternOver == ~session.looping /\ played = session.samples

\* A tick: the next value is written to the control file, the qdisc's own.
LoopTick ==
    /\ Running
    /\ loop = "run"
    /\ ~PatternOver
    /\ TC!CanWrite /\ qdisc = "janz"
    /\ played' = IF session.looping THEN played ELSE played + 1
    /\ UNCHANGED <<tcVars, threads, has_tc, exit_closed, shutting_down, has_ended,
                   wg, reported, environment>>

\* The write fails, because of a fault or because TrafficControl was closed.
LoopTickFails ==
    /\ Running
    /\ loop = "run"
    /\ ~PatternOver
    /\ \/ ~(TC!CanWrite /\ qdisc = "janz") /\ UNCHANGED faults
       \/ Fault("write")
    /\ loop' = "report"
    /\ UNCHANGED <<tcVars, process, pc, ms, offer, shared, session, signals>>

\* IterableStopError: the loop wants to send on Application_has_finished.
LoopOver ==
    /\ Running
    /\ loop = "run"
    /\ PatternOver
    /\ loop' = "finish"
    /\ UNCHANGED <<tcVars, process, pc, ms, offer, shared, environment>>

\* Slip (OneShotEnds): the listener only logs the message.
LoopFinishedLogged ==
    /\ Moves("listener", "select", "done")
    /\ loop = "finish"
    /\ loop' = "return"
    /\ UNCHANGED <<tcVars, process, ms, offer, shared, environment>>

\* The listener takes the message and will Exit; the loop goes on.
LoopFinished ==
    /\ Moves("listener", "select", "exit")
    /\ loop = "finish"
    /\ loop' = "return"
    /\ UNCHANGED <<tcVars, process, ms, offer, shared, environment>>

LoopReturns ==
    /\ Running
    /\ loop = "return"
    /\ LoopDone
    /\ UNCHANGED <<tcVars, process, pc, ms, offer, has_tc, exit_closed, shutting_down,
                   has_ended, played, reported, environment>>

\* ReportFatal: the listener takes the error ...
LoopReports ==
    /\ Moves("listener", "select", "exit_nowait")
    /\ loop = "report"
    /\ loop' = "return"
    /\ UNCHANGED <<tcVars, process, ms, offer, shared, environment>>

\* Slip (SignalEndsProcess): the report has no timeout.
LoopNeverGivesUp ==
    /\ Running
    /\ loop = "report"
    /\ FALSE
    /\ UNCHANGED vars

\* ... or nobody does for 100 ms and it is logged and dropped.
LoopGivesUp ==
    /\ Running
    /\ loop = "report"
    /\ pc["listener"] # "select"
    /\ loop' = "return"
    /\ UNCHANGED <<tcVars, process, pc, ms, offer, shared, environment>>

-----------------------------------------------------------------------------
(* ms                                                                      *)

\* Something goes wrong in the measure session: poll and the aggregation
\* report with a timeout, the persistor sends without one.
MeasureFails(kind) ==
    /\ Running
    /\ ms = "run"
    /\ kind # "write"
    /\ Fault(kind)
    /\ ms' = IF kind = "persist" THEN "send" ELSE "report"
    /\ offer' = IF kind = "persist" THEN "fatal" ELSE kind
    /\ UNCHANGED <<tcVars, process, pc, loop, shared, session, signals>>

\* The listener takes the error.  Only a fatal one makes it exit.
MeasureReports ==
    /\ ms \in {"report", "send"}
    /\ Moves("listener", "select", IF offer = "fatal" THEN "exit_nowait" ELSE "done")
    /\ ms' = "run"
    /\ offer' = "none"
    /\ reported' = TRUE
    /\ UNCHANGED <<tcVars, process, loop, has_tc, exit_closed, shutting_down, has_ended,
                   wg, played, environment>>

MeasureGivesUp ==
    /\ Running
    /\ ms = "report"
    /\ pc["listener"] # "select"
    /\ ms' = "run"
    /\ offer' = "none"
    /\ UNCHANGED <<tcVars, process, pc, loop, shared, environment>>

\* After the exit signal all its goroutines return; Start calls Wg.Done.
MeasureEnds ==
    /\ Running
    /\ ms = "run"
    /\ exit_closed
    /\ ms' = "done"
    /\ wg' = wg - 1
    /\ UNCHANGED <<tcVars, process, pc, loop, offer, has_tc, exit_closed, shutting_down,
                   has_ended, played, reported, environment>>

-----------------------------------------------------------------------------
(* listener                                                                *)

\* Application_has_finished: Exit, which waits and cleans up.
ListenerExit == ExitNoWait("listener", "exit", "wait")

\* A fatal error: ExitNoWait.
ListenerExitNoWait == ExitNoWait("listener", "exit_nowait", "done")

\* The exit signal of somebody else: nothing left to do.
ListenerSeesExit ==
    /\ Moves("listener", "select", "done")
    /\ exit_closed
    /\ UNCHANGED <<tcVars, process, loop, ms, offer, shared, environment>>

-----------------------------------------------------------------------------

Start ==
    \/ StartListener
    \/ NewTC
    \/ InitTC
    \/ StartFailed
    \/ StartWarmup
    \/ WarmupOver
    \/ WarmupExit
    \/ LaunchMeasure
    \/ LaunchLoop

Wait(t) ==
    \/ WaitReturns(t)
    \/ CloseKernel(t)
    \/ CloseFile(t)

Main == Start \/ Wait("main") \/ EndPlayer \/ EndProcess

Handler == HandlerExit \/ Wait("handler") \/ HandlerEnds

\* What the loop does by itself on a tick.
LoopPlays == LoopTick \/ LoopTickFails \/ LoopOver

Loop == LoopExit \/ LoopPlays \/ LoopFinished \/ LoopReturns \/ LoopReports \/ LoopGivesUp

Measure ==
    \/ \E kind \in Faults : MeasureFails(kind)
    \/ MeasureReports
    \/ MeasureGivesUp
    \/ MeasureEnds

Listener ==
    \/ ListenerExit
    \/ ListenerExitNoWait
    \/ ListenerSeesExit
    \/ Wait("listener")

\* The process is gone.
Gone == ~Running /\ UNCHANGED vars

Next == Main \/ Handler \/ Signal \/ Loop \/ Measure \/ Listener \/ Gone

(***************************************************************************)
(* Every goroutine that can go on does: Go schedules them preemptively.    *)
(* A select that finds both the exit channel and the ticker ready chooses  *)
(* at random, so a loop whose exit channel stays closed takes that case    *)
(* eventually.  Nothing obliges the user to send a signal nor anything to  *)
(* go wrong.                                                               *)
(***************************************************************************)
Fairness ==
    /\ WF_vars(Main)
    /\ WF_vars(Handler)
    /\ WF_vars(LoopExit)
    /\ WF_vars(LoopPlays)
    /\ WF_vars(LoopReturns \/ LoopGivesUp)
    /\ WF_vars(LoopFinished)
    /\ WF_vars(LoopReports)
    /\ WF_vars(MeasureReports)
    /\ WF_vars(MeasureGivesUp)
    /\ WF_vars(MeasureEnds)
    /\ WF_vars(Listener)

Spec == Init /\ [][Next]_vars /\ Fairness

-----------------------------------------------------------------------------

CleaningUp == {"close_kernel", "close_file"}

MainPlaces == {"start", "new_tc", "init_tc", "warmup", "launch_ms", "launch_loop",
               "wait", "end", "close_db"} \cup CleaningUp
HandlerPlaces == {"select", "exit", "wait", "done"} \cup CleaningUp
ListenerPlaces == {"off", "exit_nowait"} \cup HandlerPlaces

TypeOK ==
    /\ TC!TypeOK
    /\ session \in Sessions
    /\ process \in {"running", "ended", "exited", "panicked"}
    /\ pc["main"] \in MainPlaces
    /\ pc["handler"] \in HandlerPlaces
    /\ pc["listener"] \in ListenerPlaces
    /\ DOMAIN pc = {"main", "handler", "listener"}
    /\ loop \in {"off", "run", "report", "finish", "return", "done"}
    /\ ms \in {"off", "run", "report", "send", "done"}
    /\ offer \in {"none", "info", "warn", "fatal"}
    /\ {has_tc, exit_closed, shutting_down, has_ended, reported} \subseteq BOOLEAN
    /\ wg \in 0..2
    /\ played \in 0..session.samples
    /\ faults \in 0..MaxFaults
    /\ signals \in 0..MaxSignals

LoopAlive == loop \in {"run", "report", "finish", "return"}
MeasureAlive == ms \in {"run", "report", "send"}

\* report_error sends to a listener that will never receive again.
PersistorStuck == ms = "send" /\ pc["listener"] \notin {"off", "select"}

(***************************************************************************)
(* r.Wg counts the goroutines Wait has to wait for: whichever way the      *)
(* change loop and the measure session return, they call Done once.        *)
(***************************************************************************)
WaitGroupCounts ==
    wg = (IF LoopAlive THEN 1 ELSE 0) + (IF MeasureAlive THEN 1 ELSE 0)

(***************************************************************************)
(* main takes TrafficControl down only when the change loop and the        *)
(* measure session that use it are gone, although handler and listener may *)
(* have closed it earlier, while Start was still under way.                *)
(***************************************************************************)
MainCleansUpLast ==
    pc["main"] \in {"close_kernel", "close_file", "end", "close_db"} =>
        ~LoopAlive /\ ~MeasureAlive

(***************************************************************************)
(* When drplay ends, the device has its default qdisc back and the control *)
(* file is closed, whatever interrupted the session and however Exit, Wait *)
(* and Start overlapped.  A Start that fails makes drplay exit without     *)
(* cleaning up: a qdisc then stays only for a reason Init itself had, not  *)
(* because of an Exit that came in between.                                *)
(***************************************************************************)
EndsClean ==
    /\ process = "ended" => qdisc = "default" /\ control_file # "open"
    /\ process = "exited" /\ qdisc # "default" => ~valid \/ refused

(***************************************************************************)
(* The exit channel is closed once, by whoever comes first; the only panic *)
(* left is that of a signal that beats initTC, whose exit_clean finds no   *)
(* TrafficControl.                                                         *)
(***************************************************************************)
OnlyEarlySignalPanics == process = "panicked" => ~has_tc

(***************************************************************************)
(* A signal that reaches the handler ends an endless session, whichever    *)
(* goroutine is reporting, waiting or cleaning up at that moment; only a   *)
(* persistor that reports after the listener is gone can hold it up.       *)
(***************************************************************************)
SignalEndsProcess ==
    (session.looping /\ pc["handler"] = "exit") ~> (~Running \/ PersistorStuck)

(***************************************************************************)
(* A session that does not loop ends by itself, also when the control file *)
(* fails, unless a signal or an error of the measure session has taken the *)
(* place of Application_has_finished in the one select of the listener, or *)
(* the persistor has found that listener gone.                             *)
(***************************************************************************)
OneShotEnds ==
    ~session.looping ~> (~Running \/ signals > 0 \/ reported \/ PersistorStuck)

(***************************************************************************)
(* "defines if measure should run in an endless loop, default false"       *)
(* (drplayer.1:33): a session that does not loop ends.  It is violated     *)
(* when the listener has taken a report before the pattern is over.        *)
(***************************************************************************)
OneShotAlwaysEnds == ~session.looping ~> ~Running

=============================================================================

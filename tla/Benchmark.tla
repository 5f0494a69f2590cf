----------------------------- MODULE Benchmark -----------------------------
(***************************************************************************)
(* One run of drbenchmark: cmd/drbenchmark/internal/benchmark.go plays one *)
(* session after the other, each with a DrpPlayer of its own, while the    *)
(* signal handler of cmd/drbenchmark/main.go skips sessions.               *)
(*                                                                         *)
(*   main      Play, play_session and post_play_session                    *)
(*   handler   exithandler: SkipSession on every signal, for ever          *)
(*   listener  one exit listener per player: that of a session which ended *)
(*             by itself runs Exit while main already goes on              *)
(*                                                                         *)
(* Of a player only what the sessions can see of each other is kept: its   *)
(* exit channel, its listener, its qdisc and how far its goroutines have   *)
(* come.  DrpPlayer has the rest.  The callbacks of the user (OnPre...,    *)
(* OnPost...) are called in the steps that wait for them; what they return *)
(* is only logged.  logging.FATAL.Exit returns: drbenchmark links no exit. *)
(***************************************************************************)
EXTENDS BenchmarkDefinition, FiniteSets

CONSTANTS
    Definitions,   \* the JSON files: [patterns, setting], and the first
                   \* samples of their pattern files
    Faults,        \* what may fail: "persist", "add", "open", "stats", "warn", "fatal", "store"
    MaxFaults,     \* bound: how often something fails
    MaxSignals     \* bound: how many signals the user sends

ASSUME BenchmarkAssumption ==
    /\ Faults \subseteq {"persist", "add", "open", "stats", "warn", "fatal", "store"}
    /\ MaxFaults \in Nat
    /\ MaxSignals \in Nat
    /\ \A d \in Definitions :
           Len(d.patterns) \in Nat /\ DOMAIN d.patterns = 1..Len(d.patterns)

\* The types the JSON is decoded into; those of a pattern file's samples.
ASSUME SettingAssumption ==
    /\ Unset \notin Int
    /\ \A f \in Numbers : Config.setting[f] \in Int
    /\ \A d \in Definitions : \A i \in DOMAIN d.patterns :
           /\ \A f \in Numbers : {d.patterns[i][f], d.setting[f]} \subseteq Int \cup {Unset}
           /\ d.samples[i] \in Int

VARIABLES
    definition,    \* the file that is loaded
    sessions,      \* bm.Sessions
    pc,            \* where Play stands
    current,       \* the index of its loop
    player,        \* b.player: the session it belongs to, 0 for nil
    was_skipped,   \* b.was_skipped
    handler,       \* where the signal handler stands: in its select, or in SkipSession
                   \* with the session that was current when it set the flag
    exited,        \* the sessions whose On_extern_exit_c is closed
    run,           \* the change loop and measure session of the current player
    listener,      \* where the exit listener of each session stands
    qdisc,         \* whose janz qdisc the device has, 0 for its default one
    outcome,       \* how each session was left
    on_post,       \* was OnPostBenchmark called
    skips,         \* <<n, i>>: signal n set was_skipped while player was i
    hit,           \* <<i, j>>: a signal meant for session i closed the channel of j
    faults, signals

program == <<pc, current, player, was_skipped>>
players == <<exited, run, listener, qdisc>>
results == <<outcome, on_post>>
history == <<skips, hit>>
vars == <<definition, sessions, program, handler, players, results, history, faults, signals>>

Indexes == DOMAIN sessions

\* The handler's select.
SelectSignal == -1

Fault(kind) ==
    /\ kind \in Faults
    /\ faults < MaxFaults
    /\ faults' = faults + 1

At(place) == pc = place
Goto(place) == pc' = place

Init ==
    /\ definition \in Definitions
    /\ sessions = <<>>
    /\ pc = "load"
    /\ current = 1
    /\ player = 0
    /\ was_skipped = FALSE
    /\ handler = 0
    /\ exited = {}
    /\ run = "off"
    /\ listener = <<>>
    /\ qdisc = 0
    /\ outcome = <<>>
    /\ on_post = "none"
    /\ skips = {}
    /\ hit = {}
    /\ faults = 0
    /\ signals = 0

-----------------------------------------------------------------------------
(* main and Play                                                           *)

\* ArgParse and Validate; then the handler is launched, Play persists the
\* benchmark and calls OnPreBenchmark.  Errors of these two end in FATAL.Exit.
Load ==
    /\ At("load")
    /\ LET loaded == LoadSessions(definition)
           All(value) == [i \in DOMAIN loaded |-> value]
       IN  IF Loads(definition) /\ SessionsValid(loaded)
           THEN /\ sessions' = loaded
                /\ listener' = All("off")
                /\ outcome' = All("none")
                /\ handler' = SelectSignal
                /\ Goto("session")
           ELSE Goto("end") /\ UNCHANGED <<sessions, listener, outcome, handler>>
    /\ UNCHANGED <<definition, current, player, was_skipped, exited, run, qdisc,
                   on_post, history, faults, signals>>

\* Slip (TypeOK): the loop goes one session too far.
LeaveLate(result) ==
    /\ outcome' = [outcome EXCEPT ![current] = result]
    /\ current' = current + 1
    /\ Goto(IF current > Len(sessions) THEN "post_benchmark" ELSE "session")

\* The loop of Play goes on to the next session.
Leave(result) ==
    /\ outcome' = [outcome EXCEPT ![current] = result]
    /\ current' = current + 1
    /\ Goto(IF current = Len(sessions) THEN "post_benchmark" ELSE "session")

\* OnPreSession, then play_session persists the session.
PersistSession ==
    /\ At("session")
    /\ \/ Goto("new_player") /\ UNCHANGED <<current, outcome, faults>>
       \/ Fault("persist") /\ Leave("unsaved")
    /\ UNCHANGED <<definition, sessions, player, was_skipped, handler, players, on_post,
                   history, signals>>

NewPlayer ==
    /\ At("new_player")
    /\ player' = current
    /\ run' = "off"
    /\ Goto("start")
    /\ UNCHANGED <<definition, sessions, current, was_skipped, handler, exited, listener,
                   qdisc, results, history, faults, signals>>

-----------------------------------------------------------------------------
(* play_session: the player's Start and Wait                               *)

\* Start launches the listener; Init validates the parameters.
Start ==
    /\ At("start")
    /\ listener' = [listener EXCEPT ![current] = "select"]
    /\ IF StartParamsValid(sessions[current])
       THEN Goto("reset") /\ UNCHANGED <<current, outcome>>
       ELSE Leave("refused")
    /\ UNCHANGED <<definition, sessions, player, was_skipped, handler, exited, run, qdisc,
                   on_post, history, faults, signals>>

\* Init: whatever qdisc there is goes ...
ResetQdisc ==
    /\ At("reset")
    /\ qdisc' = 0
    /\ Goto("add")
    /\ UNCHANGED <<definition, sessions, current, player, was_skipped, handler, exited, run,
                   listener, results, history, faults, signals>>

\* Slip (QdiscStays): Init does not sleep.
NoSleep == TRUE

\* ... and Init sleeps for a second.  Timing: that is enough for the listener
\* of an earlier session to come to the end of its Exit.
SleepOver == \A i \in 1..(current - 1) : listener[i] \notin {"exit", "wait", "close"}

AddQdisc ==
    /\ At("add")
    /\ SleepOver
    /\ \/ qdisc' = current /\ Goto("warmup") /\ UNCHANGED <<current, outcome, faults>>
       \/ Fault("add") /\ Leave("unplayed") /\ UNCHANGED qdisc
       \/ Fault("open") /\ qdisc' = current /\ Leave("half_started")
    /\ UNCHANGED <<definition, sessions, player, was_skipped, handler, exited, run, listener,
                   on_post, history, signals>>

WarmupExit ==
    /\ At("warmup")
    /\ current \in exited
    /\ run' = "over"
    /\ Goto("wait")
    /\ UNCHANGED <<definition, sessions, current, player, was_skipped, handler, exited,
                   listener, qdisc, results, history, faults, signals>>

Launch ==
    /\ At("warmup")
    /\ run' = "playing"
    /\ Goto("wait")
    /\ UNCHANGED <<definition, sessions, current, player, was_skipped, handler, exited,
                   listener, qdisc, results, history, faults, signals>>

WaitReturns ==
    /\ At("wait")
    /\ run = "over"
    /\ Goto("close")
    /\ UNCHANGED <<definition, sessions, current, player, was_skipped, handler, players,
                   results, history, faults, signals>>

\* Slip (EndsClean): only a session that was not skipped is cleaned up.
CloseUnskipped ==
    /\ At("close")
    /\ qdisc' = IF was_skipped THEN qdisc ELSE 0
    /\ Goto("stats")
    /\ UNCHANGED <<definition, sessions, current, player, was_skipped, handler, exited, run,
                   listener, results, history, faults, signals>>

\* exit_clean, ClearCache.
Close ==
    /\ At("close")
    /\ qdisc' = 0
    /\ Goto("stats")
    /\ UNCHANGED <<definition, sessions, current, player, was_skipped, handler, exited, run,
                   listener, results, history, faults, signals>>

-----------------------------------------------------------------------------
(* post_play_session, and the end of Play                                  *)

\* GetSessionStats fails: the flag is not looked at.
StatsFail ==
    /\ At("stats")
    /\ Fault("stats")
    /\ Leave("unreported")
    /\ UNCHANGED <<definition, sessions, player, was_skipped, handler, players, on_post,
                   history, signals>>

\* Slip (SuccessIsWhole): the flag is not asked.
ReportAnyway ==
    /\ At("stats")
    /\ Leave("reported")
    /\ UNCHANGED <<definition, sessions, player, was_skipped, handler, players, on_post,
                   history, faults, signals>>

\* OnPostSession, and 250 ms of sleep.
ReportSession ==
    /\ At("stats")
    /\ ~was_skipped
    /\ Leave("reported")
    /\ UNCHANGED <<definition, sessions, player, was_skipped, handler, players, on_post,
                   history, faults, signals>>

SeeSkip ==
    /\ At("stats")
    /\ was_skipped
    /\ Goto("interrupt")
    /\ UNCHANGED <<definition, sessions, current, player, was_skipped, handler, players,
                   results, history, faults, signals>>

\* Slip (SkipsSpentOnce): the flag is never reset.
InterruptKeepsFlag ==
    /\ At("interrupt")
    /\ Leave("interrupted")
    /\ UNCHANGED <<definition, sessions, player, was_skipped, handler, players, on_post,
                   history, faults, signals>>

\* "User Interrupt"
Interrupt ==
    /\ At("interrupt")
    /\ was_skipped' = FALSE
    /\ Leave("interrupted")
    /\ UNCHANGED <<definition, sessions, player, handler, players, on_post, history,
                   faults, signals>>

\* OnPostBenchmark; then the database is closed and main returns.
PostBenchmark ==
    /\ At("post_benchmark")
    /\ on_post' = IF was_skipped THEN "left_out" ELSE "called"
    /\ Goto("end")
    /\ UNCHANGED <<definition, sessions, current, player, was_skipped, handler, players,
                   outcome, history, faults, signals>>

-----------------------------------------------------------------------------
(* The goroutines of the current player.  Nomeasure is never set: the      *)
(* measure session runs until the exit channel is closed.                  *)

AllButPlayer ==
    UNCHANGED <<definition, sessions, program, handler, qdisc, results, skips, hit, signals>>

\* The pattern is over; the change loop wants to send on Application_has_finished.
PatternOver ==
    /\ run = "playing"
    /\ run' = "finish"
    /\ UNCHANGED <<exited, listener, faults>>
    /\ AllButPlayer

\* Slip (BenchmarkEnds): the listener only logs the message.
FinishedLogged ==
    /\ run = "finish"
    /\ listener[current] = "select"
    /\ run' = "return"
    /\ listener' = [listener EXCEPT ![current] = "done"]
    /\ UNCHANGED <<exited, faults>>
    /\ AllButPlayer

Finished ==
    /\ run = "finish"
    /\ listener[current] = "select"
    /\ run' = "return"
    /\ listener' = [listener EXCEPT ![current] = "exit"]
    /\ UNCHANGED <<exited, faults>>
    /\ AllButPlayer

\* After the exit signal both end; the Wg of the player is 0.
PlayerEnds ==
    /\ run \in {"playing", "return"}
    /\ current \in exited
    /\ run' = "over"
    /\ UNCHANGED <<exited, listener, faults>>
    /\ AllButPlayer

\* The listener takes a report; a fatal one makes it exit.
Report(kind) ==
    /\ run = "playing"
    /\ listener[current] = "select"
    /\ Fault(kind)
    /\ listener' = [listener EXCEPT ![current] = IF kind = "fatal" THEN "exit_nowait" ELSE "done"]
    /\ UNCHANGED <<exited, run>>
    /\ AllButPlayer

\* The persistor reports to a listener that is gone, and stays there.
StoreFails ==
    /\ run = "playing"
    /\ listener[current] # "select"
    /\ Fault("store")
    /\ run' = "stuck"
    /\ UNCHANGED <<exited, listener>>
    /\ AllButPlayer

-----------------------------------------------------------------------------
(* The exit listeners                                                      *)

ListenerMoves(i, from, to) ==
    /\ ~At("end")
    /\ listener[i] = from
    /\ listener' = [listener EXCEPT ![i] = to]
    /\ UNCHANGED <<definition, sessions, program, handler, run, results, history, faults, signals>>

\* Exit or ExitNoWait closes the channel, unless that has been done.
ListenerCloses(i) ==
    /\ \/ ListenerMoves(i, "exit", "wait")
       \/ ListenerMoves(i, "exit_nowait", "done")
    /\ exited' = exited \cup {i}
    /\ UNCHANGED qdisc

\* The Wait of Exit.
ListenerWaits(i) ==
    /\ ListenerMoves(i, "wait", "close")
    /\ i < current \/ run = "over"
    /\ UNCHANGED <<exited, qdisc>>

\* The exit_clean of Exit deletes the root qdisc, whosever it is.
ListenerCleans(i) ==
    /\ ListenerMoves(i, "close", "done")
    /\ qdisc' = 0
    /\ UNCHANGED exited

ListenerSeesExit(i) ==
    /\ ListenerMoves(i, "select", "done")
    /\ i \in exited
    /\ UNCHANGED <<exited, qdisc>>

-----------------------------------------------------------------------------
(* The signal handler                                                      *)

\* SkipSession, the flag.  A signal that comes before the handler is back in
\* its select is lost: the channel has no buffer.
Signal ==
    /\ pc \notin {"load", "end"}
    /\ signals < MaxSignals
    /\ signals' = signals + 1
    /\ IF handler = SelectSignal /\ player # 0
       THEN /\ was_skipped' = TRUE
            /\ handler' = player
            /\ skips' = skips \cup {<<signals', player>>}
       ELSE UNCHANGED <<was_skipped, handler, skips>>
    /\ UNCHANGED <<definition, sessions, pc, current, player, players, results, hit, faults>>

\* SkipSession, b.player.ExitNoWait(): b.player is read again.
Skip ==
    /\ ~At("end")
    /\ handler > 0
    /\ handler' = SelectSignal
    /\ exited' = exited \cup {player}
    /\ hit' = IF player \in exited THEN hit ELSE hit \cup {<<handler, player>>}
    /\ UNCHANGED <<definition, sessions, program, run, listener, qdisc, results, skips,
                   faults, signals>>

-----------------------------------------------------------------------------

Play ==
    \/ Load
    \/ PersistSession
    \/ NewPlayer
    \/ Start
    \/ ResetQdisc
    \/ AddQdisc
    \/ WarmupExit
    \/ Launch
    \/ WaitReturns
    \/ Close
    \/ StatsFail
    \/ ReportSession
    \/ SeeSkip
    \/ Interrupt
    \/ PostBenchmark

Player ==
    \/ PatternOver
    \/ Finished
    \/ PlayerEnds
    \/ \E kind \in {"warn", "fatal"} : Report(kind)
    \/ StoreFails

Listener(i) ==
    \/ ListenerCloses(i)
    \/ ListenerWaits(i)
    \/ ListenerCleans(i)
    \/ ListenerSeesExit(i)

\* main has returned.
Gone == At("end") /\ UNCHANGED vars

Next ==
    \/ Play
    \/ Player
    \/ \E i \in Indexes : Listener(i)
    \/ Signal
    \/ Skip
    \/ Gone

(***************************************************************************)
(* Goroutines that can go on do, a pattern has an end and a closed exit    *)
(* channel is seen; nobody has to send a signal.                           *)
(***************************************************************************)
Fairness ==
    /\ WF_vars(Play)
    /\ WF_vars(PatternOver)
    /\ WF_vars(Finished)
    /\ WF_vars(PlayerEnds)
    /\ WF_vars(\E i \in Indexes : Listener(i))
    /\ WF_vars(Skip)

Spec == Init /\ [][Next]_vars /\ Fairness

-----------------------------------------------------------------------------

Places == {"load", "session", "new_player", "start", "reset", "add", "warmup", "wait",
           "close", "stats", "interrupt", "post_benchmark", "end"}

Outcomes == {"none", "unsaved", "refused", "unplayed", "half_started", "reported",
             "unreported", "interrupted"}

TypeOK ==
    /\ definition \in Definitions
    /\ pc \in Places
    /\ current \in 1..(Len(sessions) + 1)
    /\ player \in 0..Len(sessions)
    /\ was_skipped \in BOOLEAN
    /\ handler \in {SelectSignal} \cup 0..Len(sessions)
    /\ exited \subseteq Indexes
    /\ run \in {"off", "playing", "finish", "return", "stuck", "over"}
    /\ listener \in [Indexes -> {"off", "select", "exit", "wait", "close", "exit_nowait", "done"}]
    /\ qdisc \in 0..Len(sessions)
    /\ outcome \in [Indexes -> Outcomes]
    /\ on_post \in {"none", "called", "left_out"}
    /\ skips \subseteq (1..signals) \X Indexes
    /\ hit \subseteq Indexes \X Indexes
    /\ faults \in 0..MaxFaults
    /\ signals \in 0..MaxSignals

Interrupted == {i \in Indexes : outcome[i] = "interrupted"}

\* How many signals were meant for the sessions up to i.
SkipsUpTo(i) == Cardinality({s \in skips : s[2] <= i})

\* The measure session or the change loop waits for a listener that is gone.
Hung == run = "stuck" \/ (run = "finish" /\ listener[current] # "select")

(***************************************************************************)
(* Each setting of a session is that of the innermost level that has it:   *)
(* its pattern, the definition, the config file.                           *)
(***************************************************************************)
InnermostWins ==
    \A i \in Indexes, f \in Fields \ {"Queuesizepackets"} :
        sessions[i].setting[f] =
            IF definition.patterns[i][f] # Unset THEN definition.patterns[i][f]
            ELSE IF definition.setting[f] # Unset THEN definition.setting[f]
            ELSE Config.setting[f]

(***************************************************************************)
(* A session of a benchmark that was accepted is refused at its start only *)
(* because its levels do not fit together, its latency or a mark is far    *)
(* too large, or its pattern starts below 50 kbit/s, which nobody looks at *)
(* before: that the marks of a pattern fit together has been checked.      *)
(***************************************************************************)
RefusedLate ==
    \A i \in Indexes :
        outcome[i] = "refused" =>
            \/ sessions[i].Datarate < 100
            \/ sessions[i].setting["Extralatency"] >= 10000
            \/ sessions[i].setting["Markfree"] > 65535
            \/ sessions[i].setting["Markfull"] > 65535
            \/ /\ sessions[i].setting["Markfree"] > sessions[i].setting["Markfull"]
               /\ ~(IsSet(definition.patterns[i], "Markfree") /\ IsSet(definition.patterns[i], "Markfull"))

(***************************************************************************)
(* Every skip is spent at most once, and never before the user sent it: on *)
(* a "User Interrupt" or on an OnPostBenchmark that is left out.  A        *)
(* session that was played in full is reported as interrupted only in      *)
(* place of an earlier one, whose skip came too late or whose Start failed.*)
(***************************************************************************)
SkipsSpentOnce ==
    /\ \A i \in Indexes : Cardinality(Interrupted \cap 1..i) <= SkipsUpTo(i)
    /\ on_post = "left_out" => Cardinality(Interrupted) < SkipsUpTo(Len(sessions))

(***************************************************************************)
(* A session reported as a success was not ended by a skip, unless the     *)
(* skip was meant for the session before it: SkipSession sets the flag and *)
(* ends the player in two steps.                                           *)
(***************************************************************************)
SuccessIsWhole ==
    \A h \in hit : outcome[h[2]] = "reported" => h[1] < h[2]

(***************************************************************************)
(* The qdisc of a session that is playing is not deleted under it by the   *)
(* exit listener of a session before it.                                   *)
(***************************************************************************)
QdiscStays == run \in {"playing", "finish", "return"} => qdisc = current

(***************************************************************************)
(* drbenchmark ends with the default qdisc on the device, unless a session *)
(* could not open the control file of its qdisc and all after it were      *)
(* refused before they reset anything: play_session does not clean up      *)
(* after a Start that failed.                                              *)
(***************************************************************************)
EndsClean ==
    At("end") /\ qdisc # 0 =>
        /\ outcome[qdisc] = "half_started"
        /\ \A i \in (qdisc + 1)..Len(sessions) : outcome[i] \in {"unsaved", "refused"}

(***************************************************************************)
(* drbenchmark comes to its end, whatever fails and is skipped, unless a   *)
(* goroutine of a session waits for a listener that is gone.               *)
(***************************************************************************)
BenchmarkEnds == <>(At("end") \/ Hung)

(***************************************************************************)
(* "Config file with defaults for each Session of the Benchmark.  Used as  *)
(* a foallback for not defined arguments in the json." (drbenchmark.1:32)  *)
(* It is violated: the qosmode of the config file reaches no session.      *)
(***************************************************************************)
ConfigIsFallback == \A i \in Indexes : sessions[i].Qosmode = Config.Qosmode

=============================================================================

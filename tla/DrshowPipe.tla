----------------------------- MODULE DrshowPipe -----------------------------
(***************************************************************************)
(* drshow reading a pipe: cmd/drshow/internal/modes/pipe together with the *)
(* FlowManager and the widgets, at the end of the pipe DrplaySimulator     *)
(* writes into.                                                            *)
(*                                                                         *)
(*   reader     skipToMeasures, then MainSTDinReadLoop: one line at a time *)
(*   appender   GetAndAppendTo, a goroutine of its own for every line      *)
(*   updater    the goroutine of NewUI that hands a flow to its charts     *)
(*   after      the goroutine it starts, at most every 100 ms, to refresh  *)
(*              the details                                                *)
(*   keyboard   termdash calls keyboardListener, one key after the other   *)
(*   redraw     the loop at the end of RedrawUIWithLayout                  *)
(*                                                                         *)
(* All channels are unbuffered: a send and its receipt are one step.  The  *)
(* boxes of the flow list, the details and the text, and the charts, do    *)
(* nothing but receive: they are always ready, so what is sent to the list *)
(* and the text has no step.  The layout is drawn anew every 500 ms and is *)
(* left out.                                                               *)
(***************************************************************************)
EXTENDS FlowManager, DrplaySimulator

CONSTANTS
    Starts,          \* where drshow may stand at first: [flows, selected, old, printed]
    Graphs,          \* how many charts a flow has
    ChartsMayFail,   \* may a chart not be created
    MaxOld,          \* bound: how many flows are too old at a time
    MaxKeys          \* bound: how many keys are pressed

ASSUME DrshowAssumption ==
    /\ Graphs \in Nat \ {0}
    /\ ChartsMayFail \in BOOLEAN
    /\ {MaxOld, MaxKeys} \subseteq Nat

\* The samples a line got, as pairs of a flow and a place.
SamplesIn(fs, n) == {s \in UNION {{i} \X DOMAIN fs[i].samples : i \in DOMAIN fs} :
                        fs[s[1]].samples[s[2]] = n}

\* The end points there are.
Keys == {generator(i).key : i \in 0..MaxLines}
            \cup UNION {{start.flows[i].key : i \in DOMAIN start.flows} : start \in Starts}

(***************************************************************************)
(* drshow has handled every line printed so far and may have seen others,  *)
(* numbered 0, before.                                                     *)
(***************************************************************************)
ASSUME StartsAssumption ==
    \A start \in Starts :
        LET fs == start.flows
        IN  /\ fs \in Seq([key : Keys, samples : Seq(Nat), loads : 0..2])
            /\ \A i \in DOMAIN fs : fs[i].loads <= Len(fs[i].samples)
            /\ \A i, j \in DOMAIN fs : fs[i].key = fs[j].key => i = j
            /\ start.selected \in IF fs = <<>> THEN {1} ELSE DOMAIN fs
            /\ start.old \subseteq DOMAIN fs
            /\ start.printed \in IF fs = <<>> THEN {0} ELSE 0..MaxLines
            /\ \A n \in 1..MaxLines :
                IF n <= start.printed
                THEN \E s \in SamplesIn(fs, n) :
                        SamplesIn(fs, n) = {s} /\ fs[s[1]].key = generator(n - 1).key
                ELSE SamplesIn(fs, n) = {}

VARIABLES
    flows, selected,   \* the fields of the manager
    old,               \* the flows whose last sample is too old for their level
    mutex,             \* who holds man.Mutex
    reader,            \* [at, line]
    appenders,         \* the goroutines of lines: [line, at, flow]
    updater,           \* [at, flow, n, graph]; n is the line it was called for
    afters,            \* the goroutines of updates: [n, flow, at, selected]
    keyboard,          \* where the listener stands
    redraw,            \* [at, flow]
    widgets,           \* the flows that have charts (the map s.M)
    shown,             \* how many samples each chart of a flow displays
    details,           \* the flow in the details box, 0 for none
    stale,             \* was it sent by an after-goroutine whose selection was past
    ended,             \* how the program ended
    keys

manager == <<flows, selected, old>>
screen == <<widgets, shown, details, stale>>
threads == <<reader, appenders, updater, afters, keyboard, redraw>>
vars == <<source, manager, mutex, threads, screen, ended, keys>>

Free == "nobody"
Lock(who) == mutex = Free /\ mutex' = who
Unlock == mutex' = Free

Running == ended = "no" /\ keyboard \notin {"cancelled", "gone"}

(***************************************************************************)
(* A fresh drshow, or one that has handled everything so far: the first    *)
(* lines of this recording and others before them, numbered 0.             *)
(***************************************************************************)
StartAt(start) ==
    /\ flows = start.flows
    /\ selected = start.selected
    /\ old = start.old
    /\ index = start.printed - 1
    /\ reader = [at |-> IF start.flows = <<>> THEN "header" ELSE "read", line |-> HEADLINE]
    /\ widgets = DOMAIN start.flows
    /\ shown = [i \in DOMAIN start.flows |->
                    [g \in 1..Graphs |-> Len(start.flows[i].samples)]]
    /\ details = IF start.flows = <<>> THEN 0 ELSE start.selected

DrshowInit ==
    /\ \E start \in Starts : StartAt(start)
    /\ simulator = IF reader.at = "header" THEN "headline" ELSE "lines"
    /\ stdout = <<>>
    /\ pipe = <<>>
    /\ mutex = Free
    /\ appenders = {}
    /\ updater = [at |-> "select", flow |-> 0, n |-> 0, graph |-> 1]
    /\ afters = {}
    /\ keyboard = "wait"
    /\ redraw = [at |-> "receive", flow |-> 0]
    /\ stale = FALSE
    /\ ended = "no"
    /\ keys = 0

-----------------------------------------------------------------------------
(***************************************************************************)
(* The reader.                                                             *)
(***************************************************************************)
Reads ==
    /\ Running
    /\ pipe # <<>>
    /\ pipe' = Tail(pipe)
    /\ UNCHANGED <<simulator, index, stdout, appenders, updater, afters, keyboard, redraw,
                   manager, mutex, screen, ended, keys>>

EOF == pipe = <<>> /\ simulator = "exited"

SkipToMeasures ==
    /\ reader.at = "header"
    /\ Reads
    /\ reader' = [reader EXCEPT !.at = IF Head(pipe) = HEADLINE THEN "read" ELSE "header"]

(***************************************************************************)
(* Nothing was piped in, or not in time: ValidateDrpPlayerPipedIn fails    *)
(* and Run exits.                                                          *)
(***************************************************************************)
NoInput ==
    /\ Running
    /\ reader.at = "header"
    /\ pipe = <<>>
    /\ ended' = "no input"
    /\ UNCHANGED <<source, manager, mutex, threads, screen, keys>>

ReadLine ==
    /\ reader.at = "read"
    /\ Reads
    /\ reader' = [at |-> "contains", line |-> Head(pipe)]

ReadEnd ==
    /\ Running
    /\ reader.at = "read"
    /\ EOF
    /\ reader' = [reader EXCEPT !.at = "end"]
    /\ UNCHANGED <<source, manager, mutex, appenders, updater, afters, keyboard, redraw,
                   screen, ended, keys>>

\* go manager.GetAndAppendTo(f, ...)
Spawn(line) == appenders' = appenders \cup {[line |-> line, at |-> "get", flow |-> 0]}

\* Slip (NothingLost): the flow of a line is not looked for.
ReadAppends ==
    /\ Running
    /\ reader.at = "contains"
    /\ mutex = Free
    /\ reader' = [reader EXCEPT !.at = "append"]
    /\ UNCHANGED <<source, manager, mutex, appenders, updater, afters, keyboard, redraw,
                   screen, ended, keys>>

ReadContains ==
    /\ Running
    /\ reader.at = "contains"
    /\ mutex = Free
    /\ IF Contains(flows, reader.line.key)
       THEN Spawn(reader.line) /\ reader' = [reader EXCEPT !.at = "read"]
       ELSE reader' = [reader EXCEPT !.at = "append"] /\ UNCHANGED appenders
    /\ UNCHANGED <<source, manager, mutex, updater, afters, keyboard, redraw, screen, ended, keys>>

\* FlowManager.Append; the first flow is announced as the selected one.
ReadAppend ==
    /\ Running
    /\ reader.at = "append"
    /\ mutex = Free
    /\ flows' = Append(flows, NewFlow(reader.line.key))
    /\ IF Len(flows') = 1
       THEN reader' = [reader EXCEPT !.at = "details"] /\ UNCHANGED appenders
       ELSE reader' = [reader EXCEPT !.at = "read"] /\ Spawn(reader.line)
    /\ shown' = Append(shown, [g \in 1..Graphs |-> 0])
    /\ UNCHANGED <<source, selected, old, mutex, updater, afters, keyboard, redraw,
                   widgets, details, stale, ended, keys>>

ShowDetails(flow, past) ==
    /\ details' = flow
    /\ stale' = past
    /\ UNCHANGED <<widgets, shown>>

FirstDetails ==
    /\ Running
    /\ reader.at = "details"
    /\ ShowDetails(selected, FALSE)
    /\ reader' = [reader EXCEPT !.at = "redraw"]
    /\ UNCHANGED <<source, manager, mutex, appenders, updater, afters, keyboard, redraw,
                   ended, keys>>

\* A send on RedrawUIWithLayout; the flow it names only matters to the layout.
SendRedraw ==
    /\ redraw.at = "receive"
    /\ redraw' = [redraw EXCEPT !.at = "selected"]

FirstRedraw ==
    /\ Running
    /\ reader.at = "redraw"
    /\ SendRedraw
    /\ reader' = [reader EXCEPT !.at = "read"]
    /\ Spawn(reader.line)
    /\ UNCHANGED <<source, manager, mutex, updater, afters, keyboard, screen, ended, keys>>

Reader ==
    \/ SkipToMeasures \/ NoInput \/ ReadLine \/ ReadEnd
    \/ ReadContains \/ ReadAppend \/ FirstDetails \/ FirstRedraw

-----------------------------------------------------------------------------
(***************************************************************************)
(* One goroutine per line.                                                 *)
(***************************************************************************)
Becomes(a, b) == appenders' = (appenders \ {a}) \cup {b}

AppenderGets(a) ==
    /\ a.at = "get"
    /\ mutex = Free
    /\ \E i \in Holding(flows, a.line.key) : Becomes(a, [a EXCEPT !.at = "append", !.flow = i])
    /\ UNCHANGED <<source, manager, mutex, reader, updater, afters, keyboard, redraw, screen,
                   ended, keys>>

\* The datapoints have a mutex of their own.
AppenderAppends(a) ==
    /\ a.at = "append"
    /\ flows' = [flows EXCEPT ![a.flow] = AppendSample(@, a.line)]
    /\ old' = old \ {a.flow}
    /\ Becomes(a, [a EXCEPT !.at = "notify"])
    /\ UNCHANGED <<source, selected, mutex, reader, updater, afters, keyboard, redraw, screen,
                   ended, keys>>

\* C.UpdateDataGraphs <- flow
AppenderNotifies(a) ==
    /\ a.at = "notify"
    /\ updater.at = "select"
    /\ updater' = [updater EXCEPT !.at = "lock", !.flow = a.flow, !.n = a.line.n]
    /\ appenders' = appenders \ {a}
    /\ UNCHANGED <<source, manager, mutex, reader, afters, keyboard, redraw, screen, ended, keys>>

Appender ==
    Running /\ \E a \in appenders : AppenderGets(a) \/ AppenderAppends(a) \/ AppenderNotifies(a)

-----------------------------------------------------------------------------
(***************************************************************************)
(* The updater holds the manager's mutex while it feeds the charts.        *)
(***************************************************************************)
UpdaterOnly == UNCHANGED <<source, manager, reader, appenders, keyboard, redraw, ended, keys>>

UpdaterLocks ==
    /\ updater.at = "lock"
    /\ Lock("updater")
    /\ widgets' = widgets \cup {updater.flow}
    /\ updater' = [updater EXCEPT !.at = "send", !.graph = 1]
    /\ UNCHANGED <<shown, details, stale, afters>>
    /\ UpdaterOnly

\* NewDetWids fails: `continue` leaves the mutex locked.
UpdaterFails ==
    /\ ChartsMayFail
    /\ updater.at = "lock"
    /\ updater.flow \notin widgets
    /\ Lock("nobody any more")
    /\ updater' = [updater EXCEPT !.at = "select"]
    /\ UNCHANGED <<screen, afters>>
    /\ UpdaterOnly

(***************************************************************************)
(* The charts of all flows receive from the same channels: a chart of      *)
(* another flow may get the data, and drops it.                            *)
(***************************************************************************)
UpdaterSends ==
    /\ updater.at = "send"
    /\ \E receiver \in widgets :
        shown' = IF receiver = updater.flow
                 THEN [shown EXCEPT ![receiver][updater.graph] = Len(flows[receiver].samples)]
                 ELSE shown
    /\ updater' = IF updater.graph < Graphs THEN [updater EXCEPT !.graph = @ + 1]
                  ELSE [updater EXCEPT !.at = "unlock"]
    /\ UNCHANGED <<mutex, widgets, details, stale, afters>>
    /\ UpdaterOnly

UpdaterUnlocks ==
    /\ updater.at = "unlock"
    /\ Unlock
    /\ updater' = [updater EXCEPT !.at = "select"]
    /\ \/ UNCHANGED afters
       \/ afters' = afters \cup {[n |-> updater.n, flow |-> updater.flow,
                                  at |-> "selected", selected |-> 0]}
    /\ UNCHANGED screen
    /\ UpdaterOnly

Updater == Running /\ (UpdaterLocks \/ UpdaterFails \/ UpdaterSends \/ UpdaterUnlocks)

\* It reads the selection without the mutex.
AfterReads(a) ==
    /\ a.at = "selected"
    /\ afters' = (afters \ {a}) \cup
                    (IF a.flow = selected
                     THEN {[a EXCEPT !.at = "send", !.selected = selected]} ELSE {})
    /\ UNCHANGED screen

AfterSends(a) ==
    /\ a.at = "send"
    /\ ShowDetails(a.selected, a.selected # selected)
    /\ afters' = afters \ {a}

After ==
    /\ Running
    /\ \E a \in afters : AfterReads(a) \/ AfterSends(a)
    /\ UNCHANGED <<source, manager, mutex, reader, appenders, updater, keyboard, redraw,
                   ended, keys>>

-----------------------------------------------------------------------------
(***************************************************************************)
(* The keyboard listener.                                                  *)
(***************************************************************************)
KeyboardOnly == UNCHANGED <<source, flows, old, reader, appenders, updater, afters>>

Press ==
    /\ keyboard = "wait"
    /\ keys < MaxKeys
    /\ keys' = keys + 1

\* Slip (LinesReachScreen): the early return keeps the mutex.
SelectKeepingLock(result) ==
    /\ Press
    /\ Lock("keyboard")
    /\ IF result.kind = "flow"
       THEN selected' = result.flow /\ keyboard' = "details" /\ UNCHANGED ended
       ELSE UNCHANGED <<selected, keyboard, ended>>
    /\ UNCHANGED <<redraw, screen>>
    /\ KeyboardOnly

(***************************************************************************)
(* SelectNextFlowIndex or SelectPreviousFlowIndex: the selection changes   *)
(* under the mutex, which is kept until the details are sent.              *)
(***************************************************************************)
Select(result) ==
    /\ Press
    /\ mutex = Free
    /\ CASE result.kind = "flow" ->
                /\ selected' = result.flow
                /\ mutex' = "keyboard"
                /\ keyboard' = "details"
                /\ UNCHANGED ended
         [] result.kind = "error" -> UNCHANGED <<selected, mutex, keyboard, ended>>
         [] result.kind = "panic" -> ended' = "panic" /\ UNCHANGED <<selected, mutex, keyboard>>
    /\ UNCHANGED <<redraw, screen>>
    /\ KeyboardOnly

ArrowDown == Select(SelectNext(flows, old, selected))

ArrowUp == Select(SelectPrevious(flows, old, selected))

\* Slip (DetailsFollow): cbFlowListAfter is left out.
KeyDetailsOnly ==
    /\ keyboard = "details"
    /\ ShowDetails(selected, FALSE)
    /\ Unlock
    /\ keyboard' = "wait"
    /\ UNCHANGED <<selected, redraw, ended, keys>>
    /\ KeyboardOnly

KeyDetails ==
    /\ keyboard = "details"
    /\ ShowDetails(selected, FALSE)
    /\ Unlock
    /\ keyboard' = "redraw"
    /\ UNCHANGED <<selected, redraw, ended, keys>>
    /\ KeyboardOnly

KeyRedraw ==
    /\ keyboard = "redraw"
    /\ SendRedraw
    /\ keyboard' = "wait"
    /\ UNCHANGED <<selected, mutex, screen, ended, keys>>
    /\ KeyboardOnly

\* Slip (TypeOK): the redraw is asked for before there is a flow.
SpaceUnchecked ==
    /\ Press
    /\ keyboard' = "redraw"
    /\ UNCHANGED <<selected, mutex, redraw, screen, ended>>
    /\ KeyboardOnly

Space ==
    /\ Press
    /\ keyboard' = IF selected \in DOMAIN flows THEN "redraw" ELSE "wait"
    /\ UNCHANGED <<selected, mutex, redraw, screen, ended>>
    /\ KeyboardOnly

\* An exit key: cancel() comes before exitMsg is set.
ExitKey ==
    /\ Press
    /\ keyboard' = "cancelled"
    /\ UNCHANGED <<selected, mutex, redraw, screen, ended>>
    /\ KeyboardOnly

ExitMessage ==
    /\ keyboard = "cancelled"
    /\ keyboard' = "gone"
    /\ UNCHANGED <<selected, mutex, redraw, screen, ended, keys>>
    /\ KeyboardOnly

Keyboard ==
    /\ ended = "no"
    /\ reader.at # "header"
    /\ ArrowDown \/ ArrowUp \/ KeyDetails \/ KeyRedraw \/ Space \/ ExitKey \/ ExitMessage

\* The end of Run: *exitMsg is read as soon as the context is cancelled.
RunReturns ==
    /\ ended = "no"
    /\ keyboard \in {"cancelled", "gone"}
    /\ ended' = IF keyboard = "gone" THEN "goodbye" ELSE "panic"
    /\ UNCHANGED <<source, manager, mutex, threads, screen, keys>>

-----------------------------------------------------------------------------
RedrawReads ==
    /\ redraw.at = "selected"
    /\ redraw' = [at |-> "send", flow |-> selected]
    /\ UNCHANGED screen

RedrawSends ==
    /\ redraw.at = "send"
    /\ ShowDetails(redraw.flow, FALSE)
    /\ redraw' = [at |-> "receive", flow |-> 0]

Redraw ==
    /\ Running
    /\ RedrawReads \/ RedrawSends
    /\ UNCHANGED <<source, manager, mutex, reader, appenders, updater, afters, keyboard,
                   ended, keys>>

\* The last sample of a flow passes TimePastMaxInSec, which level 0 has not.
TimePasses ==
    /\ Running
    /\ Len(flows) >= Level0Until
    /\ Cardinality(old) < MaxOld
    /\ \E i \in DOMAIN flows \ old : flows[i].samples # <<>> /\ old' = old \cup {i}
    /\ UNCHANGED <<source, flows, selected, mutex, threads, screen, ended, keys>>

Source ==
    /\ Simulator(ended # "no")
    /\ UNCHANGED <<manager, mutex, threads, screen, ended, keys>>

SourceKilled ==
    /\ Killed
    /\ UNCHANGED <<manager, mutex, threads, screen, ended, keys>>

-----------------------------------------------------------------------------
Next ==
    \/ Source
    \/ SourceKilled
    \/ Reader
    \/ Appender
    \/ Updater
    \/ After
    \/ Keyboard
    \/ RunReturns
    \/ Redraw
    \/ TimePasses

(***************************************************************************)
(* Go's scheduler lets every goroutine go on that can; nobody has to press *)
(* a key or kill the source.                                               *)
(***************************************************************************)
Fairness ==
    /\ WF_vars(Source)
    /\ WF_vars(Reader)
    /\ WF_vars(Appender)
    /\ WF_vars(Updater)
    /\ WF_vars(After)
    /\ WF_vars(KeyDetails \/ KeyRedraw)
    /\ WF_vars(RunReturns)
    /\ WF_vars(Redraw)

Spec == DrshowInit /\ [][Next]_vars /\ Fairness

-----------------------------------------------------------------------------

TypeOK ==
    /\ simulator \in {"headline", "lines", "exited"}
    /\ index \in -1..MaxLines
    /\ Len(pipe) <= PipeSize
    /\ \A i \in DOMAIN flows : flows[i].loads \in 0..Min2(Len(flows[i].samples), 2)
    /\ selected \in 1..(Len(flows) + 1)
    /\ old \subseteq DOMAIN flows
    /\ mutex \in {Free, "updater", "keyboard", "nobody any more"}
    /\ reader.at \in {"header", "read", "contains", "append", "details", "redraw", "end"}
    /\ \A a \in appenders : a.at \in {"get", "append", "notify"} /\ a.flow \in 0..Len(flows)
    /\ updater.at \in {"select", "lock", "send", "unlock"} /\ updater.graph \in 1..Graphs
    /\ \A a \in afters : a.at \in {"selected", "send"}
    /\ keyboard \in {"wait", "details", "redraw", "cancelled", "gone"}
    /\ redraw.at \in {"receive", "selected", "send"}
    /\ widgets \subseteq DOMAIN flows
    /\ \A i \in DOMAIN flows, g \in 1..Graphs : shown[i][g] \in 0..Len(flows[i].samples)
    /\ details \in {0} \cup DOMAIN flows
    /\ stale \in BOOLEAN
    /\ ended \in {"no", "no input", "goodbye", "panic"}
    /\ keys \in 0..MaxKeys

HasRead(n) == reader.at \in {"contains", "append", "details", "redraw"} /\ reader.line.n = n

InHand(n) == HasRead(n) \/ \E a \in appenders : a.line.n = n /\ a.at # "notify"

InPipe(n) == \E k \in DOMAIN pipe : pipe[k] # HEADLINE /\ pipe[k].n = n

SamplesOf(n) == SamplesIn(flows, n)

(***************************************************************************)
(* Every line that has left the pipe is either still in the hands of one   *)
(* goroutine or a sample of exactly one flow, the only one with its end    *)
(* points, however the goroutines of the lines overtake each other.        *)
(***************************************************************************)
NothingLost ==
    /\ \A i \in DOMAIN flows : Holding(flows, flows[i].key) = {i}
    /\ ended = "no" =>
        \A n \in 1..(index + 1) :
            /\ Cardinality(SamplesOf(n)) = IF InPipe(n) \/ InHand(n) THEN 0 ELSE 1
            /\ \A s \in SamplesOf(n) : flows[s[1]].key = generator(n - 1).key

Eligible == EligibleFlows(flows, old)

(***************************************************************************)
(* An arrow key ends the program with an index out of range only while the *)
(* selected flow itself is not among the eligible ones.                    *)
(***************************************************************************)
PanicsOffSelection ==
    ended = "panic" /\ keyboard = "wait" => selected \notin Eligible

(***************************************************************************)
(* The arrow keys select an eligible flow, and skip none: there is no      *)
(* eligible flow between the one that was selected and the one that is     *)
(* selected now, unless it goes up from a flow that is not eligible.       *)
(***************************************************************************)
NeighbourSelected ==
    [][selected' # selected =>
        /\ selected' \in Eligible
        /\ \A i \in Eligible :
            /\ ~(selected < i /\ i < selected')
            /\ selected' < i /\ i < selected => selected \notin Eligible]_vars

Quiet ==
    /\ Running
    /\ reader.at \in {"read", "end"}
    /\ appenders = {} /\ afters = {}
    /\ updater.at = "select" /\ keyboard = "wait" /\ redraw.at = "receive"

(***************************************************************************)
(* "The selected flow is highlighted and its details are shown.", says the *)
(* help text of pipe/ui.go:84.  It is so once nothing is under way, unless *)
(* the last to send details was an after-goroutine that had looked at the  *)
(* selection before it changed.                                            *)
(***************************************************************************)
DetailsFollow ==
    Quiet /\ flows # <<>> => details = selected \/ stale

OnScreen(n) ==
    \E s \in SamplesOf(n) :
        \/ \A g \in 1..Graphs : shown[s[1]][g] >= s[2]
        \/ \E other \in widgets : other # s[1]

(***************************************************************************)
(* A line that was read gets into its flow and, as long as no other flow   *)
(* has charts that could swallow the update, onto the flow's charts.  Only *)
(* a chart that could not be created stops this, for it keeps the mutex.   *)
(***************************************************************************)
LinesReachScreen ==
    \A n \in 1..MaxLines :
        HasRead(n) ~> (OnScreen(n) \/ ~Running \/ mutex = "nobody any more")

=============================================================================
